------------------------ MODULE RotationCoordinator ------------------------
(***************************************************************************)
(* Screen rotation: internal/rotation/coordinator.go, driven by the        *)
(* /api/screen/* endpoints (internal/rotation/handler.go) and by           *)
(* configuration reloads.                                                  *)
(*                                                                         *)
(* Two one-shot timers (the next automatic rotation and the end of a timed *)
(* pause) call back into the coordinator from goroutines of their own.     *)
(* Stopping a timer that has already fired does not take its goroutine     *)
(* back, so each timer carries the generation it was armed with and the    *)
(* callback compares it with the current one under the mutex.  Everything, *)
(* publishing included, happens while the mutex is held.                   *)
(***************************************************************************)
EXTENDS Integers

CONSTANTS
    MaxScreens,   \* bound: screens in a solved layout
    Intervals,    \* configured rotation intervals, in seconds; 0 turns rotation off
    PauseDefaults,\* configured pause durations, in seconds; 0 pauses for good
    NotPublished, \* no screen.rotate has been published yet
    MaxGen        \* bound: timer generations used in one behaviour

ASSUME ScreensAssumption == MaxScreens \in Nat
ASSUME IntervalsAssumption == Intervals \subseteq Nat /\ PauseDefaults \subseteq Nat
ASSUME MaxGenAssumption == MaxGen \in Nat

\* A configuration snapshot as rotation sees it; total = 0 stands for a nil
\* snapshot, a nil layout and a layout without screens.
Config == [total: 0..MaxScreens, interval: Intervals, pause: PauseDefaults]
RotateData == [screen: Nat, total: Nat, interval: Nat]

VARIABLES
    snapshot,      \* the active configuration
    currentScreen,
    paused,
    stopped,
    timerGen, pauseGen,           \* current generations
    rotateTimer, pauseTimer,      \* generation of the timer object held, 0 if nil
    rotateRunning, pauseRunning,  \* that timer object is still counting down
    rotateFired, pauseFired,      \* generations whose callback waits for the mutex
    published,     \* the last screen.rotate data broadcast
    lastRequest    \* history: timerGen when a request or reload last took effect

timerVars == <<timerGen, rotateTimer, rotateRunning>>
pauseVars == <<pauseGen, pauseTimer, pauseRunning>>
vars == <<snapshot, currentScreen, paused, stopped, timerVars, pauseVars,
          rotateFired, pauseFired, published, lastRequest>>

total == snapshot.total

-----------------------------------------------------------------------------
(* Timers.                                                                 *)

\* armRotationTimerLocked: stop the old timer, then arm a new one if the
\* state after the operation calls for it.  The generation goes up once for
\* the stop and once more for the new timer.
MayRotate == ~stopped /\ ~paused /\ snapshot.total > 1 /\ snapshot.interval > 0

StopRotationTimer ==
    /\ timerGen' = timerGen + 1
    /\ rotateTimer' = 0
    /\ rotateRunning' = FALSE

\* Fault: the callback captures the generation of the stop.
ArmRotationTimer_StaleGen ==
    IF MayRotate'
    THEN /\ timerGen' = timerGen + 2
         /\ rotateTimer' = timerGen + 1
         /\ rotateRunning' = TRUE
    ELSE StopRotationTimer

ArmRotationTimer ==
    IF MayRotate'
    THEN /\ timerGen' = timerGen + 2
         /\ rotateTimer' = timerGen + 2
         /\ rotateRunning' = TRUE
    ELSE StopRotationTimer

StopPauseTimer ==
    /\ pauseGen' = pauseGen + 1
    /\ pauseTimer' = 0
    /\ pauseRunning' = FALSE

\* stopPauseTimerLocked followed by a new pause timer.
RestartPauseTimer ==
    /\ pauseGen' = pauseGen + 2
    /\ pauseTimer' = pauseGen + 2
    /\ pauseRunning' = TRUE

CurrentData == [screen |-> currentScreen, total |-> snapshot.total, interval |-> snapshot.interval]

\* Fault: the data to publish is built before the change.
CommitScreenChange_Early == ArmRotationTimer /\ published' = CurrentData

\* commitScreenChangeLocked: re-arm, then publish what is now on screen.
CommitScreenChange ==
    /\ ArmRotationTimer
    /\ published' = CurrentData'

Init ==
    /\ snapshot \in Config
    /\ currentScreen = 0
    /\ paused = FALSE
    /\ stopped = FALSE
    /\ LET arm == snapshot.total > 1 /\ snapshot.interval > 0 IN
         /\ timerGen \in IF arm THEN {2} ELSE IF snapshot.total = 0 THEN {0, 1} ELSE {1}
         /\ rotateTimer = IF arm THEN 2 ELSE 0
         /\ rotateRunning = arm
    /\ pauseGen = 0
    /\ pauseTimer = 0
    /\ pauseRunning = FALSE
    /\ rotateFired = {}
    /\ pauseFired = {}
    /\ published = NotPublished
    /\ lastRequest = 0

-----------------------------------------------------------------------------
(* Requests and reloads.                                                   *)

WithinBound == timerGen < MaxGen /\ pauseGen < MaxGen

\* SelectScreen(index); an index out of range is refused.
SelectScreen(index) ==
    /\ WithinBound
    /\ ~stopped
    /\ index < total
    /\ currentScreen' = index
    /\ UNCHANGED <<snapshot, paused, stopped>>
    /\ CommitScreenChange
    /\ lastRequest' = timerGen
    /\ UNCHANGED <<pauseVars, rotateFired, pauseFired>>

\* AdvanceScreen(direction); with a single screen the direction is not looked at.
AdvanceScreen(step) ==
    /\ WithinBound
    /\ ~stopped
    /\ total > 0
    /\ currentScreen' = (currentScreen + step + total) % total
    /\ UNCHANGED <<snapshot, paused, stopped>>
    /\ CommitScreenChange
    /\ lastRequest' = timerGen
    /\ UNCHANGED <<pauseVars, rotateFired, pauseFired>>

\* PauseRotation(duration): negative means the configured default, zero means
\* until further notice.
PauseRotation(duration) ==
    LET effective == IF duration < 0 THEN snapshot.pause ELSE duration IN
    /\ WithinBound
    /\ ~stopped
    /\ paused' = TRUE
    /\ StopRotationTimer
    /\ IF effective > 0 THEN RestartPauseTimer ELSE StopPauseTimer
    /\ lastRequest' = timerGen
    /\ UNCHANGED <<snapshot, currentScreen, stopped, rotateFired, pauseFired, published>>

\* Fault: resuming does not arm the rotation timer.
ResumeRotation_NotArmed ==
    /\ WithinBound
    /\ ~stopped
    /\ paused' = FALSE
    /\ StopPauseTimer
    /\ lastRequest' = timerGen
    /\ UNCHANGED <<snapshot, stopped, timerVars, currentScreen, rotateFired, pauseFired, published>>

ResumeRotation ==
    /\ WithinBound
    /\ ~stopped
    /\ paused' = FALSE
    /\ UNCHANGED <<snapshot, stopped>>
    /\ StopPauseTimer
    /\ ArmRotationTimer
    /\ lastRequest' = timerGen
    /\ UNCHANGED <<currentScreen, rotateFired, pauseFired, published>>

\* UpdateConfig(snap), also after Stop: without screens rotation stops and
\* nothing is published.
UpdateConfig(snap) ==
    /\ WithinBound
    /\ snapshot' = snap
    /\ UNCHANGED <<paused, stopped>>
    /\ IF snap.total = 0
       THEN /\ currentScreen' = 0
            /\ StopRotationTimer
            /\ UNCHANGED published
       ELSE /\ currentScreen' = IF currentScreen >= snap.total THEN 0 ELSE currentScreen
            /\ CommitScreenChange
    /\ lastRequest' = timerGen
    /\ UNCHANGED <<pauseVars, rotateFired, pauseFired>>

Stop ==
    /\ ~stopped
    /\ stopped' = TRUE
    /\ StopRotationTimer
    /\ StopPauseTimer
    /\ UNCHANGED <<snapshot, currentScreen, paused, rotateFired, pauseFired, published, lastRequest>>

-----------------------------------------------------------------------------
(* Timer goroutines.                                                       *)

RotateTimerFires ==
    /\ rotateRunning
    /\ timerGen < MaxGen
    /\ rotateRunning' = FALSE
    /\ rotateFired' = rotateFired \cup {rotateTimer}
    /\ UNCHANGED <<snapshot, currentScreen, paused, stopped, timerGen, rotateTimer, pauseVars,
                   pauseFired, published, lastRequest>>

PauseTimerFires ==
    /\ pauseRunning
    /\ pauseRunning' = FALSE
    /\ pauseFired' = pauseFired \cup {pauseTimer}
    /\ UNCHANGED <<snapshot, currentScreen, paused, stopped, timerVars, pauseGen, pauseTimer,
                   rotateFired, published, lastRequest>>

\* Fault: a callback that was overtaken is not recognised by its generation.
OnRotateTimeout_AnyGen(gen) ==
    /\ gen \in rotateFired
    /\ rotateFired' = rotateFired \ {gen}
    /\ UNCHANGED <<snapshot, paused, stopped>>
    /\ IF ~stopped /\ ~paused /\ total > 1
       THEN /\ currentScreen' = (currentScreen + 1) % total
            /\ CommitScreenChange
       ELSE UNCHANGED <<currentScreen, timerVars, published>>
    /\ UNCHANGED <<pauseVars, pauseFired, lastRequest>>

\* The rotation timer's callback, once it has the mutex.
OnRotateTimeout(gen) ==
    /\ gen \in rotateFired
    /\ rotateFired' = rotateFired \ {gen}
    /\ UNCHANGED <<snapshot, paused, stopped>>
    /\ IF ~stopped /\ ~paused /\ timerGen = gen /\ total > 1
       THEN /\ currentScreen' = (currentScreen + 1) % total
            /\ CommitScreenChange
       ELSE UNCHANGED <<currentScreen, timerVars, published>>
    /\ UNCHANGED <<pauseVars, pauseFired, lastRequest>>

\* The pause timer's callback; it leaves the pauseTimer field as it is.
OnPauseTimeout(gen) ==
    /\ gen \in pauseFired
    /\ pauseFired' = pauseFired \ {gen}
    /\ UNCHANGED <<snapshot, stopped>>
    /\ IF ~stopped /\ paused /\ pauseGen = gen
       THEN /\ paused' = FALSE
            /\ ArmRotationTimer
       ELSE UNCHANGED <<paused, timerVars>>
    /\ UNCHANGED <<currentScreen, pauseVars, rotateFired, published, lastRequest>>

-----------------------------------------------------------------------------
\* The three endpoints; a request they refuse changes nothing.
Request ==
    \/ \E index \in 0..MaxScreens : SelectScreen(index)
    \/ \E step \in {-1, 1} : AdvanceScreen(step)
    \/ \E duration \in {-1, 0, 60} : PauseRotation(duration)
    \/ ResumeRotation

RotateTimeout == \E gen \in rotateFired : OnRotateTimeout(gen)
PauseTimeout == \E gen \in pauseFired : OnPauseTimeout(gen)

Next ==
    \/ Request
    \/ \E snap \in Config : UpdateConfig(snap)
    \/ Stop
    \/ RotateTimerFires
    \/ PauseTimerFires
    \/ RotateTimeout
    \/ PauseTimeout

Spec == Init /\ [][Next]_vars

\* Timers run out and their goroutines eventually get the mutex.
Fairness ==
    /\ WF_vars(RotateTimerFires)
    /\ WF_vars(PauseTimerFires)
    /\ WF_vars(RotateTimeout)
    /\ WF_vars(PauseTimeout)

FairSpec == Spec /\ Fairness

-----------------------------------------------------------------------------
(* Properties.                                                             *)

\* The types of the coordinator's fields.
TypeOK ==
    /\ snapshot \in Config
    /\ currentScreen \in Nat
    /\ paused \in BOOLEAN
    /\ stopped \in BOOLEAN
    /\ timerGen \in Nat
    /\ pauseGen \in Nat
    /\ rotateTimer \in Nat
    /\ pauseTimer \in Nat
    /\ rotateRunning \in BOOLEAN
    /\ pauseRunning \in BOOLEAN
    /\ rotateFired \in SUBSET (Nat \ {0})
    /\ pauseFired \in SUBSET (Nat \ {0})
    /\ published \in RotateData \cup {NotPublished}
    /\ lastRequest \in Nat

\* The screen index always denotes a screen of the active layout, through
\* reloads that shrink the layout and timers that rotate meanwhile.
ScreenInRange == currentScreen < total \/ (total = 0 /\ currentScreen = 0)

\* An automatic rotation is on its way exactly when rotation is to happen: it
\* never dies on some path of requests, reloads and expiries, and none is
\* pending while rotation is paused, stopped or switched off.
RotationPending == rotateRunning \/ (rotateTimer # 0 /\ timerGen \in rotateFired)
RotationArmed == RotationPending <=> MayRotate

\* A pause with a duration has its end on the way: a timed pause cannot lose
\* its timer and leave the wall on one screen for good.
TimedPauseEnds ==
    paused /\ pauseTimer # 0 => pauseRunning \/ (pauseTimer = pauseGen /\ pauseGen \in pauseFired)

\* Displays were told about the screen the coordinator is on (screen.rotate
\* is published under the mutex, with the state it describes).
PublishedIsCurrent ==
    published # NotPublished /\ total > 0 =>
      published.screen = currentScreen /\ published.total = total

\* A request or a reload buys a full interval: a rotation that was already due
\* when it took effect does not carry the screen away behind its back.
FullIntervalAfterRequest ==
    [][\A gen \in rotateFired :
         OnRotateTimeout(gen) /\ currentScreen' # currentScreen => gen > lastRequest]_vars

\* The wall goes on: an armed rotation timer leads to a rotation or is
\* superseded, and a timed pause is over eventually unless it was replaced by
\* another one.
RotationGoesOn ==
    /\ \A g \in 1..(MaxGen - 1) : (rotateRunning /\ timerGen = g) ~> (timerGen # g)
    /\ \A g \in 1..MaxGen : (paused /\ pauseTimer = g) ~> (~paused \/ pauseTimer # g)
=============================================================================
