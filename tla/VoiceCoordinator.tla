-------------------------- MODULE VoiceCoordinator --------------------------
(***************************************************************************)
(* The voice HUD state: internal/voice/coordinator.go, set by the voice    *)
(* hub's turns and by POST /api/voice/state.                               *)
(*                                                                         *)
(* Entering "speaking" arms a 30 s watchdog that brings the HUD back to    *)
(* idle if nobody else does.  Its callback looks at the state under the    *)
(* mutex, releases the mutex, and only then calls Reset, which takes the   *)
(* mutex again.  As in the other coordinators a new state is published     *)
(* after the mutex is released.                                            *)
(***************************************************************************)
EXTENDS Naturals, FiniteSets

CONSTANTS
    Posters,    \* POST /api/voice/state requests in progress at the same time
    Posted,     \* the states they ask for
    MaxTimers   \* bound: watchdogs armed in one behaviour

ASSUME MaxTimersAssumption == MaxTimers \in Nat

HudStates == {"idle", "listening", "transcribing", "thinking", "synthesizing", "speaking", "error"}

ASSUME PostedAssumption == Posted \subseteq HudStates

VARIABLES
    state,
    status,         \* an intermediate status text is set
    speakingTimer,  \* number of the watchdog held, 0 for nil
    running,        \* watchdogs counting down
    fired,          \* watchdogs whose callback waits for the mutex
    resetting,      \* callbacks that passed their check and are about to Reset
    nextTimer,
    stopped,        \* Stop has been called
    inflight,       \* snapshots not published yet
    broadcast       \* the last voice.state published

timerVars == <<speakingTimer, running, nextTimer>>
coordVars == <<state, status, timerVars, fired, resetting, stopped, inflight, broadcast>>

Snapshot == [state |-> state, status |-> status]

CoordInit ==
    /\ state = "idle"
    /\ status = FALSE
    /\ speakingTimer = 0
    /\ running = {}
    /\ fired = {}
    /\ resetting = {}
    /\ nextTimer = 1
    /\ stopped = FALSE
    /\ inflight = {}
    /\ broadcast = Snapshot

\* Goroutines: a POST, a watchdog's callback, the turn in flight.
Watchdog(t) == <<"watchdog", t>>
Turn == <<"turn">>

Idle(by) == \A r \in inflight : r.by # by
Announce(by) == inflight' = inflight \cup {[by |-> by, snap |-> Snapshot']}

ArmSpeakingWatchdog ==
    /\ nextTimer <= MaxTimers
    /\ speakingTimer' = nextTimer
    /\ running' = (running \ {speakingTimer}) \cup {nextTimer}
    /\ nextTimer' = nextTimer + 1

\* Fault: the timer is forgotten but not stopped.
DisarmSpeakingWatchdog_NotStopped == speakingTimer' = 0 /\ UNCHANGED <<running, nextTimer>>

DisarmSpeakingWatchdog ==
    /\ speakingTimer' = 0
    /\ running' = running \ {speakingTimer}
    /\ UNCHANGED nextTimer

\* updateState: one critical section, then the snapshot is to be published.
UpdateState(by, new) ==
    /\ Idle(by)
    /\ state' = new
    /\ status' = FALSE
    /\ IF new = "speaking" THEN ArmSpeakingWatchdog ELSE DisarmSpeakingWatchdog
    /\ Announce(by)
    /\ UNCHANGED <<stopped, broadcast>>

\* SetFullState from a POST; an unknown state is refused.
PostState(c, new) ==
    /\ UpdateState(c, new)
    /\ UNCHANGED <<fired, resetting>>

\* SetStatus: the state and its watchdog are left alone.
SetStatus(by) ==
    /\ Idle(by)
    /\ status' = TRUE
    /\ UNCHANGED state
    /\ Announce(by)
    /\ UNCHANGED <<timerVars, fired, resetting, stopped, broadcast>>

\* Stop at shutdown: the watchdog goes, the state stays.
Stop ==
    /\ ~stopped
    /\ stopped' = TRUE
    /\ DisarmSpeakingWatchdog
    /\ UNCHANGED <<state, status, fired, resetting, inflight, broadcast>>

WatchdogFires(t) ==
    /\ t \in running
    /\ running' = running \ {t}
    /\ fired' = fired \cup {t}
    /\ UNCHANGED <<state, status, speakingTimer, nextTimer, resetting, stopped, inflight, broadcast>>

\* Fault: the callback does not find itself.
WatchdogCheck_Ignored(t) ==
    /\ t \in fired
    /\ fired' = fired \ {t}
    /\ UNCHANGED <<state, status, timerVars, resetting, stopped, inflight, broadcast>>

\* The callback's check, in a critical section of its own.
WatchdogCheck(t) ==
    /\ t \in fired
    /\ fired' = fired \ {t}
    /\ resetting' = IF speakingTimer = t /\ state = "speaking" THEN resetting \cup {t} ELSE resetting
    /\ UNCHANGED <<state, status, timerVars, stopped, inflight, broadcast>>

\* The callback's Reset.
WatchdogReset(t) ==
    /\ t \in resetting
    /\ resetting' = resetting \ {t}
    /\ UpdateState(Watchdog(t), "idle")
    /\ UNCHANGED fired

\* publishState: sink and event hub.
PublishState(r) ==
    /\ r \in inflight
    /\ inflight' = inflight \ {r}
    /\ broadcast' = r.snap
    /\ UNCHANGED <<state, status, timerVars, fired, resetting, stopped>>

WatchdogStep(t) == WatchdogFires(t) \/ WatchdogCheck(t) \/ WatchdogReset(t)
Publication(by) == \E r \in inflight : r.by = by /\ PublishState(r)

Timers == 1..MaxTimers
Goroutines == Posters \cup {Turn} \cup {Watchdog(t) : t \in Timers}

CoordNext ==
    \/ \E c \in Posters, new \in Posted : PostState(c, new)
    \/ Stop
    \/ \E t \in Timers : WatchdogStep(t)
    \/ \E by \in Goroutines : Publication(by)

-----------------------------------------------------------------------------
(* Properties.                                                             *)

\* The types of the coordinator's fields.
CoordTypeOK ==
    /\ state \in HudStates
    /\ status \in BOOLEAN
    /\ speakingTimer \in Nat
    /\ running \in SUBSET (Nat \ {0})
    /\ fired \in SUBSET (Nat \ {0})
    /\ resetting \in SUBSET (Nat \ {0})
    /\ nextTimer \in Nat \ {0}
    /\ stopped \in BOOLEAN
    /\ \A r \in inflight : r.snap \in [state: HudStates, status: BOOLEAN]
    /\ broadcast \in [state: HudStates, status: BOOLEAN]

\* A HUD that says "speaking" has a live watchdog that will take it out of
\* that state, no other state has one, and no watchdog but the one held is
\* counting down; only Stop may leave a speaking HUD without.
WatchdogGuardsSpeaking ==
    /\ running \subseteq {speakingTimer}
    /\ speakingTimer # 0 => state = "speaking" /\ speakingTimer \in running \cup fired \cup resetting
    /\ state = "speaking" /\ ~stopped => speakingTimer # 0
=============================================================================
