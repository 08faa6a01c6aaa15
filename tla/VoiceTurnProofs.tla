--------------------------- MODULE VoiceTurnProofs --------------------------
(***************************************************************************)
(* Proofs about the voice HUD and the turns that drive it, for every set   *)
(* of concurrent posters, every set of states they may post and every      *)
(* bound on watchdogs and streamed sentences: the fields keep their types, *)
(* a speaking HUD is never left without a live watchdog, and those who     *)
(* took part in a turn agree on how it ended.                              *)
(***************************************************************************)
EXTENDS VoiceTurn, TLAPS

-----------------------------------------------------------------------------
(* The HUD coordinator.                                                    *)

\* The coordinator's part of the inductive invariant.
HudInv == CoordTypeOK /\ WatchdogGuardsSpeaking

\* A snapshot that is handed over for publication has the type of one.
LEMMA AnnounceHud ==
    ASSUME CoordTypeOK, NEW by, Announce(by), state' \in HudStates, status' \in BOOLEAN
    PROVE  \A r \in inflight' : r.snap \in [state: HudStates, status: BOOLEAN]
<1> DEFINE S == [state: HudStates, status: BOOLEAN]
           new == [by |-> by, snap |-> Snapshot']
<1>1. Snapshot' \in S
  BY DEF Snapshot
<1>2. new.snap \in S
  BY <1>1
<1>3. inflight' = inflight \cup {new}
  BY DEF Announce
<1>4. \A r \in inflight : r.snap \in S
  BY DEF CoordTypeOK
<1> HIDE DEF S, new
<1> QED
  BY <1>2, <1>3, <1>4 DEF S

\* updateState arms the watchdog for "speaking" and disarms it for every other
\* state, whoever calls it and whichever callbacks are on their way.
LEMMA UpdateStateHud ==
    ASSUME HudInv, NEW by, NEW new \in HudStates, UpdateState(by, new),
           fired' = fired, resetting' \subseteq resetting
    PROVE  HudInv'
<1>1. /\ state' = new /\ status' = FALSE /\ Announce(by)
      /\ IF new = "speaking" THEN ArmSpeakingWatchdog ELSE DisarmSpeakingWatchdog
      /\ stopped' = stopped /\ broadcast' = broadcast
  BY DEF UpdateState
<1>2. CoordTypeOK /\ WatchdogGuardsSpeaking
  BY DEF HudInv
<1>3. \A r \in inflight' : r.snap \in [state: HudStates, status: BOOLEAN]
  BY <1>1, <1>2, AnnounceHud
<1>4. fired' \in SUBSET (Nat \ {0}) /\ resetting' \in SUBSET (Nat \ {0})
  BY <1>2 DEF CoordTypeOK
<1>5. CASE new = "speaking"
  <2>1. ArmSpeakingWatchdog
    BY <1>1, <1>5
  <2>2. /\ speakingTimer' \in Nat /\ running' \in SUBSET (Nat \ {0}) /\ nextTimer' \in Nat \ {0}
        /\ running' \subseteq {speakingTimer'} /\ speakingTimer' \in running' /\ speakingTimer' # 0
    BY <1>2, <2>1 DEF CoordTypeOK, WatchdogGuardsSpeaking, ArmSpeakingWatchdog
  <2> QED
    BY <1>1, <1>2, <1>3, <1>4, <1>5, <2>2 DEF HudInv, CoordTypeOK, WatchdogGuardsSpeaking
<1>6. CASE new # "speaking"
  <2>1. DisarmSpeakingWatchdog
    BY <1>1, <1>6
  <2>2. /\ speakingTimer' = 0 /\ nextTimer' = nextTimer /\ running' = {}
    BY <1>2, <2>1 DEF WatchdogGuardsSpeaking, DisarmSpeakingWatchdog
  <2> QED
    BY <1>1, <1>2, <1>3, <1>4, <1>6, <2>2 DEF HudInv, CoordTypeOK, WatchdogGuardsSpeaking
<1> QED
  BY <1>5, <1>6

\* A status text leaves the state and its watchdog alone.
LEMMA SetStatusHud ==
    ASSUME HudInv, NEW by, SetStatus(by)
    PROVE  HudInv'
<1>1. \A r \in inflight' : r.snap \in [state: HudStates, status: BOOLEAN]
  BY AnnounceHud DEF HudInv, CoordTypeOK, SetStatus
<1> QED
  BY <1>1 DEF HudInv, CoordTypeOK, WatchdogGuardsSpeaking, SetStatus, timerVars

\* Stop is the only step that may leave a speaking HUD without a watchdog.
LEMMA StopHud ==
    ASSUME HudInv, Stop
    PROVE  HudInv'
  BY DEF HudInv, CoordTypeOK, WatchdogGuardsSpeaking, Stop, DisarmSpeakingWatchdog

\* A watchdog on its way from firing to its reset still guards the state it
\* was armed for.
LEMMA WatchdogHud ==
    ASSUME HudInv, NEW t, WatchdogStep(t)
    PROVE  HudInv'
<1>1. CASE WatchdogFires(t)
  BY <1>1 DEF HudInv, CoordTypeOK, WatchdogGuardsSpeaking, WatchdogFires
<1>2. CASE WatchdogCheck(t)
  <2>1. resetting' \in SUBSET (Nat \ {0}) /\ fired' \in SUBSET (Nat \ {0})
    BY <1>2 DEF HudInv, CoordTypeOK, WatchdogCheck
  <2> QED
    BY <1>2, <2>1 DEF HudInv, CoordTypeOK, WatchdogGuardsSpeaking, WatchdogCheck, timerVars
<1>3. CASE WatchdogReset(t)
  <2>1. "idle" \in HudStates
    BY DEF HudStates
  <2> QED
    BY <1>3, <2>1, UpdateStateHud DEF WatchdogReset
<1> QED
  BY <1>1, <1>2, <1>3 DEF WatchdogStep

\* Publishing changes what displays see, not the state.
LEMMA PublicationHud ==
    ASSUME HudInv, NEW by, Publication(by)
    PROVE  HudInv'
  BY DEF HudInv, CoordTypeOK, WatchdogGuardsSpeaking, Publication, PublishState, timerVars

\* The steps of posts, watchdogs, publications and the shutdown.
LEMMA CoordNextHud ==
    ASSUME HudInv, CoordNext
    PROVE  HudInv'
<1>1. ASSUME NEW c \in Posters, NEW new \in Posted, PostState(c, new) PROVE HudInv'
  BY <1>1, UpdateStateHud, PostedAssumption DEF PostState
<1> QED
  BY <1>1, StopHud, WatchdogHud, PublicationHud DEF CoordNext

\* Nothing happens to the coordinator.
LEMMA UnchangedHud ==
    ASSUME HudInv, UNCHANGED coordVars
    PROVE  HudInv'
  BY DEF HudInv, CoordTypeOK, WatchdogGuardsSpeaking, coordVars, timerVars

-----------------------------------------------------------------------------
(* The turn.                                                               *)

TurnTypeOK ==
    /\ stage \in Stages
    /\ streamed \in 0..MaxChunks
    /\ audio \in {"none", "sentences", "reply"}
    /\ finals \in Nat
    /\ transcript \in {"none", "empty", "words"}
    /\ asked \in BOOLEAN
    /\ replied \in BOOLEAN
    /\ shown \in HudStates \cup {"none"}
    /\ outcome \in {"none", "rejected", "success", "error"}
    /\ stalled \in BOOLEAN

\* What is true of a turn in each of its stages: what the HUD was told, what is
\* in the conversation and whether the node has its final chunk.  A turn that
\* fails may come from any stage, and has shown the error when it is released.
StageFacts ==
    /\ stage \in {"reading", "transcribing"} => audio = "none" /\ finals = 0 /\ ~asked /\ ~replied
    /\ stage = "reading" => shown = "none"
    /\ stage \in {"thinking", "replying", "finishing"} => asked \/ transcript = "empty"
    /\ stage \in {"thinking", "replying"} => finals = 0
    /\ stage = "thinking" => ~replied
    /\ stage \in {"replying", "finishing"} => shown = "speaking"
    /\ stage = "finishing" => finals = IF audio = "none" THEN 0 ELSE 1
    /\ stage = "released" => shown = "error"
    /\ stage # "none" => outcome = "none"

TurnInv == TurnTypeOK /\ StageFacts /\ OutcomeShown

Inv == HudInv /\ TurnInv

\* A transition of the turn keeps the coordinator's invariant.
LEMMA TransitionHud ==
    ASSUME HudInv, NEW new \in HudStates, Transition(new)
    PROVE  HudInv' /\ shown' = new
  BY UpdateStateHud DEF Transition

\* The stages up to the brain's reply keep the turn's invariant.
LEMMA ListenTurn ==
    ASSUME TurnInv,
           \/ StartTurn \/ RejectAudio \/ NotifyTranscribing \/ NotifyThinking
           \/ ForwardStatus \/ StreamSentence \/ BrainReplied
    PROVE  TurnInv'
<1> USE DEF TurnInv, TurnTypeOK, StageFacts, OutcomeShown, Goto, Stages, HudStates
<1>1. CASE StartTurn
  <2>1. asked' \in BOOLEAN /\ replied' \in BOOLEAN
    BY <1>1, Zenon DEF StartTurn
  <2>2. ~asked' /\ ~replied'
    BY <1>1, Zenon DEF StartTurn
  <2>3. /\ stage' = "reading" /\ streamed' = 0 /\ audio' = "none" /\ transcript' = "none"
        /\ finals' = 0 /\ shown' = "none" /\ outcome' = "none" /\ stalled' = stalled
    BY <1>1 DEF StartTurn
  <2> QED
    BY <2>1, <2>2, <2>3, MaxChunksAssumption
<1>2. CASE RejectAudio
  BY <1>2 DEF RejectAudio
<1>3. CASE NotifyTranscribing
  BY <1>3 DEF NotifyTranscribing, Transition
<1>4. CASE NotifyThinking
  <2>1. /\ stage = "transcribing" /\ stage' = "thinking" /\ shown' = "thinking"
        /\ UNCHANGED <<streamed, audio, finals, replied, outcome, stalled>>
        /\ transcript' \in {"empty", "words"}
    BY <1>4 DEF NotifyThinking, Transition
  <2>2. asked' \in BOOLEAN
    BY <1>4, Zenon DEF NotifyThinking
  <2>3. asked' \/ transcript' = "empty"
    BY <1>4, Zenon DEF NotifyThinking
  <2> QED
    BY <2>1, <2>2, <2>3
<1>5. CASE ForwardStatus
  BY <1>5 DEF ForwardStatus
<1>6. CASE StreamSentence
  BY <1>6, MaxChunksAssumption DEF StreamSentence, Transition
<1>7. CASE BrainReplied
  <2>1. /\ stage = "thinking" /\ stage' = "replying" /\ shown' = "speaking"
        /\ UNCHANGED <<streamed, audio, finals, transcript, asked, outcome, stalled>>
    BY <1>7 DEF BrainReplied, Transition
  <2>2. replied' \in BOOLEAN
    BY <1>7 DEF BrainReplied
  <2>3. (asked' \/ transcript' = "empty") /\ finals' = 0 /\ outcome' = "none"
    BY <2>1
  <2> QED
    BY <2>1, <2>2, <2>3
<1> QED
  BY <1>1, <1>2, <1>3, <1>4, <1>5, <1>6, <1>7

\* The reply and the ways a turn ends keep the turn's invariant.
LEMMA ReplyTurn ==
    ASSUME TurnInv,
           \/ SpeakReply \/ ReplySpoken \/ ReplyBrokeOff \/ StageFails \/ TurnFails
           \/ CompleteTurn \/ HandleTurnError \/ ReleaseTurn
    PROVE  TurnInv'
<1> USE DEF TurnInv, TurnTypeOK, StageFacts, OutcomeShown, Goto, Stages, HudStates
<1>1. CASE SpeakReply
  BY <1>1 DEF SpeakReply, Transition
<1>2. CASE ReplySpoken
  BY <1>2 DEF ReplySpoken, FinishAudio
<1>3. CASE ReplyBrokeOff
  BY <1>3 DEF ReplyBrokeOff, FinishAudio, Transition
<1>4. CASE StageFails
  BY <1>4 DEF StageFails, Transition
<1>5. CASE TurnFails
  BY <1>5 DEF TurnFails
<1>6. CASE CompleteTurn
  BY <1>6 DEF CompleteTurn
<1>7. CASE HandleTurnError
  BY <1>7 DEF HandleTurnError, Transition
<1>8. CASE ReleaseTurn
  BY <1>8 DEF ReleaseTurn
<1> QED
  BY <1>1, <1>2, <1>3, <1>4, <1>5, <1>6, <1>7, <1>8

\* Every step of a turn keeps the coordinator's invariant.
LEMMA TurnStepHud ==
    ASSUME HudInv, StartTurn \/ ForwardStatus \/ TurnStep
    PROVE  HudInv'
<1>1. {"transcribing", "thinking", "speaking", "error"} \subseteq HudStates
  BY DEF HudStates
<1>2. CASE UNCHANGED coordVars
  BY <1>2, UnchangedHud
<1>3. CASE \E new \in {"transcribing", "thinking", "speaking", "error"} : Transition(new)
  BY <1>1, <1>3, TransitionHud
<1>4. CASE SetStatus(Turn)
  BY <1>4, SetStatusHud
<1> QED
  BY <1>2, <1>3, <1>4
     DEF StartTurn, ForwardStatus, TurnStep, RejectAudio, NotifyTranscribing, NotifyThinking,
         StreamSentence, BrainReplied, SpeakReply, ReplySpoken, ReplyBrokeOff, StageFails,
         TurnFails, CompleteTurn, HandleTurnError, ReleaseTurn

\* The invariant is inductive.
LEMMA Step == Inv /\ [Next]_vars => Inv'
<1> SUFFICES ASSUME Inv, [Next]_vars PROVE Inv'
  OBVIOUS
<1>1. HudInv /\ TurnInv
  BY DEF Inv
<1>2. CASE CoordNext /\ UNCHANGED turnVars
  <2>1. HudInv'
    BY <1>1, <1>2, CoordNextHud
  <2>2. TurnInv'
    BY <1>1, <1>2 DEF TurnInv, TurnTypeOK, StageFacts, OutcomeShown, turnVars
  <2> QED
    BY <2>1, <2>2 DEF Inv
<1>3. CASE StartTurn \/ ForwardStatus \/ TurnStep
  <2>1. HudInv'
    BY <1>1, <1>3, TurnStepHud
  <2>2. TurnInv'
    BY <1>1, <1>3, ListenTurn, ReplyTurn DEF TurnStep
  <2> QED
    BY <2>1, <2>2 DEF Inv
<1>4. CASE Stall \/ Resume
  <2>1. HudInv'
    BY <1>1, <1>4, UnchangedHud DEF Stall, Resume
  <2>2. stalled' \in BOOLEAN
    BY <1>4, Zenon DEF Stall, Resume
  <2>3. TurnInv'
    BY <1>1, <1>4, <2>2 DEF TurnInv, TurnTypeOK, StageFacts, OutcomeShown, Stall, Resume
  <2> QED
    BY <2>1, <2>3 DEF Inv
<1>5. CASE UNCHANGED vars
  <2>1. HudInv'
    BY <1>1, <1>5, UnchangedHud DEF vars
  <2>2. TurnInv'
    BY <1>1, <1>5 DEF TurnInv, TurnTypeOK, StageFacts, OutcomeShown, turnVars, vars
  <2> QED
    BY <2>1, <2>2 DEF Inv
<1> QED
  BY <1>2, <1>3, <1>4, <1>5 DEF Next

\* The initial state satisfies it.
LEMMA Start == Init => Inv
<1> SUFFICES ASSUME Init PROVE Inv
  OBVIOUS
<1>1. broadcast \in [state: HudStates, status: BOOLEAN]
  BY DEF Init, CoordInit, Snapshot, HudStates
<1>2. CoordTypeOK
  <2>1. status \in BOOLEAN /\ stopped \in BOOLEAN
    BY Zenon DEF Init, CoordInit
  <2>2. /\ state = "idle" /\ speakingTimer = 0 /\ nextTimer = 1
        /\ running = {} /\ fired = {} /\ resetting = {} /\ inflight = {}
    BY DEF Init, CoordInit
  <2> QED
    BY <1>1, <2>1, <2>2 DEF CoordTypeOK, HudStates
<1>3. WatchdogGuardsSpeaking
  BY DEF Init, CoordInit, WatchdogGuardsSpeaking
<1>4. TurnTypeOK
  <2>1. asked \in BOOLEAN /\ replied \in BOOLEAN /\ stalled \in BOOLEAN
    BY Zenon DEF Init
  <2>2. /\ stage = "none" /\ streamed = 0 /\ audio = "none" /\ transcript = "none"
        /\ finals = 0 /\ shown = "none" /\ outcome = "none"
    BY DEF Init
  <2> QED
    BY <2>1, <2>2, MaxChunksAssumption DEF TurnTypeOK, Stages
<1>5. StageFacts /\ OutcomeShown
  BY DEF Init, StageFacts, OutcomeShown
<1> QED
  BY <1>2, <1>3, <1>4, <1>5 DEF Inv, HudInv, TurnInv

\* The inductive invariant holds in every state of every behaviour.
THEOREM Invariance == Spec => []Inv
  BY Start, Step, PTL DEF Spec

\* The fields of the coordinator and of the hub keep their types.
THEOREM Typing == Spec => []TypeOK
<1>1. Inv => TypeOK
  BY DEF Inv, HudInv, TurnInv, TurnTypeOK, TypeOK
<1> QED
  BY <1>1, Invariance, PTL

\* A HUD that says "speaking" has exactly one live watchdog, whatever posts,
\* turns, firing timers and their callbacks do in between; no other state has
\* one, and only Stop leaves a speaking HUD without.
THEOREM WatchdogAlwaysGuards == Spec => []WatchdogGuardsSpeaking
<1>1. Inv => WatchdogGuardsSpeaking
  BY DEF Inv, HudInv
<1> QED
  BY <1>1, Invariance, PTL

\* However a turn ended, the HUD, the node and the conversation agree on it: what they
\* were told, and the question and the answer that recordChat keeps (hub.go, hub_turn.go).
THEOREM OutcomeAlwaysShown == Spec => []OutcomeShown
<1>1. Inv => OutcomeShown
  BY DEF Inv, TurnInv
<1> QED
  BY <1>1, Invariance, PTL
=============================================================================
