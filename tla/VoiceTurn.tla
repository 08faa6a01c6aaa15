------------------------------ MODULE VoiceTurn -----------------------------
(***************************************************************************)
(* One voice interaction: Hub.Interact of internal/voice/hub.go and        *)
(* hub_turn.go, on top of the HUD coordinator.                             *)
(*                                                                         *)
(* A turn reads the recording, has it transcribed, asks the brain (which   *)
(* may stream sentences that are synthesized as they come) and speaks the  *)
(* reply.  Speech-to-text, brain and text-to-speech are external: each may *)
(* answer, fail or time out; but the read from a Wyoming speech-to-text    *)
(* server and the writes of the events to the edge node have no deadline,  *)
(* and may not return as long as the other end keeps the connection open.  *)
(* The edge node may stop listening at any event, which ends the turn with *)
(* an error.  Whatever happens, deferred functions bring the HUD to        *)
(* "error" for a failed turn and then release the in-flight flag, in this  *)
(* order.                                                                  *)
(***************************************************************************)
EXTENDS VoiceCoordinator

CONSTANT MaxChunks  \* bound: sentences a brain streams in one turn

ASSUME MaxChunksAssumption == MaxChunks \in Nat

VARIABLES
    stage,      \* where the turn is; "none" when inFlight is false
    streamed,   \* sentences streamed by the brain so far (streamedAny)
    audio,      \* audio sent or buffered: none, of streamed sentences, of the reply
    finals,     \* audio_chunk events with is_final sent in this turn
    transcript, \* what speech-to-text made of the recording: none yet, "empty", "words"
    asked, replied,  \* messages of this turn in the chat log, by role
    shown,      \* history: the last state this turn gave the HUD
    outcome,    \* history: how the last turn ended
    stalled     \* a call of the turn without a deadline does not return

turnVars == <<stage, streamed, audio, finals, transcript, asked, replied, shown, outcome, stalled>>
vars == <<coordVars, turnVars>>

Stages == {"none", "reading", "transcribing", "thinking", "replying", "finishing", "failing", "released"}

Init ==
    /\ CoordInit
    /\ stage = "none"
    /\ streamed = 0
    /\ audio = "none"
    /\ finals = 0
    /\ transcript = "none"
    /\ asked = FALSE
    /\ replied = FALSE
    /\ shown = "none"
    /\ outcome = "none"
    /\ stalled = FALSE

\* The turn's Transition to a HUD state.
Transition(new) ==
    /\ UpdateState(Turn, new)
    /\ UNCHANGED <<fired, resetting>>
    /\ shown' = new

\* The turn goes on from one stage to another, or to the next step of the same one.
Goto(from, to) ==
    stage = from /\ Idle(Turn) /\ ~stalled /\ stage' = to /\ UNCHANGED stalled

\* The stages in which a read from the speech-to-text server or an event to the node
\* may be under way.
Calling == {"transcribing", "thinking", "replying", "finishing", "failing"}

\* External: the server does not answer, or the node does not read its events.
Stall ==
    /\ stage \in Calling
    /\ ~stalled
    /\ stalled' = TRUE
    /\ UNCHANGED <<coordVars, stage, streamed, audio, finals, transcript, asked, replied, shown, outcome>>

\* External: it does in the end, or the connection is closed.
Resume ==
    /\ stalled
    /\ stalled' = FALSE
    /\ UNCHANGED <<coordVars, stage, streamed, audio, finals, transcript, asked, replied, shown, outcome>>

-----------------------------------------------------------------------------
(* The pipeline.                                                           *)

\* Interact of an enabled hub with no turn in flight; otherwise it is refused.
StartTurn ==
    /\ Goto("none", "reading")
    /\ streamed' = 0
    /\ audio' = "none"
    /\ finals' = 0
    /\ transcript' = "none"
    /\ asked' = FALSE
    /\ replied' = FALSE
    /\ shown' = "none"
    /\ outcome' = "none"
    /\ UNCHANGED coordVars

\* Not a WAV recording: the HUD never hears of this turn.
RejectAudio ==
    /\ Goto("reading", "none")
    /\ outcome' = "rejected"
    /\ UNCHANGED <<coordVars, streamed, audio, finals, transcript, asked, replied, shown>>

NotifyTranscribing ==
    /\ Goto("reading", "transcribing")
    /\ Transition("transcribing")
    /\ UNCHANGED <<streamed, audio, finals, transcript, asked, replied, outcome>>

\* transcribeWithSpeaker succeeded, maybe without a word; notifyThinking logs the
\* question, an empty one is not logged.
NotifyThinking ==
    /\ Goto("transcribing", "thinking")
    /\ Transition("thinking")
    /\ transcript' \in {"empty", "words"}
    /\ asked' = (transcript' # "empty")
    /\ UNCHANGED <<streamed, audio, finals, replied, outcome>>

\* A tool status from the brain.
ForwardStatus ==
    /\ Goto("thinking", "thinking")
    /\ ~status
    /\ SetStatus(Turn)
    /\ UNCHANGED <<streamed, audio, finals, transcript, asked, replied, shown, outcome>>

\* onAudio: a streamed sentence is captioned, then synthesized; a sentence
\* whose synthesis fails is dropped.
StreamSentence ==
    /\ Goto("thinking", "thinking")
    /\ streamed < MaxChunks
    /\ streamed' = streamed + 1
    /\ Transition("speaking")
    /\ audio' \in {audio, "sentences"}
    /\ UNCHANGED <<finals, transcript, asked, replied, outcome>>

\* The brain's complete reply; an empty one is not logged.
BrainReplied ==
    /\ Goto("thinking", "replying")
    /\ Transition("speaking")
    /\ replied' \in BOOLEAN
    /\ UNCHANGED <<streamed, audio, finals, transcript, asked, outcome>>

\* synthesizeAndEmitReply, when no audio was streamed: the first audio chunk.
SpeakReply ==
    /\ Goto("replying", "replying")
    /\ audio = "none"
    /\ Transition("speaking")
    /\ audio' = "reply"
    /\ UNCHANGED <<streamed, finals, transcript, asked, replied, outcome>>

\* streamer.finish: the rest of the audio, then the final chunk if any audio
\* was sent.
FinishAudio == finals' = IF audio = "none" THEN finals ELSE finals + 1

\* The reply is out; a synthesis that failed before any audio only changes
\* the metrics.
ReplySpoken ==
    /\ Goto("replying", "finishing")
    /\ FinishAudio
    /\ UNCHANGED <<coordVars, streamed, audio, transcript, asked, replied, shown, outcome>>

\* The synthesis of a complete reply broke off after some audio.
ReplyBrokeOff ==
    /\ Goto("replying", "failing")
    /\ audio = "reply"
    /\ FinishAudio
    /\ Transition("error")
    /\ UNCHANGED <<streamed, audio, transcript, asked, replied, outcome>>

\* A stage reports its failure on the HUD itself: speech-to-text, the brain
\* (error, inactivity timeout, rejected stream) or audio of a mixed format.
StageFails ==
    /\ \E s \in {"transcribing", "thinking", "replying"} : Goto(s, "failing")
    /\ stage = "replying" => audio # "sentences"
    /\ Transition("error")
    /\ UNCHANGED <<streamed, audio, finals, transcript, asked, replied, outcome>>

\* A turn that fails silently: the node is gone (the sink fails), a client is
\* not configured, or a panic.
TurnFails ==
    /\ \E s \in {"transcribing", "thinking", "replying", "finishing"} : Goto(s, "failing")
    /\ UNCHANGED <<coordVars, streamed, audio, finals, transcript, asked, replied, shown, outcome>>

\* "done" is sent and Interact returns nil; the HUD keeps what it shows.
CompleteTurn ==
    /\ Goto("finishing", "none")
    /\ outcome' = "success"
    /\ UNCHANGED <<coordVars, streamed, audio, finals, transcript, asked, replied, shown>>

\* Fault: the HUD is not told of the failure.
HandleTurnError_Silent ==
    /\ Goto("failing", "released")
    /\ UNCHANGED <<coordVars, streamed, audio, finals, transcript, asked, replied, shown, outcome>>

\* handleTurnPanicOrError, the deferred function that runs first.
HandleTurnError ==
    /\ Goto("failing", "released")
    /\ Transition("error")
    /\ UNCHANGED <<streamed, audio, finals, transcript, asked, replied, outcome>>

\* Fault: inFlight stays set.
ReleaseTurn_Forgotten == Goto("released", "released") /\ outcome' = "error"
    /\ UNCHANGED <<coordVars, streamed, audio, finals, transcript, asked, replied, shown>>

\* The deferred function that runs last: inFlight = false.
ReleaseTurn ==
    /\ Goto("released", "none")
    /\ outcome' = "error"
    /\ UNCHANGED <<coordVars, streamed, audio, finals, transcript, asked, replied, shown>>

-----------------------------------------------------------------------------
TurnStep ==
    \/ RejectAudio \/ NotifyTranscribing \/ NotifyThinking
    \/ StreamSentence \/ BrainReplied
    \/ SpeakReply \/ ReplySpoken \/ ReplyBrokeOff
    \/ StageFails \/ TurnFails
    \/ CompleteTurn \/ HandleTurnError \/ ReleaseTurn

Next ==
    \/ CoordNext /\ UNCHANGED turnVars
    \/ StartTurn
    \/ ForwardStatus
    \/ TurnStep
    \/ Stall \/ Resume

Spec == Init /\ [][Next]_vars

\* The turn goes on unless it is stalled: its other external calls answer or run into
\* their timeouts, and a brain does not send statuses for ever (each of them restarts
\* its inactivity timeout, so the code alone does not exclude it).  Nothing is assumed
\* of Stall and Resume.  Watchdogs run out and get the mutex, publications complete.
Fairness ==
    /\ SF_vars(TurnStep)
    /\ \A t \in Timers : WF_vars(WatchdogStep(t) /\ UNCHANGED turnVars)
    /\ \A by \in Goroutines : WF_vars(Publication(by) /\ UNCHANGED turnVars)

FairSpec == Spec /\ Fairness

-----------------------------------------------------------------------------
(* Properties.                                                             *)

\* The types of the HUD coordinator and of the turn.
TypeOK ==
    /\ CoordTypeOK
    /\ stage \in Stages
    /\ streamed \in 0..MaxChunks
    /\ audio \in {"none", "sentences", "reply"}
    /\ finals \in Nat
    /\ transcript \in {"none", "empty", "words"}
    /\ asked \in BOOLEAN
    /\ replied \in BOOLEAN
    /\ shown \in HudStates \cup {"none"}
    /\ outcome \in {"none", "rejected", "success", "error"}
    /\ stalled \in BOOLEAN

\* However a turn ended, those who took part agree on it.  The HUD's last word
\* is "error" for a failed turn on every failure path, "speaking" for a
\* successful one and nothing for a recording that was refused.  The node is told
\* at most once that the audio is complete, never in a turn without audio and
\* always in a successful one with audio.  The conversation holds the question of
\* every successful turn and of every answer unless nothing was understood, and no
\* trace of a turn that was refused.
OutcomeShown ==
    /\ stage = "none" =>
         /\ outcome = "error" => shown = "error"
         /\ outcome = "success" => shown = "speaking"
         /\ outcome = "rejected" => shown = "none"
         /\ outcome = "success" /\ audio # "none" => finals = 1
         /\ outcome = "success" => asked \/ transcript = "empty"
    /\ finals <= 1
    /\ finals = 1 => audio # "none"
    /\ replied => asked \/ transcript = "empty"
    /\ outcome = "rejected" => ~asked

\* Every turn ends and the hub takes the next one: no failure leaves it busy, unless the
\* speech-to-text server or the node keeps it waiting for good.
TurnEnds == []<>(~stalled) => ((stage # "none") ~> (stage = "none"))

\* The HUD never says "speaking" for good: every watchdog is superseded by a
\* new state or resets the HUD.
SpeakingEnds ==
    \A n \in Timers : (speakingTimer = n) ~> (speakingTimer # n)
=============================================================================
