---------------------------- MODULE ResponseLanes ---------------------------
(***************************************************************************)
(* The inside of one turn (run_turn_inner of crates/runtime-core): the LLM *)
(* lane, the speech lane and the effects lane run concurrently, the first  *)
(* two connected by the bounded sentence channel; then the lanes are       *)
(* joined and what was delivered is committed.  A cancellation may arrive  *)
(* between any two steps.                                                  *)
(*                                                                         *)
(* Providers are numbered in the order of the privacy-filtered candidates  *)
(* of module Routing; 1 is the primary.  Whether a circuit grants a permit *)
(* is left open (module CircuitBreaker).  Provider errors, playback errors *)
(* and store errors may happen at every call.                              *)
(***************************************************************************)
EXTENDS Naturals, Sequences

CONSTANTS
    Models,         \* number of candidate language models
    Voices,         \* number of candidate speech providers
    MaxSentences,   \* bound on the sentences of a reply
    Capacity,       \* sentence_channel_capacity
    SubtitlesRequested  \* RuntimeMemory.subtitles_requested

ASSUME SizesAssumption == Models \in Nat /\ Voices \in Nat /\ MaxSentences \in Nat
\* TurnSupervisor::build asserts it.
ASSUME CapacityAssumption == Capacity \in Nat \ {0}
ASSUME SubtitlesAssumption == SubtitlesRequested \in BOOLEAN

Sentence == 1 .. MaxSentences

VARIABLES
    cancelled,  \* GenerationToken::is_cancelled of this turn
    llm,        \* state of the LLM lane
    model,      \* the candidate the LLM lane is trying
    output,     \* provider_output of that candidate is not empty
    ready,      \* sentences that the LLM lane has released so far
    author,     \* the model that produced each released sentence
    channel,    \* sentences sent and not yet received
    closed,     \* sentence_tx has been dropped
    speech,     \* state of the speech lane
    hand,       \* the sentence the speech lane is working on, 0 for none
    voice,      \* the candidate the speech lane is trying
    plays,      \* how often each sentence was handed to the audio sink
    delivery,   \* DeliveryMode of the sentence in hand and of those delivered
    delivered,  \* sentences delivered, in order
    faulted,    \* voices whose circuit was told of a failure
    effects,    \* state of the effects lane
    turn,       \* "lanes", "committing", "storing", then the result of run_turn_inner
    presented,  \* sentences the subtitle presenter has shown
    stored      \* commit_batch has stored the delivered sentences

llmVars == <<llm, model, output, ready, author>>
chanVars == <<channel, closed>>
speechVars == <<speech, hand, voice, plays, delivery, delivered, faulted>>
turnVars == <<turn, presented, stored>>
vars == <<cancelled, llmVars, chanVars, speechVars, effects, turnVars>>

LlmEnded == {"ok", "broken", "exhausted", "cancelled"}
LaneEnded == {"ok", "cancelled"}

TypeOK ==
    /\ cancelled \in BOOLEAN
    /\ llm \in {"select", "stream", "send"} \cup LlmEnded
    /\ model \in 1 .. Models + 1
    /\ output \in BOOLEAN
    /\ ready \in 0 .. MaxSentences
    /\ author \in [Sentence -> 0 .. Models]
    /\ channel \in Seq(Sentence) /\ Len(channel) <= Capacity
    /\ closed \in BOOLEAN
    /\ speech \in {"recv", "select", "play", "deliver"} \cup LaneEnded
    /\ hand \in 0 .. MaxSentences
    /\ voice \in 1 .. Voices + 1
    /\ plays \in [Sentence -> 0 .. Voices]
    /\ delivery \in [Sentence -> {"none", "Audio", "Subtitle"}]
    /\ delivered \in Seq(Sentence)
    /\ faulted \subseteq 1 .. Voices
    /\ effects \in {"running"} \cup LaneEnded
    /\ turn \in {"lanes", "committing", "storing", "Completed", "Cancelled", "Failed"}
    /\ presented \subseteq Sentence
    /\ stored \in BOOLEAN

Init ==
    /\ cancelled = FALSE
    /\ llm = "select" /\ model = 1 /\ output = FALSE /\ ready = 0
    /\ author = [s \in Sentence |-> 0]
    /\ channel = <<>> /\ closed = FALSE
    /\ speech = "recv" /\ hand = 0 /\ voice = 1
    /\ plays = [s \in Sentence |-> 0]
    /\ delivery = [s \in Sentence |-> "none"]
    /\ delivered = <<>> /\ faulted = {}
    /\ effects = "running"
    /\ turn = "lanes" /\ presented = {} /\ stored = FALSE

\* Barge-in, TurnHandle::cancel, or a newer generation.
Cancel ==
    /\ ~cancelled /\ turn \in {"lanes", "committing", "storing"}
    /\ cancelled' = TRUE
    /\ UNCHANGED <<llmVars, chanVars, speechVars, effects, turnVars>>

-----------------------------------------------------------------------------
(* The LLM lane.  Leaving the lane drops sentence_tx. *)

EndLlm(result) == llm' = result /\ closed' = TRUE

\* The candidate's circuit is open, or opening the stream failed; the timing
\* event of the failure ends the lane when the turn is cancelled.
LlmSkip ==
    /\ llm = "select" /\ model <= Models
    /\ model' = model + 1
    /\ UNCHANGED <<cancelled, llm, output, ready, author, chanVars, speechVars, effects, turnVars>>

LlmOpen ==
    /\ llm = "select" /\ model <= Models /\ ~cancelled
    /\ llm' = "stream" /\ output' = FALSE
    /\ UNCHANGED <<cancelled, model, ready, author, chanVars, speechVars, effects, turnVars>>

\* No candidate is left, or there was none.
LlmExhausted ==
    /\ llm = "select" /\ model > Models
    /\ EndLlm("exhausted")
    /\ UNCHANGED <<cancelled, model, output, ready, author, channel, speechVars, effects, turnVars>>

\* The lane looks at the generation before each candidate and races it against
\* every chunk of the stream; each event it emits looks again.
LlmCancelled ==
    /\ llm \in {"select", "stream"} /\ cancelled
    /\ EndLlm("cancelled")
    /\ UNCHANGED <<cancelled, model, output, ready, author, channel, speechVars, effects, turnVars>>

\* A non-empty delta that completes no sentence.
LlmDelta ==
    /\ llm = "stream" /\ ~cancelled
    /\ output' = TRUE
    /\ UNCHANGED <<cancelled, llm, model, ready, author, chanVars, speechVars, effects, turnVars>>

\* A delta, or the end of the stream, releases the next sentence.
LlmSentence ==
    /\ llm = "stream" /\ ~cancelled /\ ready < MaxSentences
    /\ llm' = "send" /\ output' = TRUE
    /\ ready' = ready + 1
    /\ author' = [author EXCEPT ![ready + 1] = model]
    /\ UNCHANGED <<cancelled, model, chanVars, speechVars, effects, turnVars>>

\* Bug: the sender does not notice that the receiver is gone.
LlmSendBlind ==
    /\ llm = "send" /\ Len(channel) < Capacity
    /\ channel' = Append(channel, ready)
    /\ llm' = "stream"
    /\ UNCHANGED <<cancelled, model, output, ready, author, closed, speechVars, effects, turnVars>>

\* sentence_tx.send waits for room; it is not raced against the cancellation,
\* but a speech lane that has ended has dropped its receiver and fails the send.
LlmSend ==
    /\ llm = "send"
    /\ \/ /\ speech \notin LaneEnded /\ Len(channel) < Capacity
          /\ channel' = Append(channel, ready)
          /\ llm' = "stream" /\ UNCHANGED closed
       \/ /\ speech \in LaneEnded
          /\ EndLlm("cancelled") /\ UNCHANGED channel
    /\ UNCHANGED <<cancelled, model, output, ready, author, speechVars, effects, turnVars>>

\* Bug: the next candidate is tried after output, too.
LlmErrorRetries ==
    /\ llm = "stream"
    /\ llm' = "select" /\ model' = model + 1
    /\ UNCHANGED <<cancelled, output, ready, author, chanVars, speechVars, effects, turnVars>>

\* The stream fails: before any output the next candidate is tried, after output
\* the lane ends with what there is.
LlmError ==
    /\ llm = "stream"
    /\ \/ ~output /\ llm' = "select" /\ model' = model + 1 /\ UNCHANGED closed
       \/ output /\ EndLlm("broken") /\ UNCHANGED model
    /\ UNCHANGED <<cancelled, output, ready, author, channel, speechVars, effects, turnVars>>

\* The adapter refuses a delta or the end of the answer: the lane ends with what
\* there is, be it nothing.
LlmInvalid ==
    /\ llm = "stream" /\ (~output => ~cancelled)
    /\ EndLlm("broken")
    /\ UNCHANGED <<cancelled, model, output, ready, author, channel, speechVars, effects, turnVars>>

\* The stream ends.  An empty answer is a failure; that and a fallback are
\* announced by events that a cancelled turn refuses.
LlmFinish ==
    /\ llm = "stream"
    /\ \/ ~output /\ ~cancelled /\ llm' = "select" /\ model' = model + 1 /\ UNCHANGED closed
       \/ output /\ (model # 1 => ~cancelled) /\ EndLlm("ok") /\ UNCHANGED model
    /\ UNCHANGED <<cancelled, output, ready, author, channel, speechVars, effects, turnVars>>

LlmStep == LlmSkip \/ LlmOpen \/ LlmExhausted \/ LlmCancelled \/ LlmDelta
           \/ LlmSentence \/ LlmSend \/ LlmError \/ LlmInvalid \/ LlmFinish

-----------------------------------------------------------------------------
(* The speech lane. *)

SpeechRest == UNCHANGED <<cancelled, llmVars, closed, effects, turnVars>>

\* The lane takes the next sentence; it announces Voicing with the first one.
SpeechRecv ==
    /\ speech = "recv" /\ channel # <<>> /\ (delivered = <<>> => ~cancelled)
    /\ speech' = "select" /\ voice' = 1
    /\ hand' = Head(channel) /\ channel' = Tail(channel)
    /\ UNCHANGED <<plays, delivery, delivered, faulted>> /\ SpeechRest

\* Bug: the lane ends when the channel is closed, before it is empty.
SpeechEndUndrained ==
    /\ speech = "recv" /\ closed
    /\ speech' = "ok"
    /\ UNCHANGED <<channel, hand, voice, plays, delivery, delivered, faulted>> /\ SpeechRest

\* The channel is closed and empty: the sessions are closed and the lane ends.
SpeechEnd ==
    /\ speech = "recv" /\ channel = <<>> /\ closed
    /\ speech' = "ok"
    /\ UNCHANGED <<channel, hand, voice, plays, delivery, delivered, faulted>> /\ SpeechRest

\* The lane sees the cancellation where it waits for a sentence and at each of
\* the events it emits; a permit in hand is dropped.
SpeechCancelled ==
    /\ speech \in {"recv", "select", "deliver"} /\ cancelled
    /\ speech' = "cancelled"
    /\ UNCHANGED <<channel, hand, voice, plays, delivery, delivered, faulted>> /\ SpeechRest

\* The circuit of the voice is open.
VoiceRefused ==
    /\ speech = "select" /\ voice <= Voices
    /\ voice' = voice + 1
    /\ UNCHANGED <<channel, hand, speech, plays, delivery, delivered, faulted>> /\ SpeechRest

\* start_session or synthesize fails, also because the turn was cancelled.
VoiceFails ==
    /\ speech = "select" /\ voice <= Voices
    /\ faulted' = faulted \cup {voice}
    /\ voice' = voice + 1
    /\ UNCHANGED <<channel, hand, speech, plays, delivery, delivered>> /\ SpeechRest

\* SpeechStarted and Animating are emitted, then the sink plays.
PlayStart ==
    /\ speech = "select" /\ voice <= Voices /\ ~cancelled
    /\ speech' = "play"
    /\ plays' = [plays EXCEPT ![hand] = @ + 1]
    /\ UNCHANGED <<channel, hand, voice, delivery, delivered, faulted>> /\ SpeechRest

\* The sentence was heard completely.  A voice other than the primary is
\* announced by an event.
PlayCompletes ==
    /\ speech = "play"
    /\ IF voice # 1 /\ cancelled
       THEN speech' = "cancelled" /\ UNCHANGED delivery
       ELSE speech' = "deliver" /\ delivery' = [delivery EXCEPT ![hand] = "Audio"]
    /\ UNCHANGED <<channel, hand, voice, plays, delivered, faulted>> /\ SpeechRest

\* The sink stopped early and reports what was heard; the lane takes that for a
\* cancellation.
PlayInterrupted ==
    /\ speech = "play"
    /\ speech' = "cancelled"
    /\ faulted' = faulted \cup {voice}
    /\ UNCHANGED <<channel, hand, voice, plays, delivery, delivered>> /\ SpeechRest

\* Bug: a failed playback is retried with the next voice.
PlayRetries ==
    /\ speech = "play"
    /\ speech' = "select" /\ voice' = voice + 1
    /\ faulted' = faulted \cup {voice}
    /\ UNCHANGED <<channel, hand, plays, delivery, delivered>> /\ SpeechRest

\* The sink failed: no second voice, subtitles instead.
PlayFails ==
    /\ speech = "play"
    /\ speech' = "deliver" /\ delivery' = [delivery EXCEPT ![hand] = "Subtitle"]
    /\ faulted' = faulted \cup {voice}
    /\ UNCHANGED <<channel, hand, voice, plays, delivered>> /\ SpeechRest

\* No voice is left.
FallToSubtitles ==
    /\ speech = "select" /\ voice > Voices
    /\ speech' = "deliver" /\ delivery' = [delivery EXCEPT ![hand] = "Subtitle"]
    /\ UNCHANGED <<channel, hand, voice, plays, delivered, faulted>> /\ SpeechRest

\* SpeechDelivered is emitted and the sentence recorded.
SpeechDeliver ==
    /\ speech = "deliver" /\ ~cancelled
    /\ speech' = "recv"
    /\ delivered' = Append(delivered, hand)
    /\ UNCHANGED <<channel, hand, voice, plays, delivery, faulted>> /\ SpeechRest

SpeechStep == SpeechRecv \/ SpeechEnd \/ SpeechCancelled \/ VoiceRefused \/ VoiceFails
              \/ PlayStart \/ PlayCompletes \/ PlayInterrupted \/ PlayFails
              \/ FallToSubtitles \/ SpeechDeliver

-----------------------------------------------------------------------------
(* The effects lane: its candidates are tried in turn, each call raced against
   the cancellation; failures neutralise the effects. *)

EffectsDone ==
    /\ effects = "running" /\ ~cancelled
    /\ effects' = "ok"
    /\ UNCHANGED <<cancelled, llmVars, chanVars, speechVars, turnVars>>

\* The lane sees the cancellation, or its provider reports one.
EffectsCancelled ==
    /\ effects = "running"
    /\ effects' = "cancelled"
    /\ UNCHANGED <<cancelled, llmVars, chanVars, speechVars, turnVars>>

-----------------------------------------------------------------------------
(* Joining the lanes and committing. *)

\* Bug: the speech lane is not awaited once the LLM lane has failed.
LanesEndedWithoutSpeech == llm \in LlmEnded /\ effects \in LaneEnded /\ (speech \in LaneEnded \/ llm # "ok")

LanesEnded == llm \in LlmEnded /\ speech \in LaneEnded /\ effects \in LaneEnded

TurnRest == UNCHANGED <<cancelled, llmVars, chanVars, speechVars, effects>>

\* run_turn_inner awaits all three lanes, then looks at the effects, the speech
\* and the LLM result in this order; the events in between and Committing itself
\* are refused when the turn is cancelled.
Join ==
    /\ turn = "lanes" /\ LanesEnded
    /\ turn' = IF cancelled \/ "cancelled" \in {effects, speech, llm} THEN "Cancelled"
               ELSE IF llm = "exhausted" THEN "Failed" ELSE "committing"
    /\ UNCHANGED <<presented, stored>> /\ TurnRest

NeedsSubtitle(s) == SubtitlesRequested \/ delivery[s] = "Subtitle"

\* The delivered sentences that still wait for the subtitle presenter.
Unshown == {k \in 1 .. Len(delivered) :
              NeedsSubtitle(delivered[k]) /\ delivered[k] \notin presented}

\* RuntimeMemory::commit_delivered shows the subtitles one by one.
Present ==
    /\ turn = "committing" /\ ~cancelled
    /\ \E k \in Unshown : /\ \A j \in Unshown : k <= j
                          /\ presented' = presented \cup {delivered[k]}
    /\ UNCHANGED <<turn, stored>> /\ TurnRest

\* All subtitles have their receipt and the turn is still wanted.
CommitGo ==
    /\ turn = "committing" /\ Unshown = {} /\ ~cancelled
    /\ turn' = "storing"
    /\ UNCHANGED <<presented, stored>> /\ TurnRest

\* run_turn_inner and run_turn after commit_delivered returned.
Outcome == IF cancelled THEN "Cancelled" ELSE IF llm = "broken" THEN "Failed" ELSE "Completed"

\* A cancellation is seen, or a subtitle cannot be presented or a receipt is
\* missing and the commit is deferred.
CommitStops ==
    /\ turn = "committing" /\ (delivered = <<>> => cancelled)
    /\ turn' = Outcome
    /\ UNCHANGED <<presented, stored>> /\ TurnRest

\* The batch is stored (an empty one is not written), or the store is unavailable.
CommitStore ==
    /\ turn = "storing"
    /\ \E ok \in BOOLEAN : stored' = (ok /\ delivered # <<>>)
    /\ turn' = Outcome
    /\ UNCHANGED presented /\ TurnRest

TurnStep == Join \/ Present \/ CommitGo \/ CommitStops \/ CommitStore

\* The turn is over.
Done == turn \in {"Completed", "Cancelled", "Failed"} /\ UNCHANGED vars

Next == Cancel \/ LlmStep \/ SpeechStep \/ EffectsDone \/ EffectsCancelled \/ TurnStep \/ Done

Spec == Init /\ [][Next]_vars

\* What the runtime alone guarantees: tokio polls the lanes, the adapters honour
\* the cancellation token, the presenter and the store return.  A provider that
\* was not cancelled may hang.
Fairness ==
    /\ WF_vars(LlmCancelled) /\ WF_vars(LlmSend) /\ WF_vars(LlmExhausted)
    /\ WF_vars(SpeechRecv \/ SpeechEnd \/ SpeechCancelled \/ FallToSubtitles \/ SpeechDeliver)
    /\ WF_vars(PlayInterrupted /\ cancelled)
    /\ WF_vars(EffectsCancelled /\ cancelled)
    /\ WF_vars(TurnStep)

FairSpec == Spec /\ Fairness

\* The language models, the voices and the sink answer as well; the provider of
\* the optional effects may still hang.
Responsive == WF_vars(LlmStep) /\ WF_vars(SpeechStep)

-----------------------------------------------------------------------------
(* Properties *)

Ended == turn \in {"Completed", "Cancelled", "Failed"}

\* The reply of a turn is never stitched together from two models: fallback stops
\* as soon as a candidate has produced output.
OneAuthor == \A s, r \in 1 .. ready : author[s] = author[r]

\* No sentence is handed to the sink twice, so none is spoken by two voices.
NoDuplicateVoice == \A s \in Sentence : plays[s] <= 1

\* When a complete reply is committed or reported, every sentence that the model
\* released has been delivered, in order, by voice or by subtitle: closing the
\* channel loses none, and neither does a failing voice.
CompleteReplyDelivered ==
    turn \in {"committing", "storing", "Completed"} => delivered = [k \in 1 .. ready |-> k]

\* The lanes implement the abstract turn.
Abstract == INSTANCE DialogueTurn WITH
    heard <- delivered,
    memory <- IF stored THEN delivered ELSE <<>>,
    status <- IF Ended THEN turn ELSE "open"
ImplementsDialogueTurn == Abstract!Spec

\* A cancelled turn ends although its providers may hang and the channel between
\* the lanes may be full.
CancellationEndsTurn == cancelled ~> Ended

\* As long as models and voices answer, every released sentence is delivered,
\* whatever the effects lane is doing.
SentencesReachThePlayer ==
    Responsive =>
        \A s \in Sentence :
            ready >= s ~> (Len(delivered) >= s \/ cancelled \/ speech = "cancelled")

-----------------------------------------------------------------------------
(* What documents and comments say and the code does not do; TLC finds a
   counterexample to each (README, "Refuted statements"). *)

\* The system invariant of the architecture overview: "Optional vision, lip-sync,
\* and effects cannot stop audio/subtitles."  A sentence that fell back to
\* subtitles is shown, unless the turn ends first.  The code awaits the effects
\* before it shows subtitles.
EffectsCannotStopSubtitles ==
    Responsive =>
        \A s \in Sentence :
            Len(delivered) >= s /\ delivery[s] = "Subtitle" ~> (s \in presented \/ Ended)

\* The data-flow document: played sample ranges "determine durable heard history;
\* generation completion does not".  A turn that delivered something does not end
\* before commit_delivered was asked to store it.  The code returns before it when
\* the turn was cancelled.
HeardDialogueIsKept ==
    [][turn = "lanes" /\ turn' # "lanes" /\ delivered # <<>> => turn' = "committing"]_vars

\* The assertion of newer_turn_barges_in_and_old_generation_cannot_commit:
\* "cancelled turns must not be committed".  The cancellation may come after the
\* last look at the token.
CancelledTurnsNotCommitted == turn = "Cancelled" => ~stored

\* The comment at CircuitPermit::drop: a dropped provider call "is an interrupted
\* request, not evidence that the provider is unhealthy".  A cancelled turn
\* records no failure of a voice.  The code calls permit.failure().
InterruptionIsNotFailure == [][faulted' # faulted => ~cancelled]_vars
=============================================================================
