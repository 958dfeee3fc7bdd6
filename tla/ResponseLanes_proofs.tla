------------------------ MODULE ResponseLanes_proofs ------------------------
(***************************************************************************)
(* The lanes of a turn for any numbers of models, voices and sentences and *)
(* any capacity of the channel: one author, no sentence spoken twice,      *)
(* complete replies delivered in order, and the refinement of the abstract *)
(* turn.                                                                   *)
(*                                                                         *)
(* The invariant describes the pipeline from the LLM lane to the player:   *)
(* what was delivered, the sentence in hand, those in the channel and the  *)
(* one being sent are, in this order, the sentences 1 .. ready.            *)
(***************************************************************************)
EXTENDS ResponseLanes, TLAPS

InHand == {"select", "play", "deliver"}

\* Sentences the speech lane has taken from the channel.
Taken == Len(delivered) + IF speech \in InHand THEN 1 ELSE 0

\* The LLM lane: a fallback finds nothing released yet.
Writer ==
    /\ closed <=> llm \in LlmEnded
    /\ llm \in {"stream", "send"} => model <= Models
    /\ llm = "select" \/ (llm = "stream" /\ ~output) => ready = 0
    /\ llm = "send" => output /\ ready > 0
    /\ llm \in {"stream", "send"} => \A s \in 1 .. ready: author[s] = model

\* The pipeline, as long as the speech lane serves it.
Pipeline ==
    /\ \A k \in 1 .. Len(delivered): delivered[k] = k
    /\ speech \in InHand => hand = Len(delivered) + 1
    /\ Taken + Len(channel) <= ready
    /\ speech # "cancelled" => \A k \in 1 .. Len(channel): channel[k] = Taken + k
    /\ speech = "ok" => closed /\ channel = <<>>
    /\ speech # "cancelled" /\ llm # "cancelled" =>
        ready = Taken + Len(channel) + IF llm = "send" THEN 1 ELSE 0

\* Only the sentence in hand can have been played and not delivered.
Played ==
    /\ speech = "play" => voice <= Voices
    /\ NoDuplicateVoice
    /\ speech # "cancelled" =>
        \A s \in Sentence: s > Len(delivered) /\ plays[s] # 0
            => speech \in {"play", "deliver"} /\ s = hand

\* The lanes are over before anything is committed.
Committed ==
    /\ turn # "lanes" => LanesEnded
    /\ ~Ended => ~stored

IInv == TypeOK /\ OneAuthor /\ Writer /\ Pipeline /\ Played /\ Committed /\ CompleteReplyDelivered

----------------------------------------------------------------------------
\* Flags stay Boolean.
LEMMA FlagTypes ==
    ASSUME TypeOK, [Next]_vars
    PROVE  cancelled' \in BOOLEAN /\ output' \in BOOLEAN /\ closed' \in BOOLEAN /\ stored' \in BOOLEAN
<1>0. ASSUME UNCHANGED <<cancelled, output, closed, stored>> PROVE cancelled' \in BOOLEAN /\ output' \in BOOLEAN /\ closed' \in BOOLEAN /\ stored' \in BOOLEAN
  BY <1>0 DEF TypeOK
<1>1. CASE UNCHANGED vars \/ Done
  BY <1>0, <1>1 DEF Done, vars, llmVars, chanVars, speechVars, turnVars
<1>2. CASE LlmSkip
  BY <1>0, <1>2
  DEF LlmSkip, chanVars, speechVars, turnVars
<1>3. CASE \/ SpeechRecv \/ SpeechEnd \/ SpeechCancelled \/ VoiceRefused \/ VoiceFails
          \/ PlayStart \/ PlayCompletes \/ PlayInterrupted \/ PlayFails
          \/ FallToSubtitles \/ SpeechDeliver
  BY <1>0, <1>3
  DEF SpeechRecv, SpeechEnd, SpeechCancelled, VoiceRefused, VoiceFails, PlayStart,
      PlayCompletes, PlayInterrupted, PlayFails, FallToSubtitles, SpeechDeliver,
      SpeechRest, llmVars, turnVars
<1>4. CASE Join \/ Present \/ CommitGo \/ CommitStops
  BY <1>0, <1>4
  DEF Join, Present, CommitGo, CommitStops, TurnRest, llmVars, chanVars, speechVars
<1>5. CASE EffectsDone \/ EffectsCancelled
  BY <1>0, <1>5
  DEF EffectsDone, EffectsCancelled, llmVars, chanVars, speechVars, turnVars
<1> USE DEF TypeOK
<1>6. CASE LlmOpen
  BY <1>6 DEF LlmOpen, chanVars, speechVars, turnVars
<1>7. CASE LlmExhausted
  BY <1>7 DEF LlmExhausted, EndLlm, chanVars, speechVars, turnVars
<1>8. CASE LlmCancelled
  BY <1>8 DEF LlmCancelled, EndLlm, chanVars, speechVars, turnVars
<1>9. CASE LlmDelta
  BY <1>9 DEF LlmDelta, chanVars, speechVars, turnVars
<1>10. CASE LlmSentence
  BY <1>10 DEF LlmSentence, chanVars, speechVars, turnVars
<1>11. CASE LlmSend
  <2>1. closed' \in {closed, TRUE} /\ UNCHANGED <<cancelled, output, stored>>
    BY <1>11 DEF LlmSend, EndLlm, speechVars, turnVars
  <2> QED
    BY <2>1
<1>12. CASE LlmError
  <2>1. closed' \in {closed, TRUE} /\ UNCHANGED <<cancelled, output, stored>>
    BY <1>12 DEF LlmError, EndLlm, speechVars, turnVars
  <2> QED
    BY <2>1
<1>13. CASE LlmInvalid
  BY <1>13 DEF LlmInvalid, EndLlm, chanVars, speechVars, turnVars
<1>14. CASE LlmFinish
  <2>1. closed' \in {closed, TRUE} /\ UNCHANGED <<cancelled, output, stored>>
    BY <1>14 DEF LlmFinish, EndLlm, speechVars, turnVars
  <2> QED
    BY <2>1
<1>15. CASE CommitStore
  BY <1>15 DEF CommitStore, TurnRest, llmVars, chanVars, speechVars
<1>16. CASE Cancel
  BY <1>16 DEF Cancel, llmVars, chanVars, speechVars, turnVars
<1> QED
  BY <1>1, <1>2, <1>3, <1>4, <1>5, <1>6, <1>7, <1>8, <1>9, <1>10, <1>11, <1>12, <1>13,
     <1>14, <1>15, <1>16
  DEF Next, LlmStep, SpeechStep, TurnStep

\* The LLM lane keeps its types.
LEMMA WriterTypes ==
    ASSUME TypeOK, Writer, [Next]_vars
    PROVE  /\ llm' \in {"select", "stream", "send"} \cup LlmEnded
           /\ model' \in 1 .. Models + 1 /\ ready' \in 0 .. MaxSentences
           /\ author' \in [Sentence -> 0 .. Models]
<1> DEFINE Goal == /\ llm' \in {"select", "stream", "send"} \cup LlmEnded
                   /\ model' \in 1 .. Models + 1 /\ ready' \in 0 .. MaxSentences
                   /\ author' \in [Sentence -> 0 .. Models]
<1>0. ASSUME UNCHANGED <<llm, model, ready, author>> PROVE Goal
  BY <1>0 DEF TypeOK
<1>1. CASE UNCHANGED vars \/ Done
  BY <1>0, <1>1 DEF Done, vars, llmVars, chanVars, speechVars, turnVars
<1>2. CASE \/ SpeechRecv \/ SpeechEnd \/ SpeechCancelled \/ VoiceRefused \/ VoiceFails
          \/ PlayStart \/ PlayCompletes \/ PlayInterrupted \/ PlayFails
          \/ FallToSubtitles \/ SpeechDeliver
  BY <1>0, <1>2
  DEF SpeechRecv, SpeechEnd, SpeechCancelled, VoiceRefused, VoiceFails, PlayStart,
      PlayCompletes, PlayInterrupted, PlayFails, FallToSubtitles, SpeechDeliver,
      SpeechRest, llmVars, turnVars
<1>3. CASE Join \/ Present \/ CommitGo \/ CommitStops \/ CommitStore
  BY <1>0, <1>3
  DEF Join, Present, CommitGo, CommitStops, CommitStore, TurnRest, llmVars, chanVars,
      speechVars
<1>4. CASE Cancel \/ EffectsDone \/ EffectsCancelled
  BY <1>0, <1>4
  DEF Cancel, EffectsDone, EffectsCancelled, llmVars, chanVars, speechVars, turnVars
<1> USE SizesAssumption DEF TypeOK, Writer, LlmEnded, Sentence
<1>5. CASE LlmSkip
  BY <1>5 DEF LlmSkip, chanVars, speechVars, turnVars
<1>6. CASE LlmOpen
  BY <1>6 DEF LlmOpen, chanVars, speechVars, turnVars
<1>7. CASE LlmExhausted
  BY <1>7 DEF LlmExhausted, EndLlm, chanVars, speechVars, turnVars
<1>8. CASE LlmCancelled
  BY <1>8 DEF LlmCancelled, EndLlm, chanVars, speechVars, turnVars
<1>9. CASE LlmDelta
  BY <1>9 DEF LlmDelta, chanVars, speechVars, turnVars
<1>10. CASE LlmSentence
  BY <1>10 DEF LlmSentence, chanVars, speechVars, turnVars
<1>11. CASE LlmSend
  BY <1>11 DEF LlmSend, EndLlm, chanVars, speechVars, turnVars
<1>12. CASE LlmError
  BY <1>12 DEF LlmError, EndLlm, chanVars, speechVars, turnVars
<1>13. CASE LlmInvalid
  BY <1>13 DEF LlmInvalid, EndLlm, chanVars, speechVars, turnVars
<1>14. CASE LlmFinish
  BY <1>14 DEF LlmFinish, EndLlm, chanVars, speechVars, turnVars
<1> QED
  BY <1>1, <1>2, <1>3, <1>4, <1>5, <1>6, <1>7, <1>8, <1>9, <1>10, <1>11, <1>12, <1>13,
     <1>14
  DEF Next, LlmStep, SpeechStep, TurnStep

\* The LLM lane stays with the model whose output it has released.
LEMMA WriterInvariance ==
    ASSUME TypeOK, Writer, OneAuthor, [Next]_vars
    PROVE  Writer' /\ OneAuthor'
<1>0. ASSUME UNCHANGED <<llm, model, output, ready, author, closed>> PROVE Writer' /\ OneAuthor'
  BY <1>0 DEF Writer, OneAuthor
<1>1. CASE UNCHANGED vars \/ Done
  BY <1>0, <1>1 DEF Done, vars, llmVars, chanVars, speechVars, turnVars
<1>2. CASE \/ SpeechRecv \/ SpeechEnd \/ SpeechCancelled \/ VoiceRefused \/ VoiceFails
          \/ PlayStart \/ PlayCompletes \/ PlayInterrupted \/ PlayFails
          \/ FallToSubtitles \/ SpeechDeliver
  BY <1>0, <1>2
  DEF SpeechRecv, SpeechEnd, SpeechCancelled, VoiceRefused, VoiceFails, PlayStart,
      PlayCompletes, PlayInterrupted, PlayFails, FallToSubtitles, SpeechDeliver,
      SpeechRest, llmVars, turnVars
<1>3. CASE Join \/ Present \/ CommitGo \/ CommitStops \/ CommitStore
  BY <1>0, <1>3
  DEF Join, Present, CommitGo, CommitStops, CommitStore, TurnRest, llmVars, chanVars,
      speechVars
<1>4. CASE Cancel \/ EffectsDone \/ EffectsCancelled
  BY <1>0, <1>4
  DEF Cancel, EffectsDone, EffectsCancelled, llmVars, chanVars, speechVars, turnVars
<1> USE SizesAssumption DEF TypeOK, Writer, OneAuthor, LlmEnded, Sentence
<1>5. CASE LlmSkip
  BY <1>5 DEF LlmSkip, chanVars, speechVars, turnVars
<1>6. CASE LlmOpen
  BY <1>6 DEF LlmOpen, chanVars, speechVars, turnVars
<1>7. CASE LlmExhausted
  BY <1>7 DEF LlmExhausted, EndLlm, chanVars, speechVars, turnVars
<1>8. CASE LlmCancelled
  BY <1>8 DEF LlmCancelled, EndLlm, chanVars, speechVars, turnVars
<1>9. CASE LlmDelta
  BY <1>9 DEF LlmDelta, chanVars, speechVars, turnVars
<1>10. CASE LlmSentence
  BY <1>10 DEF LlmSentence, chanVars, speechVars, turnVars
<1>11. CASE LlmSend
  BY <1>11 DEF LlmSend, EndLlm, chanVars, speechVars, turnVars
<1>12. CASE LlmError
  BY <1>12 DEF LlmError, EndLlm, chanVars, speechVars, turnVars
<1>13. CASE LlmInvalid
  BY <1>13 DEF LlmInvalid, EndLlm, chanVars, speechVars, turnVars
<1>14. CASE LlmFinish
  BY <1>14 DEF LlmFinish, EndLlm, chanVars, speechVars, turnVars
<1> QED
  BY <1>1, <1>2, <1>3, <1>4, <1>5, <1>6, <1>7, <1>8, <1>9, <1>10, <1>11, <1>12, <1>13,
     <1>14
  DEF Next, LlmStep, SpeechStep, TurnStep

\* While a sentence is in hand it is one of the reply's.
LEMMA HandIsSentence ==
    ASSUME TypeOK, Pipeline, speech \in InHand
    PROVE  hand \in Sentence
BY SizesAssumption DEF TypeOK, Pipeline, Taken, Sentence

\* The lengths of the queues are numbers.
LEMMA Lengths ==
    ASSUME TypeOK
    PROVE  /\ Len(channel) \in Nat /\ Len(delivered) \in Nat /\ ready \in Nat
           /\ channel \in Seq(Sentence) /\ delivered \in Seq(Sentence)
BY SizesAssumption DEF TypeOK

\* The channel keeps its type and its bound.
LEMMA ChannelTypes ==
    ASSUME TypeOK, Writer, [Next]_vars
    PROVE  channel' \in Seq(Sentence) /\ Len(channel') <= Capacity
<1>0. ASSUME UNCHANGED <<channel>> PROVE channel' \in Seq(Sentence) /\ Len(channel') <= Capacity
  BY <1>0 DEF TypeOK
<1>1. CASE UNCHANGED vars \/ Done
  BY <1>0, <1>1 DEF Done, vars, llmVars, chanVars, speechVars, turnVars
<1>2. CASE \/ LlmSkip \/ LlmOpen \/ LlmExhausted \/ LlmCancelled \/ LlmDelta
          \/ LlmSentence \/ LlmError \/ LlmInvalid \/ LlmFinish
  BY <1>0, <1>2
  DEF LlmSkip, LlmOpen, LlmExhausted, LlmCancelled, LlmDelta, LlmSentence, LlmError,
      LlmInvalid, LlmFinish, EndLlm, chanVars, speechVars, turnVars
<1>3. CASE \/ SpeechEnd \/ SpeechCancelled \/ VoiceRefused \/ VoiceFails \/ PlayStart
          \/ PlayCompletes \/ PlayInterrupted \/ PlayFails \/ FallToSubtitles
          \/ SpeechDeliver
  BY <1>0, <1>3
  DEF SpeechEnd, SpeechCancelled, VoiceRefused, VoiceFails, PlayStart, PlayCompletes,
      PlayInterrupted, PlayFails, FallToSubtitles, SpeechDeliver, SpeechRest, llmVars,
      turnVars
<1>4. CASE Join \/ Present \/ CommitGo \/ CommitStops \/ CommitStore
  BY <1>0, <1>4
  DEF Join, Present, CommitGo, CommitStops, CommitStore, TurnRest, llmVars, chanVars,
      speechVars
<1>5. CASE Cancel \/ EffectsDone \/ EffectsCancelled
  BY <1>0, <1>5
  DEF Cancel, EffectsDone, EffectsCancelled, llmVars, chanVars, speechVars, turnVars
<1> USE CapacityAssumption DEF TypeOK
<1>6. CASE LlmSend
  <2>1. ready \in Sentence
    BY <1>6, SizesAssumption DEF LlmSend, Writer, Sentence
  <2>2. channel' = channel \/ (channel' = Append(channel, ready) /\ Len(channel) < Capacity)
    BY <1>6 DEF LlmSend
  <2> QED
    BY <2>1, <2>2
<1>7. CASE SpeechRecv
  BY <1>7 DEF SpeechRecv
<1> QED
  BY <1>1, <1>2, <1>3, <1>4, <1>5, <1>6, <1>7
  DEF Next, LlmStep, SpeechStep, TurnStep

\* The speech lane keeps its types.
LEMMA SpeechTypes ==
    ASSUME TypeOK, Pipeline, Played, [Next]_vars
    PROVE  /\ speech' \in {"recv", "select", "play", "deliver"} \cup LaneEnded
           /\ hand' \in 0 .. MaxSentences /\ voice' \in 1 .. Voices + 1
           /\ plays' \in [Sentence -> 0 .. Voices]
           /\ delivery' \in [Sentence -> {"none", "Audio", "Subtitle"}]
           /\ delivered' \in Seq(Sentence) /\ faulted' \subseteq 1 .. Voices
<1> DEFINE Goal == /\ speech' \in {"recv", "select", "play", "deliver"} \cup LaneEnded
                   /\ hand' \in 0 .. MaxSentences /\ voice' \in 1 .. Voices + 1
                   /\ plays' \in [Sentence -> 0 .. Voices]
                   /\ delivery' \in [Sentence -> {"none", "Audio", "Subtitle"}]
                   /\ delivered' \in Seq(Sentence) /\ faulted' \subseteq 1 .. Voices
<1>0. ASSUME UNCHANGED <<speech, hand, voice, plays, delivery, delivered, faulted>> PROVE Goal
  BY <1>0 DEF TypeOK
<1>1. CASE UNCHANGED vars \/ Done
  BY <1>0, <1>1 DEF Done, vars, llmVars, chanVars, speechVars, turnVars
<1>2. CASE \/ LlmSkip \/ LlmOpen \/ LlmExhausted \/ LlmCancelled \/ LlmDelta
          \/ LlmSentence \/ LlmSend \/ LlmError \/ LlmInvalid \/ LlmFinish
  BY <1>0, <1>2
  DEF LlmSkip, LlmOpen, LlmExhausted, LlmCancelled, LlmDelta, LlmSentence, LlmSend,
      LlmError, LlmInvalid, LlmFinish, EndLlm, chanVars, speechVars, turnVars
<1>3. CASE Join \/ Present \/ CommitGo \/ CommitStops \/ CommitStore
  BY <1>0, <1>3
  DEF Join, Present, CommitGo, CommitStops, CommitStore, TurnRest, llmVars, chanVars,
      speechVars
<1>4. CASE Cancel \/ EffectsDone \/ EffectsCancelled
  BY <1>0, <1>4
  DEF Cancel, EffectsDone, EffectsCancelled, llmVars, chanVars, speechVars, turnVars
<1> USE SizesAssumption DEF TypeOK, LaneEnded
<1>5. CASE SpeechRecv
  <2>1. Head(channel) \in Sentence
    BY <1>5 DEF SpeechRecv
  <2>2. hand' \in 0 .. MaxSentences
    BY <1>5, <2>1 DEF SpeechRecv, Sentence
  <2> QED
    BY <1>5, <2>2 DEF SpeechRecv
<1>6. CASE SpeechEnd
  BY <1>6 DEF SpeechEnd, SpeechRest, llmVars, turnVars
<1>7. CASE SpeechCancelled
  BY <1>7 DEF SpeechCancelled, SpeechRest, llmVars, turnVars
<1>8. CASE VoiceRefused
  BY <1>8 DEF VoiceRefused, SpeechRest, llmVars, turnVars
<1>9. CASE VoiceFails
  BY <1>9 DEF VoiceFails, SpeechRest, llmVars, turnVars
<1>10. CASE PlayStart
  <2>1. hand \in Sentence /\ plays[hand] = 0
    BY <1>10, HandIsSentence DEF PlayStart, InHand, Pipeline, Played, Sentence
  <2> QED
    BY <1>10, <2>1 DEF PlayStart, SpeechRest, llmVars, turnVars
<1>11. CASE PlayCompletes
  BY <1>11, HandIsSentence DEF PlayCompletes, SpeechRest, InHand
<1>12. CASE PlayInterrupted
  BY <1>12 DEF PlayInterrupted, SpeechRest, Played
<1>13. CASE PlayFails
  BY <1>13, HandIsSentence DEF PlayFails, SpeechRest, InHand, Played
<1>14. CASE FallToSubtitles
  BY <1>14, HandIsSentence DEF FallToSubtitles, SpeechRest, InHand
<1>15. CASE SpeechDeliver
  BY <1>15, HandIsSentence DEF SpeechDeliver, SpeechRest, InHand
<1> QED
  BY <1>1, <1>2, <1>3, <1>4, <1>5, <1>6, <1>7, <1>8, <1>9, <1>10, <1>11, <1>12, <1>13,
     <1>14, <1>15
  DEF Next, LlmStep, SpeechStep, TurnStep

\* The turn keeps its types.
LEMMA TurnTypes ==
    ASSUME TypeOK, [Next]_vars
    PROVE  /\ effects' \in {"running"} \cup LaneEnded
           /\ turn' \in {"lanes", "committing", "storing", "Completed", "Cancelled", "Failed"}
           /\ presented' \subseteq Sentence
<1> DEFINE Goal == /\ effects' \in {"running"} \cup LaneEnded
                   /\ turn' \in {"lanes", "committing", "storing", "Completed", "Cancelled", "Failed"}
                   /\ presented' \subseteq Sentence
<1>0. ASSUME UNCHANGED <<effects, turn, presented>> PROVE Goal
  BY <1>0 DEF TypeOK
<1>1. CASE UNCHANGED vars \/ Done
  BY <1>0, <1>1 DEF Done, vars, llmVars, chanVars, speechVars, turnVars
<1>2. CASE \/ LlmSkip \/ LlmOpen \/ LlmExhausted \/ LlmCancelled \/ LlmDelta
          \/ LlmSentence \/ LlmSend \/ LlmError \/ LlmInvalid \/ LlmFinish
  BY <1>0, <1>2
  DEF LlmSkip, LlmOpen, LlmExhausted, LlmCancelled, LlmDelta, LlmSentence, LlmSend,
      LlmError, LlmInvalid, LlmFinish, EndLlm, chanVars, speechVars, turnVars
<1>3. CASE \/ SpeechRecv \/ SpeechEnd \/ SpeechCancelled \/ VoiceRefused \/ VoiceFails
          \/ PlayStart \/ PlayCompletes \/ PlayInterrupted \/ PlayFails
          \/ FallToSubtitles \/ SpeechDeliver
  BY <1>0, <1>3
  DEF SpeechRecv, SpeechEnd, SpeechCancelled, VoiceRefused, VoiceFails, PlayStart,
      PlayCompletes, PlayInterrupted, PlayFails, FallToSubtitles, SpeechDeliver,
      SpeechRest, llmVars, turnVars
<1>4. CASE Cancel
  BY <1>0, <1>4
  DEF Cancel, llmVars, chanVars, speechVars, turnVars
<1> USE DEF TypeOK, LaneEnded
<1>5. CASE Join
  BY <1>5 DEF Join, TurnRest, llmVars, chanVars, speechVars
<1>6. CASE Present
  BY <1>6 DEF Present, TurnRest, Unshown
<1>7. CASE CommitGo
  BY <1>7 DEF CommitGo, TurnRest, llmVars, chanVars, speechVars
<1>8. CASE CommitStops
  BY <1>8 DEF CommitStops, Outcome, TurnRest
<1>9. CASE CommitStore
  BY <1>9 DEF CommitStore, Outcome, TurnRest
<1>10. CASE EffectsDone
  BY <1>10 DEF EffectsDone, llmVars, chanVars, speechVars, turnVars
<1>11. CASE EffectsCancelled
  BY <1>11 DEF EffectsCancelled, llmVars, chanVars, speechVars, turnVars
<1> QED
  BY <1>1, <1>2, <1>3, <1>4, <1>5, <1>6, <1>7, <1>8, <1>9, <1>10, <1>11
  DEF Next, LlmStep, SpeechStep, TurnStep

\* Every step keeps the types.
LEMMA TypeInvariance ==
    ASSUME TypeOK, Writer, Pipeline, Played, [Next]_vars
    PROVE  TypeOK'
BY FlagTypes, WriterTypes, ChannelTypes, SpeechTypes, TurnTypes DEF TypeOK

----------------------------------------------------------------------------
\* The pipeline neither loses, repeats nor reorders a sentence.
LEMMA PipelineInvariance ==
    ASSUME TypeOK, TypeOK', Writer, Pipeline, [Next]_vars
    PROVE  Pipeline'
<1>0. ASSUME UNCHANGED <<llm, ready, closed, channel, speech, hand, delivered>> PROVE Pipeline'
  BY <1>0 DEF Pipeline, Taken
<1>1. CASE UNCHANGED vars \/ Done
  BY <1>0, <1>1 DEF Done, vars, llmVars, chanVars, speechVars, turnVars
<1>2. CASE LlmSkip \/ LlmDelta
  BY <1>0, <1>2
  DEF LlmSkip, LlmDelta, chanVars, speechVars, turnVars
<1>3. CASE VoiceRefused \/ VoiceFails
  BY <1>0, <1>3
  DEF VoiceRefused, VoiceFails, SpeechRest, llmVars, turnVars
<1>4. CASE Join \/ Present \/ CommitGo \/ CommitStops \/ CommitStore
  BY <1>0, <1>4
  DEF Join, Present, CommitGo, CommitStops, CommitStore, TurnRest, llmVars, chanVars,
      speechVars
<1>5. CASE Cancel \/ EffectsDone \/ EffectsCancelled
  BY <1>0, <1>5
  DEF Cancel, EffectsDone, EffectsCancelled, llmVars, chanVars, speechVars, turnVars
<1> USE DEF TypeOK, Writer, Pipeline, Taken, InHand, LlmEnded, LaneEnded
<1>6. CASE LlmOpen
  BY <1>6 DEF LlmOpen, chanVars, speechVars, turnVars
<1>7. CASE LlmExhausted
  BY <1>7 DEF LlmExhausted, EndLlm, chanVars, speechVars, turnVars
<1>8. CASE LlmCancelled
  BY <1>8 DEF LlmCancelled, EndLlm, chanVars, speechVars, turnVars
<1>9. CASE LlmSentence
  BY <1>9 DEF LlmSentence, chanVars, speechVars, turnVars
<1>10. CASE LlmSend
  <2>1. llm = "send" /\ UNCHANGED <<ready, speech, hand, delivered>>
    BY <1>10 DEF LlmSend, speechVars
  <2>0. /\ ready \in Nat /\ Len(delivered) \in Nat /\ Len(channel) \in Nat
        /\ channel \in Seq(Sentence) /\ ready \in Sentence
    BY <2>1, Lengths DEF Sentence
  <2>2. Taken' = Taken /\ Taken \in Nat
    BY <2>0, <2>1
  <2>3. speech = "ok" => closed
    OBVIOUS
  <2> HIDE DEF Taken, TypeOK
  <2>4. CASE speech \notin LaneEnded /\ channel' = Append(channel, ready) /\ llm' = "stream" /\ closed' = closed
    <3>1. /\ ready = Taken + Len(channel) + 1
          /\ \A k \in 1 .. Len(channel): channel[k] = Taken + k
      BY <2>0, <2>1, <2>4
    <3>2. /\ Len(channel') = Len(channel) + 1 /\ channel'[Len(channel) + 1] = ready
          /\ \A k \in 1 .. Len(channel): channel'[k] = channel[k]
      BY <2>0, <2>4
    <3> HIDE DEF Writer, Pipeline
    <3>3. \A k \in 1 .. Len(channel'): channel'[k] = Taken' + k
      <4> SUFFICES ASSUME NEW k \in 1 .. Len(channel') PROVE channel'[k] = Taken + k
        BY <2>2
      <4>1. k \in 1 .. Len(channel) \/ k = Len(channel) + 1
        BY <2>0, <3>2
      <4> QED
        BY <2>0, <2>2, <3>1, <3>2, <4>1
    <3>4. ready' = Taken' + Len(channel')
      BY <2>0, <2>1, <2>2, <3>1, <3>2
    <3> QED
      BY <2>0, <2>1, <2>2, <2>3, <2>4, <3>2, <3>3, <3>4 DEF Pipeline
  <2>5. CASE speech \in LaneEnded /\ llm' = "cancelled" /\ closed' = TRUE /\ channel' = channel
    <3>1. speech = "cancelled"
      BY <2>1, <2>3, <2>5
    <3> QED
      BY <2>1, <2>2, <2>5, <3>1
  <2> QED
    BY <1>10, <2>4, <2>5 DEF LlmSend, EndLlm
<1>11. CASE LlmError
  BY <1>11 DEF LlmError, EndLlm, chanVars, speechVars, turnVars
<1>12. CASE LlmInvalid
  BY <1>12 DEF LlmInvalid, EndLlm, chanVars, speechVars, turnVars
<1>13. CASE LlmFinish
  BY <1>13 DEF LlmFinish, EndLlm, chanVars, speechVars, turnVars
<1>14. CASE SpeechRecv
  <2>1. /\ channel \in Seq(Sentence) /\ channel # <<>> /\ Len(channel) \in Nat
        /\ Len(delivered) \in Nat /\ ready \in Nat
    BY <1>14, Lengths DEF SpeechRecv
  <2>2. /\ UNCHANGED <<llm, ready, closed, delivered>> /\ speech = "recv" /\ speech' = "select"
        /\ hand' = Head(channel) /\ channel' = Tail(channel)
    BY <1>14 DEF SpeechRecv, SpeechRest, llmVars
  <2>3. Taken = Len(delivered) /\ Taken' = Len(delivered) + 1
    BY <2>2
  <2> HIDE DEF Taken, TypeOK, Writer
  <2>4. \A k \in 1 .. Len(channel): channel[k] = Len(delivered) + k
    BY <2>2, <2>3
  <2>5. /\ Len(channel') = Len(channel) - 1 /\ hand' = channel[1]
        /\ \A k \in 1 .. Len(channel'): channel'[k] = channel[k + 1]
    BY <2>1, <2>2
  <2>6. hand' = Len(delivered) + 1 /\ 1 \in 1 .. Len(channel)
    BY <2>1, <2>4, <2>5
  <2>7. \A k \in 1 .. Len(channel'): channel'[k] = Taken' + k
    BY <2>1, <2>3, <2>4, <2>5
  <2> HIDE DEF Pipeline
  <2>8. /\ Taken' + Len(channel') = Taken + Len(channel)
    BY <2>1, <2>3, <2>5
  <2> QED
    BY <2>1, <2>2, <2>3, <2>5, <2>6, <2>7, <2>8 DEF Pipeline
<1>15. CASE SpeechEnd
  BY <1>15 DEF SpeechEnd, SpeechRest, llmVars, turnVars
<1>16. CASE SpeechCancelled
  BY <1>16 DEF SpeechCancelled, SpeechRest, llmVars, turnVars
<1>17. CASE PlayStart
  BY <1>17 DEF PlayStart, SpeechRest, llmVars, turnVars
<1>18. CASE PlayCompletes
  <2>1. /\ UNCHANGED <<llm, ready, closed, channel, hand, delivered>>
        /\ speech = "play" /\ speech' \in {"deliver", "cancelled"}
    BY <1>18 DEF PlayCompletes, SpeechRest, llmVars
  <2>2. Len(delivered) \in Nat /\ Len(channel) \in Nat /\ ready \in Nat
    BY Lengths
  <2>3. Taken = Len(delivered) + 1 /\ Taken' <= Taken /\ (speech' = "deliver" => Taken' = Taken) /\ Taken' \in Nat
    BY <2>1, <2>2
  <2> HIDE DEF Taken, TypeOK, Writer
  <2>4. CASE speech' = "deliver"
    BY <2>1, <2>2, <2>3, <2>4
  <2>5. CASE speech' = "cancelled"
    <3>1. Taken' + Len(channel) <= ready
      BY <2>2, <2>3, <2>1
    <3> QED
      BY <2>1, <2>2, <3>1, <2>5
  <2> QED
    BY <2>1, <2>4, <2>5
<1>19. CASE PlayInterrupted
  BY <1>19 DEF PlayInterrupted, SpeechRest, llmVars, turnVars
<1>20. CASE PlayFails
  BY <1>20 DEF PlayFails, SpeechRest, llmVars, turnVars
<1>21. CASE FallToSubtitles
  BY <1>21 DEF FallToSubtitles, SpeechRest, llmVars, turnVars
<1>22. CASE SpeechDeliver
  BY <1>22 DEF SpeechDeliver, SpeechRest, llmVars, turnVars
<1> QED
  BY <1>1, <1>2, <1>3, <1>4, <1>5, <1>6, <1>7, <1>8, <1>9, <1>10, <1>11, <1>12, <1>13,
     <1>14, <1>15, <1>16, <1>17, <1>18, <1>19, <1>20, <1>21, <1>22
  DEF Next, LlmStep, SpeechStep, TurnStep

\* A sentence is handed to the sink once, whichever voices fail.
LEMMA PlayedInvariance ==
    ASSUME TypeOK, TypeOK', Pipeline, Played, [Next]_vars
    PROVE  Played'
<1>0. ASSUME UNCHANGED <<speech, hand, voice, plays, delivered>> PROVE Played'
  BY <1>0 DEF Played, NoDuplicateVoice
<1>1. CASE UNCHANGED vars \/ Done
  BY <1>0, <1>1 DEF Done, vars, llmVars, chanVars, speechVars, turnVars
<1>2. CASE \/ LlmSkip \/ LlmOpen \/ LlmExhausted \/ LlmCancelled \/ LlmDelta
          \/ LlmSentence \/ LlmSend \/ LlmError \/ LlmInvalid \/ LlmFinish
  BY <1>0, <1>2
  DEF LlmSkip, LlmOpen, LlmExhausted, LlmCancelled, LlmDelta, LlmSentence, LlmSend,
      LlmError, LlmInvalid, LlmFinish, EndLlm, chanVars, speechVars, turnVars
<1>3. CASE Join \/ Present \/ CommitGo \/ CommitStops \/ CommitStore
  BY <1>0, <1>3
  DEF Join, Present, CommitGo, CommitStops, CommitStore, TurnRest, llmVars, chanVars,
      speechVars
<1>4. CASE Cancel \/ EffectsDone \/ EffectsCancelled
  BY <1>0, <1>4
  DEF Cancel, EffectsDone, EffectsCancelled, llmVars, chanVars, speechVars, turnVars
<1> USE DEF TypeOK, Pipeline, Played, NoDuplicateVoice, InHand, LaneEnded, Sentence
<1>5. CASE SpeechRecv
  BY <1>5 DEF SpeechRecv, SpeechRest, llmVars, turnVars
<1>6. CASE SpeechEnd
  BY <1>6 DEF SpeechEnd, SpeechRest, llmVars, turnVars
<1>7. CASE SpeechCancelled
  BY <1>7 DEF SpeechCancelled, SpeechRest, llmVars, turnVars
<1>8. CASE VoiceRefused
  BY <1>8 DEF VoiceRefused, SpeechRest, llmVars, turnVars
<1>9. CASE VoiceFails
  BY <1>9 DEF VoiceFails, SpeechRest, llmVars, turnVars
<1>10. CASE PlayStart
  <2>1. hand \in Sentence /\ hand = Len(delivered) + 1 /\ speech = "select"
    BY <1>10, HandIsSentence DEF PlayStart
  <2>2. \A s \in Sentence: s > Len(delivered) => plays[s] = 0
    BY <2>1
  <2>3. plays' = [plays EXCEPT ![hand] = @ + 1] /\ plays \in [Sentence -> 0 .. Voices]
        /\ UNCHANGED <<hand, delivered, voice>> /\ speech' = "play" /\ voice <= Voices
    BY <1>10 DEF PlayStart
  <2>4. plays[hand] = 0 /\ plays'[hand] = 1 /\ \A s \in Sentence \ {hand}: plays'[s] = plays[s]
    BY <2>1, <2>2, <2>3
  <2> QED
    BY <2>1, <2>2, <2>3, <2>4
<1>11. CASE PlayCompletes
  BY <1>11 DEF PlayCompletes, SpeechRest, llmVars, turnVars
<1>12. CASE PlayInterrupted
  BY <1>12 DEF PlayInterrupted, SpeechRest, llmVars, turnVars
<1>13. CASE PlayFails
  BY <1>13 DEF PlayFails, SpeechRest, llmVars, turnVars
<1>14. CASE FallToSubtitles
  BY <1>14 DEF FallToSubtitles, SpeechRest, llmVars, turnVars
<1>15. CASE SpeechDeliver
  BY <1>15 DEF SpeechDeliver, SpeechRest, llmVars, turnVars
<1> QED
  BY <1>1, <1>2, <1>3, <1>4, <1>5, <1>6, <1>7, <1>8, <1>9, <1>10, <1>11, <1>12, <1>13,
     <1>14, <1>15
  DEF Next, LlmStep, SpeechStep, TurnStep

\* Nothing moves behind the join of the lanes.
LEMMA CommittedInvariance ==
    ASSUME TypeOK, Committed, [Next]_vars
    PROVE  Committed'
<1>0. ASSUME UNCHANGED <<llm, speech, effects, turn, stored>> PROVE Committed'
  BY <1>0 DEF Committed, LanesEnded, Ended
<1>1. CASE UNCHANGED vars \/ Done
  BY <1>0, <1>1 DEF Done, vars, llmVars, chanVars, speechVars, turnVars
<1>2. CASE LlmSkip \/ LlmDelta
  BY <1>0, <1>2
  DEF LlmSkip, LlmDelta, chanVars, speechVars, turnVars
<1>3. CASE VoiceRefused \/ VoiceFails
  BY <1>0, <1>3
  DEF VoiceRefused, VoiceFails, SpeechRest, llmVars, turnVars
<1>4. CASE Present
  BY <1>0, <1>4
  DEF Present, TurnRest, llmVars, chanVars, speechVars
<1>5. CASE Cancel
  BY <1>0, <1>5
  DEF Cancel, llmVars, chanVars, speechVars, turnVars
<1> USE DEF TypeOK, Committed, LanesEnded, Ended, LlmEnded, LaneEnded
<1>6. CASE LlmOpen
  BY <1>6 DEF LlmOpen, chanVars, speechVars, turnVars
<1>7. CASE LlmExhausted
  BY <1>7 DEF LlmExhausted, EndLlm, chanVars, speechVars, turnVars
<1>8. CASE LlmCancelled
  BY <1>8 DEF LlmCancelled, EndLlm, chanVars, speechVars, turnVars
<1>9. CASE LlmSentence
  BY <1>9 DEF LlmSentence, chanVars, speechVars, turnVars
<1>10. CASE LlmSend
  BY <1>10 DEF LlmSend, EndLlm, chanVars, speechVars, turnVars
<1>11. CASE LlmError
  BY <1>11 DEF LlmError, EndLlm, chanVars, speechVars, turnVars
<1>12. CASE LlmInvalid
  BY <1>12 DEF LlmInvalid, EndLlm, chanVars, speechVars, turnVars
<1>13. CASE LlmFinish
  BY <1>13 DEF LlmFinish, EndLlm, chanVars, speechVars, turnVars
<1>14. CASE SpeechRecv
  BY <1>14 DEF SpeechRecv, SpeechRest, llmVars, turnVars
<1>15. CASE SpeechEnd
  BY <1>15 DEF SpeechEnd, SpeechRest, llmVars, turnVars
<1>16. CASE SpeechCancelled
  BY <1>16 DEF SpeechCancelled, SpeechRest, llmVars, turnVars
<1>17. CASE PlayStart
  BY <1>17 DEF PlayStart, SpeechRest, llmVars, turnVars
<1>18. CASE PlayCompletes
  BY <1>18 DEF PlayCompletes, SpeechRest, llmVars, turnVars
<1>19. CASE PlayInterrupted
  BY <1>19 DEF PlayInterrupted, SpeechRest, llmVars, turnVars
<1>20. CASE PlayFails
  BY <1>20 DEF PlayFails, SpeechRest, llmVars, turnVars
<1>21. CASE FallToSubtitles
  BY <1>21 DEF FallToSubtitles, SpeechRest, llmVars, turnVars
<1>22. CASE SpeechDeliver
  BY <1>22 DEF SpeechDeliver, SpeechRest, llmVars, turnVars
<1>23. CASE Join
  BY <1>23 DEF Join, TurnRest, llmVars, chanVars, speechVars
<1>24. CASE CommitGo
  BY <1>24 DEF CommitGo, TurnRest, llmVars, chanVars, speechVars
<1>25. CASE CommitStops
  BY <1>25 DEF CommitStops, TurnRest, llmVars, chanVars, speechVars
<1>26. CASE CommitStore
  BY <1>26 DEF CommitStore, Outcome, TurnRest, llmVars, speechVars
<1>27. CASE EffectsDone
  BY <1>27 DEF EffectsDone, llmVars, chanVars, speechVars, turnVars
<1>28. CASE EffectsCancelled
  BY <1>28 DEF EffectsCancelled, llmVars, chanVars, speechVars, turnVars
<1> QED
  BY <1>1, <1>2, <1>3, <1>4, <1>5, <1>6, <1>7, <1>8, <1>9, <1>10, <1>11, <1>12, <1>13,
     <1>14, <1>15, <1>16, <1>17, <1>18, <1>19, <1>20, <1>21, <1>22, <1>23, <1>24, <1>25,
     <1>26, <1>27, <1>28
  DEF Next, LlmStep, SpeechStep, TurnStep

\* The lanes hand a complete reply to the commit, and nothing is added behind it.
LEMMA ReplyInvariance ==
    ASSUME TypeOK, Pipeline, Committed, CompleteReplyDelivered, [Next]_vars
    PROVE  CompleteReplyDelivered'
<1>0. ASSUME UNCHANGED <<turn, delivered, ready>> PROVE CompleteReplyDelivered'
  BY <1>0 DEF CompleteReplyDelivered
<1>1. CASE UNCHANGED vars \/ Done
  BY <1>0, <1>1 DEF Done, vars, llmVars, chanVars, speechVars, turnVars
<1>2. CASE \/ LlmSkip \/ LlmOpen \/ LlmExhausted \/ LlmCancelled \/ LlmDelta \/ LlmSend
          \/ LlmError \/ LlmInvalid \/ LlmFinish
  BY <1>0, <1>2
  DEF LlmSkip, LlmOpen, LlmExhausted, LlmCancelled, LlmDelta, LlmSend, LlmError,
      LlmInvalid, LlmFinish, EndLlm, chanVars, speechVars, turnVars
<1>3. CASE \/ SpeechRecv \/ SpeechEnd \/ SpeechCancelled \/ VoiceRefused \/ VoiceFails
          \/ PlayStart \/ PlayCompletes \/ PlayInterrupted \/ PlayFails
          \/ FallToSubtitles
  BY <1>0, <1>3
  DEF SpeechRecv, SpeechEnd, SpeechCancelled, VoiceRefused, VoiceFails, PlayStart,
      PlayCompletes, PlayInterrupted, PlayFails, FallToSubtitles, SpeechRest, llmVars,
      turnVars
<1>4. CASE Present
  BY <1>0, <1>4
  DEF Present, TurnRest, llmVars, chanVars, speechVars
<1>5. CASE Cancel \/ EffectsDone \/ EffectsCancelled
  BY <1>0, <1>5
  DEF Cancel, EffectsDone, EffectsCancelled, llmVars, chanVars, speechVars, turnVars
<1> USE DEF CompleteReplyDelivered
<1>6. CASE LlmSentence
  <2>1. turn' = "lanes"
    BY <1>6 DEF LlmSentence, turnVars, Committed, LanesEnded, LlmEnded
  <2> QED
    BY <2>1
<1>7. CASE SpeechDeliver
  <2>1. turn' = "lanes"
    BY <1>7 DEF SpeechDeliver, SpeechRest, turnVars, Committed, LanesEnded, LaneEnded
  <2> QED
    BY <2>1
<1>8. CASE Join
  <2>1. UNCHANGED <<delivered, ready>>
    BY <1>8 DEF Join, TurnRest, llmVars, speechVars
  <2>2. CASE turn' = "committing"
    <3>1. speech = "ok" /\ llm \in {"ok", "broken"}
      BY <1>8, <2>2 DEF Join, LanesEnded, LlmEnded, LaneEnded
    <3>2. channel = <<>> /\ Taken = Len(delivered)
      BY <3>1 DEF Pipeline, Taken, InHand
    <3>3. ready = Len(delivered)
      BY <3>1, <3>2, Lengths DEF Pipeline
    <3>4. delivered = [k \in 1 .. Len(delivered) |-> k]
      BY Lengths DEF Pipeline
    <3> QED
      BY <2>1, <3>3, <3>4
  <2>3. CASE turn' \in {"Cancelled", "Failed"}
    BY <2>3
  <2> QED
    BY <1>8, <2>2, <2>3 DEF Join
<1>9. CASE CommitGo
  BY <1>9 DEF CommitGo, TurnRest, llmVars, speechVars
<1>10. CASE CommitStops
  BY <1>10 DEF CommitStops, TurnRest, llmVars, speechVars
<1>11. CASE CommitStore
  BY <1>11 DEF CommitStore, TurnRest, llmVars, speechVars
<1> QED
  BY <1>1, <1>2, <1>3, <1>4, <1>5, <1>6, <1>7, <1>8, <1>9, <1>10, <1>11
  DEF Next, LlmStep, SpeechStep, TurnStep

\* The inductive invariant.
LEMMA Invariance == Spec => []IInv
<1>1. Init => IInv
  <2> SUFFICES ASSUME Init PROVE IInv
    OBVIOUS
  <2> USE SizesAssumption, CapacityAssumption DEF Init
  <2>1. TypeOK
    <3>1. /\ author \in [Sentence -> 0 .. Models] /\ plays \in [Sentence -> 0 .. Voices]
          /\ delivery \in [Sentence -> {"none", "Audio", "Subtitle"}]
      OBVIOUS
    <3>2. channel \in Seq(Sentence) /\ Len(channel) <= Capacity /\ delivered \in Seq(Sentence)
      OBVIOUS
    <3>3. model \in 1 .. Models + 1 /\ ready \in 0 .. MaxSentences /\ hand \in 0 .. MaxSentences
          /\ voice \in 1 .. Voices + 1
      OBVIOUS
    <3> QED
      BY <3>1, <3>2, <3>3 DEF TypeOK
  <2>2. OneAuthor /\ Writer /\ Committed /\ CompleteReplyDelivered
    BY DEF OneAuthor, Writer, Committed, CompleteReplyDelivered, LlmEnded
  <2>3. Pipeline
    BY DEF Pipeline, Taken, InHand
  <2>4. Played
    BY DEF Played, NoDuplicateVoice, Sentence
  <2> QED
    BY <2>1, <2>2, <2>3, <2>4 DEF IInv
<1>2. IInv /\ [Next]_vars => IInv'
  <2> SUFFICES ASSUME IInv, [Next]_vars PROVE IInv'
    OBVIOUS
  <2>1. TypeOK'
    BY TypeInvariance DEF IInv
  <2> QED
    BY <2>1, WriterInvariance, PipelineInvariance, PlayedInvariance, CommittedInvariance,
       ReplyInvariance DEF IInv
<1> QED
  BY <1>1, <1>2, PTL DEF Spec

----------------------------------------------------------------------------
\* The variables of a turn keep their types, and the channel its bound.
THEOREM TypeCorrect == Spec => []TypeOK
BY Invariance, PTL DEF IInv

\* However candidates fail and fall back, the sentences released by a turn come
\* from one model.
THEOREM SingleAuthor == Spec => []OneAuthor
BY Invariance, PTL DEF IInv

\* However voices fail and fall back, no sentence is handed to the sink twice.
THEOREM VoicedOnce == Spec => []NoDuplicateVoice
BY Invariance, PTL DEF IInv, Played

\* A reply that is committed or reported as completed was delivered to the last
\* sentence, in order.
THEOREM RepliesComplete == Spec => []CompleteReplyDelivered
BY Invariance, PTL DEF IInv

----------------------------------------------------------------------------
\* A step that neither delivers a sentence nor ends the turn is invisible.
LEMMA Invisible ==
    ASSUME UNCHANGED <<delivered, turn, stored>>
    PROVE  UNCHANGED Abstract!vars
BY DEF Abstract!vars, Ended

\* Every step of the lanes is a step of the abstract turn.
LEMMA StepRefinement ==
    ASSUME IInv, [Next]_vars
    PROVE  [Abstract!Next]_(Abstract!vars)
<1>0. ASSUME UNCHANGED <<delivered, turn, stored>> PROVE [Abstract!Next]_(Abstract!vars)
  BY <1>0, Invisible
<1>1. CASE UNCHANGED vars \/ Done
  BY <1>0, <1>1 DEF Done, vars, llmVars, chanVars, speechVars, turnVars
<1>2. CASE \/ LlmSkip \/ LlmOpen \/ LlmExhausted \/ LlmCancelled \/ LlmDelta
          \/ LlmSentence \/ LlmSend \/ LlmError \/ LlmInvalid \/ LlmFinish
  BY <1>0, <1>2
  DEF LlmSkip, LlmOpen, LlmExhausted, LlmCancelled, LlmDelta, LlmSentence, LlmSend,
      LlmError, LlmInvalid, LlmFinish, EndLlm, chanVars, speechVars, turnVars
<1>3. CASE \/ SpeechRecv \/ SpeechEnd \/ SpeechCancelled \/ VoiceRefused \/ VoiceFails
          \/ PlayStart \/ PlayCompletes \/ PlayInterrupted \/ PlayFails
          \/ FallToSubtitles
  BY <1>0, <1>3
  DEF SpeechRecv, SpeechEnd, SpeechCancelled, VoiceRefused, VoiceFails, PlayStart,
      PlayCompletes, PlayInterrupted, PlayFails, FallToSubtitles, SpeechRest, llmVars,
      turnVars
<1>4. CASE Present
  BY <1>0, <1>4
  DEF Present, TurnRest, llmVars, chanVars, speechVars
<1>5. CASE Cancel \/ EffectsDone \/ EffectsCancelled
  BY <1>0, <1>5
  DEF Cancel, EffectsDone, EffectsCancelled, llmVars, chanVars, speechVars, turnVars
<1> USE DEF Ended
<1>6. CASE SpeechDeliver
  <2>1. turn = "lanes" /\ turn' = turn /\ stored' = stored
    BY <1>6 DEF SpeechDeliver, SpeechRest, turnVars, IInv, Committed, LanesEnded, LaneEnded
  <2>2. delivered' = Append(delivered, Len(delivered) + 1)
    BY <1>6 DEF SpeechDeliver, IInv, Pipeline, InHand
  <2>3. ~stored
    BY <2>1 DEF IInv, Committed
  <2> QED
    BY <2>1, <2>2, <2>3 DEF Abstract!Next, Abstract!Hear
<1>7. CASE Join
  <2>1. /\ turn = "lanes" /\ turn' \in {"Cancelled", "Failed", "committing"}
        /\ UNCHANGED <<delivered, stored>>
    BY <1>7 DEF Join, TurnRest, speechVars
  <2>2. ~stored
    BY <2>1 DEF IInv, Committed
  <2> QED
    BY <2>1, <2>2 DEF Abstract!Next, Abstract!End, Abstract!vars
<1>8. CASE CommitGo
  <2>1. turn = "committing" /\ turn' = "storing" /\ UNCHANGED <<delivered, stored>>
    BY <1>8 DEF CommitGo, TurnRest, speechVars
  <2> QED
    BY <2>1 DEF Abstract!vars
<1>9. CASE CommitStops
  <2>1. /\ turn = "committing" /\ turn' \in {"Completed", "Cancelled", "Failed"}
        /\ UNCHANGED <<delivered, stored>>
    BY <1>9 DEF CommitStops, Outcome, TurnRest, speechVars
  <2>2. ~stored
    BY <2>1 DEF IInv, Committed
  <2> QED
    BY <2>1, <2>2 DEF Abstract!Next, Abstract!End
<1>10. CASE CommitStore
  <2>1. /\ turn = "storing" /\ turn' \in {"Completed", "Cancelled", "Failed"}
        /\ UNCHANGED delivered
    BY <1>10 DEF CommitStore, Outcome, TurnRest, speechVars
  <2>2. ~stored
    BY <2>1 DEF IInv, Committed
  <2> QED
    BY <2>1, <2>2 DEF Abstract!Next, Abstract!End
<1> QED
  BY <1>1, <1>2, <1>3, <1>4, <1>5, <1>6, <1>7, <1>8, <1>9, <1>10
  DEF Next, LlmStep, SpeechStep, TurnStep

\* The three lanes, their channel and the commit implement the turn that the rest
\* of the program sees: sentences are heard in order while it is open, it ends
\* once, and memory keeps all or nothing of what was heard.
THEOREM Refinement == Spec => ImplementsDialogueTurn
<1>1. Init => Abstract!Init
  BY DEF Init, Abstract!Init, Ended
<1>2. IInv /\ [Next]_vars => [Abstract!Next]_(Abstract!vars)
  BY StepRefinement
<1> QED
  BY <1>1, <1>2, Invariance, PTL DEF Spec, ImplementsDialogueTurn, Abstract!Spec
=============================================================================
