------------------------------ MODULE VoiceTurn ------------------------------
(***************************************************************************)
(* One turn of a conversation by voice, whose answer is spoken while the    *)
(* LLM still writes it (act_stream.go).  Goroutines connected by channels:  *)
(*                                                                         *)
(*   stream (llm/stream.go) --out--> consumer (act_stream.go) --sentences-->*)
(*      synth (pipeline.go, device.go) --pcm--> the worker, which sends      *)
(*                                                                         *)
(* The worker is the caller: it starts the other three, speaks, waits for   *)
(* the consumer, and records and returns the answer, or goes on with the    *)
(* tools the answer calls.  The answer is a sequence of numbered pieces of  *)
(* text (outside <think> blocks); a sentence is some pieces in a row, and    *)
(* where sentences end is left open.                                       *)
(*                                                                         *)
(* An operator that stands before another and is used nowhere is that one   *)
(* with a mistake in it: the README says which property notices.            *)
(***************************************************************************)
EXTENDS Naturals, Sequences, Functions

CONSTANTS
  Route,        \* the ways RespondStream may take, of AllRoutes
  MaxPieces,    \* bound: pieces of the answer
  SentenceCap,  \* capacity of sentences (4 in the code)
  PcmCap,       \* capacity of pcmQueue (1 in the code)
  MayCancel     \* shutdown may come during the turn

(* Discord: by voice; the session is gone by now; disconnected, so by text. *)
(* Web: by voice; without a synthesizer.                                    *)
AllRoutes == {"voice", "gone", "text", "web", "mute"}

ASSUME RouteAssumption == Route \subseteq AllRoutes /\ Route # {}
ASSUME CapAssumption == SentenceCap \in Nat \ {0} /\ PcmCap \in Nat \ {0}
ASSUME BoundAssumption == MaxPieces \in Nat /\ MayCancel \in BOOLEAN

VARIABLES
  stream,      \* where the stream goroutine is; out is closed when it ended
  emitted,     \* pieces the provider has sent
  heldBack,    \* tagBuf: text that may turn out to begin a tag
  offer,       \* the chunk being sent on out
  toolCalls,   \* the answer calls tools
  consumer,    \* where the consumer is; sentences is closed when it ended
  buf,         \* the SentenceBuffer
  content,     \* contentBuf
  detected,    \* toolCallsDetected
  sentences,   \* the channel
  synth,       \* where the synth goroutine is; pcm is closed when it ended
  inHand,      \* the sentence it works on
  pcm,         \* pcmQueue
  stop,        \* cancelSynth was called
  discard,     \* a goroutine empties pcmQueue
  main,        \* where the worker is
  route,       \* the way RespondStream took
  locked,      \* encoderMu is held
  failed,      \* why RespondStream fails, or "no"
  spoken,      \* pieces heard (or sent as text)
  skipped,     \* pieces whose synthesis failed or was empty
  outcome,     \* how the turn ended
  recorded,    \* what the context got as the agent's own text
  returned,    \* the text the caller takes for said
  cancelled    \* the context of Run is done

streaming == <<stream, emitted, heldBack, offer, toolCalls>>
consuming == <<consumer, buf, content, detected>>
synthesis == <<synth, inHand, skipped>>
ending == <<outcome, recorded, returned>>
speaking == <<main, route, locked, failed, spoken, stop, discard>>
vars == <<streaming, consuming, sentences, synthesis, pcm, speaking, ending, cancelled>>
-----------------------------------------------------------------------------
Piece == 1..MaxPieces
LoopReply == MaxPieces + 1      \* the text that ends a tool loop

StreamOver == stream \in {"failed", "done"}
Stopped == stop \/ cancelled    \* synthCtx is done

Init ==
  /\ stream = "read" /\ emitted = 0 /\ heldBack = <<>> /\ offer = <<>>
  /\ toolCalls = FALSE
  /\ consumer = "receive" /\ buf = <<>> /\ content = <<>> /\ detected = FALSE
  /\ sentences = <<>>
  /\ synth = "off" /\ inHand = <<>> /\ skipped = {}
  /\ pcm = <<>>
  /\ main = "respond" /\ route = "none" /\ locked = FALSE /\ failed = "no"
  /\ spoken = <<>> /\ stop = FALSE /\ discard = FALSE
  /\ outcome = "none" /\ recorded = <<>> /\ returned = <<>>
  /\ cancelled = FALSE

Cancel ==
  /\ MayCancel /\ ~cancelled /\ main # "over"
  /\ cancelled' = TRUE
  /\ UNCHANGED <<streaming, consuming, sentences, synthesis, pcm, speaking, ending>>
-----------------------------------------------------------------------------
(* The stream goroutine (CompleteStreamWithTools).  Text that may begin a   *)
(* tag waits for the next chunk and goes before it (filterThinkTags).       *)
ReleaseAfter(p) == <<p>> \o heldBack
Release(p) == heldBack \o <<p>>

ProviderSends ==
  /\ stream = "read"
  /\ emitted < MaxPieces
  /\ emitted' = emitted + 1
  /\ \/ offer' = Release(emitted') /\ heldBack' = <<>> /\ stream' = "offer"
     \/ heldBack' = Release(emitted') /\ UNCHANGED <<offer, stream>>
  /\ UNCHANGED <<toolCalls, consuming, sentences, synthesis, pcm, speaking, ending, cancelled>>

(* The final chunk, what was held back among its content, is on its way; an *)
(* error of the provider ends the stream without one.                       *)
ProviderEnds ==
  /\ stream = "read"
  /\ \/ stream' = "final" /\ toolCalls' \in BOOLEAN
     \/ stream' = "failed" /\ UNCHANGED toolCalls
  /\ UNCHANGED <<emitted, heldBack, offer>>
  /\ UNCHANGED <<consuming, sentences, synthesis, pcm, speaking, ending, cancelled>>

StreamCancelled ==
  /\ cancelled
  /\ stream \in {"offer", "final"}
  /\ stream' = "done" /\ offer' = <<>>
  /\ UNCHANGED <<emitted, heldBack, toolCalls>>
  /\ UNCHANGED <<consuming, sentences, synthesis, pcm, speaking, ending, cancelled>>
-----------------------------------------------------------------------------
(* The consumer.  out is not buffered: both sides take the step. *)
ReceiveChunk ==
  /\ consumer = "receive"
  /\ stream = "offer"
  /\ stream' = "read" /\ offer' = <<>>
  /\ content' = content \o offer
  /\ buf' = buf \o offer
  /\ consumer' \in {"receive", "send"}
  /\ UNCHANGED <<emitted, heldBack, toolCalls, detected>>
  /\ UNCHANGED <<sentences, synthesis, pcm, speaking, ending, cancelled>>

(* The stream is over: only the tool calls of its final chunk are used, and  *)
(* the rest of the buffer is flushed.                                       *)
FlushNothing == "done"
Flush == IF buf = <<>> THEN "done" ELSE "flush"

ReceiveEnd ==
  /\ consumer = "receive"
  /\ \/ stream = "final" /\ stream' = "done" /\ detected' = toolCalls
     \/ StreamOver /\ UNCHANGED <<stream, detected>>
  /\ consumer' = Flush
  /\ UNCHANGED <<emitted, heldBack, offer, toolCalls, buf, content>>
  /\ UNCHANGED <<sentences, synthesis, pcm, speaking, ending, cancelled>>

SendSentence ==
  /\ consumer \in {"send", "flush"}
  /\ Len(sentences) < SentenceCap
  /\ sentences' = Append(sentences, buf)
  /\ buf' = <<>>
  /\ consumer' = IF consumer = "send" THEN "receive" ELSE "done"
  /\ UNCHANGED <<content, detected>>
  /\ UNCHANGED <<streaming, synthesis, pcm, speaking, ending, cancelled>>
-----------------------------------------------------------------------------
(* The synth goroutine, the same for Discord and the web. *)
SynthTake ==
  /\ synth = "take"
  /\ sentences # <<>>
  /\ inHand' = Head(sentences)
  /\ sentences' = Tail(sentences)
  /\ synth' = IF Stopped THEN "drain" ELSE "synthesize"
  /\ UNCHANGED skipped
  /\ UNCHANGED <<streaming, consuming, pcm, speaking, ending, cancelled>>

Synthesize ==
  /\ synth = "synthesize"
  /\ \/ synth' = "offer" /\ UNCHANGED skipped
     \/ synth' = "take" /\ skipped' = skipped \cup Range(inHand)
  /\ UNCHANGED inHand
  /\ UNCHANGED <<streaming, consuming, sentences, pcm, speaking, ending, cancelled>>

(* Sentences are received until their channel is closed even when the       *)
(* speaking is over: the consumer must never block for good.                *)
GiveUpAtOnce == "done"
GiveUp == "drain"

SynthOffer ==
  /\ synth = "offer"
  /\ \/ Len(pcm) < PcmCap /\ pcm' = Append(pcm, inHand) /\ synth' = "take"
     \/ Stopped /\ synth' = GiveUp /\ UNCHANGED pcm
  /\ UNCHANGED <<inHand, skipped>>
  /\ UNCHANGED <<streaming, consuming, sentences, speaking, ending, cancelled>>

SynthDrain ==
  /\ synth = "drain"
  /\ sentences # <<>>
  /\ sentences' = Tail(sentences)
  /\ UNCHANGED <<streaming, consuming, synthesis, pcm, speaking, ending, cancelled>>

SynthEnd ==
  /\ synth \in {"take", "drain"}
  /\ sentences = <<>> /\ consumer = "done"
  /\ synth' = "done"
  /\ UNCHANGED <<inHand, skipped>>
  /\ UNCHANGED <<streaming, consuming, sentences, pcm, speaking, ending, cancelled>>
-----------------------------------------------------------------------------
(* The worker in RespondStream. *)
Respond(r) ==
  /\ main = "respond"
  /\ route' = r
  /\ main' = IF r = "voice" THEN "begin" ELSE IF r = "web" THEN "speak" ELSE "collect"
  /\ synth' = IF r \in {"voice", "web"} THEN "take" ELSE "off"
  /\ UNCHANGED <<inHand, skipped, locked, failed, spoken, stop, discard>>
  /\ UNCHANGED <<streaming, consuming, sentences, pcm, ending, cancelled>>

(* BeginSpeaking takes encoderMu, and returns it when it fails. *)
BeginSpeaking ==
  /\ main = "begin"
  /\ \/ main' = "speak" /\ locked' = TRUE /\ UNCHANGED <<failed, stop, discard>>
     \/ /\ main' = "await" /\ failed' = "begin" /\ stop' = TRUE /\ discard' = TRUE
        /\ UNCHANGED locked
  /\ UNCHANGED <<route, spoken>>
  /\ UNCHANGED <<streaming, consuming, sentences, synthesis, pcm, ending, cancelled>>

(* One sentence is sent.  A failure ends the speech on Discord; on the web  *)
(* it is remembered, and other clients may have heard the sentence; if the  *)
(* last client has left, nothing is sent and nothing remembered.            *)
SendPcm ==
  /\ main = "speak"
  /\ pcm # <<>>
  /\ pcm' = Tail(pcm)
  /\ \/ /\ spoken' = spoken \o Head(pcm)
        /\ UNCHANGED <<main, failed, stop, discard>>
     \/ /\ route = "voice"
        /\ main' = "end" /\ failed' = "send" /\ stop' = TRUE /\ discard' = TRUE
        /\ UNCHANGED spoken
     \/ /\ route = "web"
        /\ \/ failed' = "send" /\ spoken' \in {spoken, spoken \o Head(pcm)}
           \/ UNCHANGED <<failed, spoken>>
        /\ UNCHANGED <<main, stop, discard>>
  /\ UNCHANGED <<route, locked>>
  /\ UNCHANGED <<streaming, consuming, sentences, synthesis, ending, cancelled>>

(* pcmQueue is closed and empty.  The web counts what it sent: nothing      *)
(* counts as "no client".                                                   *)
SpeechEnds ==
  /\ main = "speak"
  /\ pcm = <<>> /\ synth = "done"
  /\ main' = IF route = "voice" THEN "end" ELSE "await"
  /\ failed' = IF route = "web" /\ spoken = <<>> /\ failed = "no" THEN "silent" ELSE failed
  /\ UNCHANGED <<route, locked, spoken, stop, discard>>
  /\ UNCHANGED <<streaming, consuming, sentences, synthesis, pcm, ending, cancelled>>

KeepLocked == locked
Unlocked == FALSE

EndSpeaking ==
  /\ main = "end"
  /\ locked' = Unlocked
  /\ main' = "await"
  /\ UNCHANGED <<route, failed, spoken, stop, discard>>
  /\ UNCHANGED <<streaming, consuming, sentences, synthesis, pcm, ending, cancelled>>

Discard ==
  /\ discard
  /\ pcm # <<>>
  /\ pcm' = Tail(pcm)
  /\ UNCHANGED <<streaming, consuming, sentences, synthesis, speaking, ending, cancelled>>

(* Without a voice: the sentences are collected and sent as one message,    *)
(* or thrown away.                                                          *)
Collect ==
  /\ main = "collect"
  /\ sentences # <<>>
  /\ sentences' = Tail(sentences)
  /\ inHand' = IF route = "text" THEN inHand \o Head(sentences) ELSE <<>>
  /\ UNCHANGED <<synth, skipped>>
  /\ UNCHANGED <<streaming, consuming, pcm, speaking, ending, cancelled>>

Collected ==
  /\ main = "collect"
  /\ sentences = <<>> /\ consumer = "done"
  /\ \/ route = "gone" /\ failed' = "gone" /\ UNCHANGED spoken
     \/ (route = "mute" \/ inHand = <<>>) /\ route # "gone" /\ UNCHANGED <<failed, spoken>>
     \/ route = "text" /\ inHand # <<>> /\ spoken' = inHand /\ UNCHANGED failed
     \/ route = "text" /\ inHand # <<>> /\ failed' = "send" /\ UNCHANGED spoken
  /\ main' = "await"
  /\ UNCHANGED <<route, locked, stop, discard>>
  /\ UNCHANGED <<streaming, consuming, sentences, synthesis, pcm, ending, cancelled>>
-----------------------------------------------------------------------------
(* Back in actStreamWith: the consumer and the stream are over.  An error   *)
(* leaves no trace of what was said.                                        *)
Fail ==
  /\ main = "await"
  /\ consumer = "done" /\ StreamOver
  /\ stream = "failed" \/ failed # "no"
  /\ main' = "over" /\ outcome' = "error"
  /\ UNCHANGED <<recorded, returned, route, locked, failed, spoken, stop, discard>>
  /\ UNCHANGED <<streaming, consuming, sentences, synthesis, pcm, cancelled>>

Streamed ==
  /\ main = "await"
  /\ consumer = "done" /\ stream = "done" /\ failed = "no"
  /\ recorded' = content

(* filterResponse: silence and repetitions are not returned. *)
Answer ==
  /\ Streamed
  /\ ~detected
  /\ returned' \in {content, <<>>}
  /\ main' = "over" /\ outcome' = "text"
  /\ UNCHANGED <<route, locked, failed, spoken, stop, discard>>
  /\ UNCHANGED <<streaming, consuming, sentences, synthesis, pcm, cancelled>>

(* handleToolLoopFallback: skip_response (with or without text) or tools     *)
(* that end the turn return the streamed text; else the batch loop goes on  *)
(* and returns the text of its last completion, or nothing.                 *)
UseTools ==
  /\ Streamed
  /\ detected
  /\ main' = "tools"
  /\ UNCHANGED <<outcome, returned, route, locked, failed, spoken, stop, discard>>
  /\ UNCHANGED <<streaming, consuming, sentences, synthesis, pcm, cancelled>>

ToolsEnd ==
  /\ main = "tools"
  /\ \/ UNCHANGED recorded /\ returned' \in {content, <<>>}
     \/ recorded' = Append(recorded, LoopReply) /\ returned' \in {<<LoopReply>>, <<>>}
  /\ main' = "over" /\ outcome' = "tools"
  /\ UNCHANGED <<route, locked, failed, spoken, stop, discard>>
  /\ UNCHANGED <<streaming, consuming, sentences, synthesis, pcm, cancelled>>
-----------------------------------------------------------------------------
Stream == ProviderSends \/ ProviderEnds \/ StreamCancelled
Consumer == ReceiveChunk \/ ReceiveEnd \/ SendSentence
Synth == SynthTake \/ Synthesize \/ SynthOffer \/ SynthDrain \/ SynthEnd
Worker ==
  \/ \E r \in Route : Respond(r)
  \/ BeginSpeaking \/ SendPcm \/ SpeechEnds \/ EndSpeaking
  \/ Collect \/ Collected
  \/ Fail \/ Answer \/ UseTools \/ ToolsEnd

Next == Cancel \/ Stream \/ Consumer \/ Synth \/ Worker \/ Discard

(* Goroutines keep being scheduled, the provider ends its answer, and calls *)
(* of the synthesizer, the network and the tools return.                    *)
Fairness ==
  /\ WF_vars(Stream) /\ WF_vars(Consumer) /\ WF_vars(Synth)
  /\ WF_vars(Worker) /\ WF_vars(Discard)

Spec == Init /\ [][Next]_vars
FairSpec == Spec /\ Fairness
-----------------------------------------------------------------------------
Pieces == Seq(Piece)

TypeOK ==
  /\ stream \in {"read", "offer", "final", "failed", "done"}
  /\ emitted \in 0..MaxPieces
  /\ heldBack \in Pieces /\ offer \in Pieces
  /\ toolCalls \in BOOLEAN
  /\ consumer \in {"receive", "send", "flush", "done"}
  /\ buf \in Pieces /\ content \in Pieces
  /\ detected \in BOOLEAN
  /\ sentences \in Seq(Pieces) /\ Len(sentences) <= SentenceCap
  /\ synth \in {"off", "take", "synthesize", "offer", "drain", "done"}
  /\ inHand \in Pieces /\ skipped \subseteq Piece
  /\ pcm \in Seq(Pieces) /\ Len(pcm) <= PcmCap
  /\ stop \in BOOLEAN /\ discard \in BOOLEAN
  /\ main \in {"respond", "begin", "speak", "end", "collect", "await", "tools", "over"}
  /\ route \in Route \cup {"none"}
  /\ locked \in BOOLEAN
  /\ locked <=> route = "voice" /\ main \in {"speak", "end"}
  /\ failed \in {"no", "begin", "send", "gone", "silent"}
  /\ spoken \in Pieces
  /\ outcome \in {"none", "error", "text", "tools"}
  /\ recorded \in Seq(1..LoopReply) /\ returned \in Seq(1..LoopReply)
  /\ cancelled \in BOOLEAN

(* The listener hears the answer in the order the LLM wrote it, no piece     *)
(* twice, whatever is held back, synthesized ahead, skipped or cancelled.   *)
SpokenInOrder ==
  \A i, j \in DOMAIN spoken : i < j => spoken[i] < spoken[j]

(* The conversation remembers as the agent's words what was said, no more:  *)
(* when the streamed answer is recorded without an error, all of it was     *)
(* spoken but for sentences the synthesizer failed on.  Promised on Discord  *)
(* until shutdown.                                                         *)
RecordedWasSaid ==
  outcome = "text" /\ ~cancelled /\ route \notin {"web", "mute"}
    => Range(recorded) = Range(spoken) \cup skipped

Over ==
  /\ main = "over"
  /\ ~locked
  /\ StreamOver
  /\ consumer = "done" /\ synth \in {"off", "done"}

(* Every turn ends, with the encoder free for the next one and no goroutine *)
(* left behind, however the provider, the synthesizer, the connection or    *)
(* shutdown interfere: whoever gives up keeps receiving.                    *)
TurnEnds == <>[]Over

(* "Streamed sessions already sent the response via RespondStream"          *)
(* (agent_run.go:255): what the turn returns was heard or skipped.  The text *)
(* of a tool loop that follows the stream is returned the same way, taken   *)
(* for said, and never sent.                                                *)
ReturnedWasSaid ==
  main = "over" /\ ~cancelled => Range(returned) \subseteq Range(spoken) \cup skipped

(* The same for an answer without tools: on the web a sentence for which no  *)
(* client was left counts as sent, if another one was.                      *)
StreamedWasSaid ==
  outcome = "text" /\ ~cancelled => Range(returned) \subseteq Range(spoken) \cup skipped

(* "Falls back to completeWithToolsUsing when a tool call occurs"           *)
(* (act_stream.go:18): the tools are used unless something failed.  On the  *)
(* web an answer of tool calls only has no sentence, which is taken for     *)
(* "no client connected", an error.                                         *)
ToolsUsed ==
  outcome = "error" /\ detected => stream = "failed" \/ failed \in {"begin", "send", "gone"}

(* "Undetermined text left in tagBuf is output as content too" when the     *)
(* stream ends (stream.go:132-133): it is in the final chunk, whose content *)
(* the consumer does not use.                                               *)
NothingHeldBack ==
  outcome \in {"text", "tools"} /\ ~cancelled => Len(content) = emitted
=============================================================================
