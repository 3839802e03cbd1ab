--------------------------- MODULE VoiceTurn_proof ---------------------------
(***************************************************************************)
(* Proofs about VoiceTurn, for every length of the answer and every         *)
(* capacity of the channels: types, order, what is remembered, and that the *)
(* goroutines of a turn neither go round for ever nor block each other.     *)
(***************************************************************************)
EXTENDS VoiceTurn, SequenceFacts, TLAPS

-----------------------------------------------------------------------------
(* Types.  Only a voice route begins to speak: the encoder is taken nowhere *)
(* else.                                                                    *)
Typed == TypeOK /\ (main = "begin" => route = "voice")

LEMMA AppendPiece ==
  ASSUME NEW s \in Pieces, NEW p \in Piece
  PROVE  s \o <<p>> \in Pieces
BY DEF Pieces

LEMMA ConcatPieces ==
  ASSUME NEW s \in Pieces, NEW t \in Pieces
  PROVE  s \o t \in Pieces
BY DEF Pieces

LEMMA NoPieces == <<>> \in Pieces /\ <<>> \in Seq(Pieces) /\ Len(<<>>) = 0
BY DEF Pieces

LEMMA QueueSend ==
  ASSUME NEW q \in Seq(Pieces), NEW s \in Pieces
  PROVE  Append(q, s) \in Seq(Pieces) /\ Len(Append(q, s)) = Len(q) + 1
OBVIOUS

LEMMA QueueReceive ==
  ASSUME NEW q \in Seq(Pieces), q # <<>>
  PROVE  /\ Head(q) \in Pieces /\ Tail(q) \in Seq(Pieces)
         /\ Len(Tail(q)) = Len(q) - 1
OBVIOUS

LEMMA Reply ==
  /\ \A s \in Pieces : s \in Seq(1..LoopReply)
  /\ <<LoopReply>> \in Seq(1..LoopReply)
  /\ \A s \in Seq(1..LoopReply) : Append(s, LoopReply) \in Seq(1..LoopReply)
<1>1. MaxPieces \in Nat /\ LoopReply = MaxPieces + 1
  BY BoundAssumption DEF LoopReply
<1>2. Piece \subseteq 1..LoopReply /\ LoopReply \in 1..LoopReply
  BY <1>1 DEF Piece
<1>3. ASSUME NEW s \in Pieces PROVE s \in Seq(1..LoopReply)
  <2>1. s \in Seq(Piece) BY DEF Pieces
  <2>2. QED BY <2>1, <1>2, SeqMonotonic
<1>4. QED BY <1>2, <1>3

LEMMA TypedInit == Init => Typed
<1>1. SUFFICES ASSUME Init PROVE Typed OBVIOUS
<1>2. 0 <= SentenceCap /\ 0 <= PcmCap /\ 0 \in 0..MaxPieces
  BY CapAssumption, BoundAssumption
<1>3. <<>> \in Seq(1..LoopReply)
  OBVIOUS
<1>4. QED BY <1>1, <1>2, <1>3, NoPieces DEF Init, Typed, TypeOK

LEMMA TypedStep == Typed /\ [Next]_vars => Typed'
<1>1. SUFFICES ASSUME Typed, [Next]_vars PROVE Typed'
  OBVIOUS
<1> USE <1>1 DEF Typed
<1> USE DEF streaming, consuming, synthesis, ending, speaking
<1>2. CASE ProviderSends
  <2>1. emitted' \in 0..MaxPieces /\ emitted' \in Piece
    BY <1>2, BoundAssumption DEF ProviderSends, TypeOK, Piece
  <2>2. Release(emitted') \in Pieces
    BY <2>1, AppendPiece DEF Release, TypeOK
  <2>3. QED BY <1>2, <2>1, <2>2, NoPieces DEF ProviderSends, TypeOK
<1>3. CASE Cancel \/ ProviderEnds \/ StreamCancelled
  <2>1. CASE Cancel BY <2>1 DEF Cancel, TypeOK
  <2>2. CASE ProviderEnds BY <2>2 DEF ProviderEnds, TypeOK
  <2>3. CASE StreamCancelled BY <2>3, NoPieces DEF StreamCancelled, TypeOK
  <2>4. QED BY <1>3, <2>1, <2>2, <2>3
<1>4. CASE ReceiveChunk
  <2>1. content' \in Pieces /\ buf' \in Pieces
    BY <1>4, ConcatPieces DEF ReceiveChunk, TypeOK
  <2>2. QED BY <1>4, <2>1, NoPieces DEF ReceiveChunk, TypeOK
<1>5. CASE ReceiveEnd
  BY <1>5 DEF ReceiveEnd, Flush, StreamOver, TypeOK
<1>6. CASE SendSentence
  <2>1. sentences' \in Seq(Pieces) /\ Len(sentences') <= SentenceCap
    BY <1>6, QueueSend, CapAssumption DEF SendSentence, TypeOK
  <2>2. QED BY <1>6, <2>1, NoPieces DEF SendSentence, TypeOK
<1>7. CASE SynthTake \/ SynthDrain
  <2>1. sentences # <<>> BY <1>7 DEF SynthTake, SynthDrain
  <2>2. /\ Tail(sentences) \in Seq(Pieces) /\ Len(Tail(sentences)) <= SentenceCap
        /\ Head(sentences) \in Pieces
    BY <2>1, QueueReceive, CapAssumption DEF TypeOK
  <2>3. CASE SynthTake BY <2>2, <2>3 DEF SynthTake, TypeOK
  <2>4. CASE SynthDrain BY <2>2, <2>4 DEF SynthDrain, TypeOK
  <2>5. QED BY <1>7, <2>3, <2>4
<1>8. CASE Synthesize
  <2>1. Range(inHand) \subseteq Piece
    BY DEF TypeOK, Pieces, Range
  <2>2. QED BY <1>8, <2>1 DEF Synthesize, TypeOK
<1>9. CASE SynthOffer
  <2>1. /\ Append(pcm, inHand) \in Seq(Pieces)
        /\ Len(Append(pcm, inHand)) = Len(pcm) + 1
    BY QueueSend DEF TypeOK
  <2>2. pcm' \in Seq(Pieces) /\ Len(pcm') <= PcmCap
    <3>1. CASE Len(pcm) < PcmCap /\ pcm' = Append(pcm, inHand)
      BY <2>1, <3>1, CapAssumption DEF TypeOK
    <3>2. CASE UNCHANGED pcm
      BY <3>2 DEF TypeOK
    <3>3. QED BY <1>9, <3>1, <3>2 DEF SynthOffer
  <2>3. QED BY <1>9, <2>2 DEF SynthOffer, GiveUp, TypeOK
<1>10. CASE SynthEnd
  BY <1>10 DEF SynthEnd, TypeOK
<1>11. CASE \E r \in Route : Respond(r)
  <2>1. PICK r \in Route : Respond(r) BY <1>11
  <2>2. ~locked BY <2>1 DEF Respond, TypeOK
  <2>3. QED BY <2>1, <2>2 DEF Respond, TypeOK
<1>12. CASE BeginSpeaking
  <2>1. route = "voice" /\ ~locked
    BY <1>12 DEF BeginSpeaking, TypeOK
  <2>2. \/ main' = "speak" /\ locked' = TRUE
        \/ main' = "await" /\ locked' = FALSE
    BY <1>12, <2>1 DEF BeginSpeaking, TypeOK
  <2>3. /\ failed' \in {"no", "begin", "send", "gone", "silent"}
        /\ stop' \in BOOLEAN /\ discard' \in BOOLEAN
    BY <1>12 DEF BeginSpeaking, TypeOK
  <2>4. /\ locked' \in BOOLEAN
        /\ locked' <=> route' = "voice" /\ main' \in {"speak", "end"}
    BY <1>12, <2>1, <2>2 DEF BeginSpeaking
  <2>5. /\ main' # "begin"
        /\ main' \in {"respond", "begin", "speak", "end", "collect", "await", "tools", "over"}
    BY <2>2
  <2>6. QED BY <1>12, <2>3, <2>4, <2>5 DEF BeginSpeaking, TypeOK
<1>13. CASE SendPcm
  <2>1. /\ Tail(pcm) \in Seq(Pieces) /\ Len(Tail(pcm)) <= PcmCap
        /\ Head(pcm) \in Pieces
    BY <1>13, QueueReceive, CapAssumption DEF SendPcm, TypeOK
  <2>2. spoken \o Head(pcm) \in Pieces
    BY <2>1, ConcatPieces DEF TypeOK
  <2>3. spoken' \in Pieces /\ failed' \in {"no", "begin", "send", "gone", "silent"}
    BY <1>13, <2>2 DEF SendPcm, TypeOK
  <2>4. main' \in {main, "end"} /\ (main' = "end" => route = "voice")
    BY <1>13 DEF SendPcm
  <2>5. stop' \in BOOLEAN /\ discard' \in BOOLEAN
    BY <1>13 DEF SendPcm, TypeOK
  <2>6. QED BY <1>13, <2>1, <2>3, <2>4, <2>5 DEF SendPcm, TypeOK
<1>14. CASE SpeechEnds \/ EndSpeaking
  <2>1. CASE SpeechEnds BY <2>1 DEF SpeechEnds, TypeOK
  <2>2. CASE EndSpeaking
    <3>1. locked' = FALSE /\ main' = "await" BY <2>2 DEF EndSpeaking, Unlocked
    <3>2. /\ locked' \in BOOLEAN
          /\ locked' <=> route' = "voice" /\ main' \in {"speak", "end"}
      BY <3>1
    <3>3. QED BY <2>2, <3>1, <3>2 DEF EndSpeaking, TypeOK
  <2>3. QED BY <1>14, <2>1, <2>2
<1>15. CASE Discard
  <2>1. Tail(pcm) \in Seq(Pieces) /\ Len(Tail(pcm)) <= PcmCap
    BY <1>15, QueueReceive, CapAssumption DEF Discard, TypeOK
  <2>2. QED BY <1>15, <2>1 DEF Discard, TypeOK
<1>16. CASE Collect
  <2>1. /\ Tail(sentences) \in Seq(Pieces) /\ Len(Tail(sentences)) <= SentenceCap
        /\ Head(sentences) \in Pieces
    BY <1>16, QueueReceive, CapAssumption DEF Collect, TypeOK
  <2>2. inHand' \in Pieces
    BY <1>16, <2>1, ConcatPieces, NoPieces DEF Collect, TypeOK
  <2>3. QED BY <1>16, <2>1, <2>2 DEF Collect, TypeOK
<1>17. CASE Collected
  BY <1>17 DEF Collected, TypeOK
<1>18. CASE Fail
  BY <1>18 DEF Fail, TypeOK
<1>19. CASE Answer \/ UseTools
  <2>1. recorded' \in Seq(1..LoopReply) /\ returned' \in Seq(1..LoopReply)
    BY <1>19, Reply, NoPieces DEF Answer, UseTools, Streamed, TypeOK
  <2>2. QED BY <1>19, <2>1 DEF Answer, UseTools, Streamed, TypeOK
<1>20. CASE ToolsEnd
  <2>1. recorded' \in Seq(1..LoopReply) /\ returned' \in Seq(1..LoopReply)
    BY <1>20, Reply, NoPieces DEF ToolsEnd, TypeOK
  <2>2. QED BY <1>20, <2>1 DEF ToolsEnd, TypeOK
<1>21. CASE UNCHANGED vars
  BY <1>21 DEF vars, TypeOK
<1>22. QED
  BY <1>1, <1>2, <1>3, <1>4, <1>5, <1>6, <1>7, <1>8, <1>9, <1>10, <1>11, <1>12,
     <1>13, <1>14, <1>15, <1>16, <1>17, <1>18, <1>19, <1>20, <1>21
     DEF Next, Stream, Consumer, Synth, Worker

LEMMA TypedAlways == Spec => []Typed
  BY TypedInit, TypedStep, PTL DEF Spec

(* Every variable keeps its type, the channels their capacity, and the       *)
(* encoder is held exactly between BeginSpeaking and EndSpeaking.            *)
THEOREM TypeCorrect == Spec => []TypeOK
<1>1. Typed => TypeOK BY DEF Typed
<1>2. QED BY <1>1, TypedAlways, PTL

-----------------------------------------------------------------------------
(* Order.  A queue of sentences is sorted when the sentences are, and each   *)
(* comes before the next ones.                                              *)
Below(A, B) == \A a \in A, b \in B : a < b

Sorted(s) == \A i, j \in DOMAIN s : i < j => s[i] < s[j]

Flat(q) == UNION {Range(q[i]) : i \in DOMAIN q}

SortedQueue(q) ==
  /\ \A i \in DOMAIN q : Sorted(q[i])
  /\ \A i, j \in DOMAIN q : i < j => Below(Range(q[i]), Range(q[j]))

LEMMA SortedEmpty ==
  Sorted(<<>>) /\ SortedQueue(<<>>) /\ Range(<<>>) = {} /\ Flat(<<>>) = {}
BY RangeOfEmpty DEF Sorted, SortedQueue, Flat

LEMMA SortedConcat ==
  ASSUME NEW s \in Pieces, NEW t \in Pieces, Sorted(s), Sorted(t),
         Below(Range(s), Range(t))
  PROVE  /\ Sorted(s \o t)
         /\ Range(s \o t) = Range(s) \cup Range(t)
<1>1. /\ \A i \in DOMAIN s : s[i] \in Range(s)
      /\ \A i \in DOMAIN t : t[i] \in Range(t)
  BY DEF Range
<1>2. Range(s \o t) = Range(s) \cup Range(t)
  BY RangeOfConcat DEF Pieces
<1>3. SUFFICES ASSUME NEW i \in DOMAIN (s \o t), NEW j \in DOMAIN (s \o t), i < j
               PROVE  (s \o t)[i] < (s \o t)[j]
  BY <1>2 DEF Sorted
<1>4. /\ s \in Seq(Piece) /\ t \in Seq(Piece)
      /\ DOMAIN s = 1..Len(s) /\ DOMAIN t = 1..Len(t)
      /\ Len(s) \in Nat /\ Len(t) \in Nat
      /\ DOMAIN (s \o t) = 1..(Len(s) + Len(t))
  BY DEF Pieces
<1>5. CASE j <= Len(s)
  <2>1. i \in DOMAIN s /\ j \in DOMAIN s BY <1>3, <1>4, <1>5
  <2>2. (s \o t)[i] = s[i] /\ (s \o t)[j] = s[j] BY <2>1, <1>4
  <2>3. QED BY <1>3, <2>1, <2>2 DEF Sorted
<1>6. CASE i > Len(s)
  <2>1. i - Len(s) \in DOMAIN t /\ j - Len(s) \in DOMAIN t
    BY <1>3, <1>4, <1>6
  <2>2. (s \o t)[i] = t[i - Len(s)] /\ (s \o t)[j] = t[j - Len(s)]
    BY <1>3, <1>4, <1>6, <2>1
  <2>3. i - Len(s) < j - Len(s) BY <1>3, <1>4
  <2>4. QED BY <2>1, <2>2, <2>3 DEF Sorted
<1>7. CASE i <= Len(s) /\ j > Len(s)
  <2>1. i \in DOMAIN s /\ j - Len(s) \in DOMAIN t BY <1>3, <1>4, <1>7
  <2>2. (s \o t)[i] = s[i] /\ (s \o t)[j] = t[j - Len(s)]
    BY <1>3, <1>4, <1>7, <2>1
  <2>3. QED BY <1>1, <2>1, <2>2 DEF Below
<1>8. QED BY <1>3, <1>4, <1>5, <1>6, <1>7

LEMMA SortedOne == \A p \in Piece : Sorted(<<p>>) /\ Range(<<p>>) = {p}
BY RangeOfSingle DEF Sorted

LEMMA FlatOfAppend ==
  ASSUME NEW q \in Seq(Pieces), NEW s \in Pieces
  PROVE  Flat(Append(q, s)) = Flat(q) \cup Range(s)
<1> DEFINE r == Append(q, s)
           n == Len(q) + 1
<1>1. DOMAIN r = DOMAIN q \cup {n} /\ r[n] = s /\ \A i \in DOMAIN q : r[i] = q[i]
  OBVIOUS
<1>2. QED BY <1>1 DEF Flat

LEMMA FlatOfHead ==
  ASSUME NEW q \in Seq(Pieces), q # <<>>
  PROVE  Flat(q) = Range(Head(q)) \cup Flat(Tail(q))
<1> DEFINE r == Tail(q)
<1>1. /\ 1 \in DOMAIN q /\ Head(q) = q[1]
      /\ \A i \in DOMAIN r : i + 1 \in DOMAIN q /\ r[i] = q[i + 1]
      /\ \A i \in DOMAIN q : i = 1 \/ (i - 1 \in DOMAIN r /\ r[i - 1] = q[i])
  OBVIOUS
<1>2. Flat(q) \subseteq Range(Head(q)) \cup Flat(r)
  BY <1>1 DEF Flat
<1>3. Range(Head(q)) \cup Flat(r) \subseteq Flat(q)
  BY <1>1 DEF Flat
<1>4. QED BY <1>2, <1>3

LEMMA SortedSend ==
  ASSUME NEW q \in Seq(Pieces), NEW s \in Pieces, SortedQueue(q), Sorted(s),
         Below(Flat(q), Range(s))
  PROVE  /\ SortedQueue(Append(q, s))
         /\ Flat(Append(q, s)) = Flat(q) \cup Range(s)
<1> DEFINE r == Append(q, s)
           n == Len(q) + 1
<1>1. /\ DOMAIN r = DOMAIN q \cup {n} /\ r[n] = s
      /\ \A i \in DOMAIN q : r[i] = q[i] /\ i < n
      /\ n \notin DOMAIN q
  OBVIOUS
<1>2. \A i \in DOMAIN q : Range(q[i]) \subseteq Flat(q)
  BY DEF Flat
<1>3. Flat(r) = Flat(q) \cup Range(s)
  BY FlatOfAppend
<1>4. \A i \in DOMAIN r : Sorted(r[i])
  BY <1>1 DEF SortedQueue
<1>5. ASSUME NEW i \in DOMAIN r, NEW j \in DOMAIN r, i < j
      PROVE  Below(Range(r[i]), Range(r[j]))
  <2>1. i \in DOMAIN q
    BY <1>1, <1>5
  <2>2. CASE j \in DOMAIN q
    BY <1>1, <1>5, <2>1, <2>2 DEF SortedQueue
  <2>3. CASE j = n
    BY <1>1, <1>2, <2>1, <2>3 DEF Below
  <2>4. QED BY <1>1, <2>2, <2>3
<1>6. QED BY <1>3, <1>4, <1>5 DEF SortedQueue

LEMMA SortedReceive ==
  ASSUME NEW q \in Seq(Pieces), q # <<>>, SortedQueue(q)
  PROVE  /\ Sorted(Head(q)) /\ SortedQueue(Tail(q))
         /\ Flat(q) = Range(Head(q)) \cup Flat(Tail(q))
         /\ Below(Range(Head(q)), Flat(Tail(q)))
<1> DEFINE r == Tail(q)
<1>1. /\ 1 \in DOMAIN q /\ Head(q) = q[1]
      /\ \A i \in DOMAIN r : i + 1 \in DOMAIN q /\ r[i] = q[i + 1] /\ 1 < i + 1
      /\ \A i \in DOMAIN q : i = 1 \/ (i - 1 \in DOMAIN r /\ r[i - 1] = q[i])
  OBVIOUS
<1>2. \A i, j \in DOMAIN r : i < j => i + 1 < j + 1
  OBVIOUS
<1>3. Sorted(Head(q)) /\ SortedQueue(r)
  BY <1>1, <1>2 DEF SortedQueue
<1>4. Below(Range(Head(q)), Flat(r))
  <2>1. SUFFICES ASSUME NEW a \in Range(Head(q)), NEW b \in Flat(r) PROVE a < b
    BY DEF Below
  <2>2. PICK i \in DOMAIN r : b \in Range(r[i])
    BY DEF Flat
  <2>3. QED BY <1>1, <2>2 DEF SortedQueue, Below
<1>5. QED BY <1>3, <1>4, FlatOfHead

-----------------------------------------------------------------------------
(* The way of a piece, newest stage last: every stage holds older pieces     *)
(* than the stages behind it.  The sentence in hand counts while something   *)
(* may still come of it.                                                    *)
Hand ==
  IF synth \in {"synthesize", "offer"} \/ main = "collect" THEN inHand ELSE <<>>

Chain(a, b, c, d, e, f, g, n) ==
  /\ Below(a, b \cup c \cup d \cup e \cup f \cup g)
  /\ Below(b, c \cup d \cup e \cup f \cup g)
  /\ Below(c, d \cup e \cup f \cup g)
  /\ Below(d, e \cup f \cup g)
  /\ Below(e, f \cup g)
  /\ Below(f, g)
  /\ a \cup b \cup c \cup d \cup e \cup f \cup g \subseteq 1..n

Ordered ==
  /\ Sorted(spoken) /\ SortedQueue(pcm) /\ Sorted(Hand) /\ SortedQueue(sentences)
  /\ Sorted(buf) /\ Sorted(offer) /\ Sorted(heldBack)
  /\ Chain(Range(spoken), Flat(pcm), Range(Hand), Flat(sentences),
           Range(buf), Range(offer), Range(heldBack), emitted)

(* What is not in use is empty: the offer between two sends on out, and,     *)
(* for a worker that collects the sentences itself, the rest.               *)
Unused ==
  /\ stream # "offer" => offer = <<>>
  /\ main \in {"respond", "collect"} => synth = "off" /\ spoken = <<>> /\ pcm = <<>>
  /\ main = "respond" => inHand = <<>>

IInv == Typed /\ Unused /\ Ordered

LEMMA UnusedStep == Typed /\ Unused /\ [Next]_vars => Unused'
<1>1. SUFFICES ASSUME Typed, Unused, [Next]_vars PROVE Unused'
  OBVIOUS
<1> USE <1>1 DEF Unused
<1> USE DEF streaming, consuming, synthesis, ending, speaking
<1>2. CASE Cancel \/ ReceiveEnd \/ SendSentence
  BY <1>2 DEF Cancel, ReceiveEnd, SendSentence, StreamOver
<1>3. CASE ProviderSends \/ ProviderEnds
  BY <1>3 DEF ProviderSends, ProviderEnds
<1>4. CASE StreamCancelled \/ ReceiveChunk
  BY <1>4 DEF StreamCancelled, ReceiveChunk
<1>5. CASE Synth
  BY <1>5 DEF Synth, SynthTake, Synthesize, SynthOffer, SynthDrain, SynthEnd
<1>6. CASE \E r \in Route : Respond(r)
  BY <1>6 DEF Respond
<1>7. CASE BeginSpeaking \/ SpeechEnds \/ EndSpeaking
  BY <1>7 DEF BeginSpeaking, SpeechEnds, EndSpeaking
<1>8. CASE SendPcm
  BY <1>8 DEF SendPcm
<1>9. CASE Collect \/ Collected
  BY <1>9 DEF Collect, Collected
<1>10. CASE Fail \/ Answer \/ UseTools \/ ToolsEnd
  BY <1>10 DEF Fail, Answer, UseTools, ToolsEnd, Streamed
<1>11. CASE Discard
  BY <1>11 DEF Discard
<1>12. CASE UNCHANGED vars
  BY <1>12 DEF vars
<1>13. QED
  BY <1>1, <1>2, <1>3, <1>4, <1>5, <1>6, <1>7, <1>8, <1>9, <1>10, <1>11, <1>12
     DEF Next, Stream, Consumer, Worker

(* A step keeps the order if it loses pieces, or moves the oldest ones of a  *)
(* stage to the one ahead of it.                                            *)
LEMMA ChainLoses ==
  ASSUME NEW a, NEW b, NEW c, NEW d, NEW e, NEW f, NEW g, NEW n,
         NEW a1, NEW b1, NEW c1, NEW d1, NEW e1, NEW f1, NEW g1,
         Chain(a, b, c, d, e, f, g, n),
         a1 \subseteq a, b1 \subseteq b, c1 \subseteq c, d1 \subseteq d,
         e1 \subseteq e, f1 \subseteq f, g1 \subseteq g
  PROVE  Chain(a1, b1, c1, d1, e1, f1, g1, n)
BY DEF Chain, Below

LEMMA ChainMoves ==
  ASSUME NEW a, NEW b, NEW c, NEW d, NEW e, NEW f, NEW g, NEW n,
         NEW x, NEW y, Below(x, y)
  PROVE  /\ Chain(a, x \cup y, c, d, e, f, g, n) => Chain(a \cup x, y, c, d, e, f, g, n)
         /\ Chain(a, b, x \cup y, d, e, f, g, n) => Chain(a, b \cup x, y, d, e, f, g, n)
         /\ Chain(a, b, c, x \cup y, e, f, g, n) => Chain(a, b, c \cup x, y, e, f, g, n)
         /\ Chain(a, b, c, d, x \cup y, f, g, n) => Chain(a, b, c, d \cup x, y, f, g, n)
         /\ Chain(a, b, c, d, e, x \cup y, g, n) => Chain(a, b, c, d, e \cup x, y, g, n)
         /\ Chain(a, b, c, d, e, f, x \cup y, n) => Chain(a, b, c, d, e, f \cup x, y, n)
<1>1. Chain(a, x \cup y, c, d, e, f, g, n) => Chain(a \cup x, y, c, d, e, f, g, n)
  BY DEF Chain, Below
<1>2. Chain(a, b, x \cup y, d, e, f, g, n) => Chain(a, b \cup x, y, d, e, f, g, n)
  BY DEF Chain, Below
<1>3. Chain(a, b, c, x \cup y, e, f, g, n) => Chain(a, b, c \cup x, y, e, f, g, n)
  BY DEF Chain, Below
<1>4. Chain(a, b, c, d, x \cup y, f, g, n) => Chain(a, b, c, d \cup x, y, f, g, n)
  BY DEF Chain, Below
<1>5. Chain(a, b, c, d, e, x \cup y, g, n) => Chain(a, b, c, d, e \cup x, y, g, n)
  BY DEF Chain, Below
<1>6. Chain(a, b, c, d, e, f, x \cup y, n) => Chain(a, b, c, d, e, f \cup x, y, n)
  BY DEF Chain, Below
<1>7. QED BY <1>1, <1>2, <1>3, <1>4, <1>5, <1>6

LEMMA ChainMovesAll ==
  ASSUME NEW a, NEW b, NEW c, NEW d, NEW e, NEW f, NEW g, NEW n,
         Chain(a, b, c, d, e, f, g, n)
  PROVE  /\ Chain(a, b \cup c, {}, d, e, f, g, n)
         /\ Chain(a, b, c, d \cup e, {}, f, g, n)
         /\ Chain(a, b, c, d, e \cup f, {}, g, n)
         /\ f = {} => Chain(a, b, c, d, e, g, {}, n)
<1>1. Chain(a, b \cup c, {}, d, e, f, g, n)
  BY DEF Chain, Below
<1>2. Chain(a, b, c, d \cup e, {}, f, g, n)
  BY DEF Chain, Below
<1>3. Chain(a, b, c, d, e \cup f, {}, g, n)
  BY DEF Chain, Below
<1>4. f = {} => Chain(a, b, c, d, e, g, {}, n)
  BY DEF Chain, Below
<1>5. QED BY <1>1, <1>2, <1>3, <1>4

(* The newest piece goes behind all the others. *)
LEMMA ChainGrows ==
  ASSUME NEW a, NEW b, NEW c, NEW d, NEW e, NEW f, NEW g, NEW n \in Nat,
         Chain(a, b, c, d, e, f, g, n)
  PROVE  Chain(a, b, c, d, e, f, g \cup {n + 1}, n + 1)
BY DEF Chain, Below

LEMMA OrderedInit == Init => Ordered
BY SortedEmpty DEF Init, Ordered, Hand, Chain, Below

(* A step that leaves every stage as it is, or only loses the hand. *)
LEMMA OrderedSame ==
  ASSUME Ordered, UNCHANGED <<spoken, pcm, sentences, buf, offer, heldBack, emitted>>,
         Hand' \in {Hand, <<>>}
  PROVE  Ordered'
<1>1. Sorted(Hand') /\ Range(Hand') \subseteq Range(Hand)
  BY SortedEmpty DEF Ordered
<1>2. Chain(Range(spoken'), Flat(pcm'), Range(Hand'), Flat(sentences'),
            Range(buf'), Range(offer'), Range(heldBack'), emitted')
  BY <1>1, ChainLoses DEF Ordered
<1>3. QED BY <1>1, <1>2 DEF Ordered

LEMMA OrderedStream ==
  ASSUME Typed, Unused, Ordered, ProviderSends \/ StreamCancelled
  PROVE  Ordered'
<1> USE DEF streaming, consuming, synthesis, ending, speaking
<1>1. UNCHANGED <<spoken, pcm, Hand, sentences, buf>>
  BY DEF ProviderSends, StreamCancelled, Hand
<1>2. CASE StreamCancelled
  <2>1. Sorted(offer') /\ Range(offer') = {}
    BY <1>2, SortedEmpty DEF StreamCancelled
  <2>2. UNCHANGED <<heldBack, emitted>> BY <1>2 DEF StreamCancelled
  <2>3. Chain(Range(spoken), Flat(pcm), Range(Hand), Flat(sentences),
              Range(buf), Range(offer'), Range(heldBack), emitted)
    BY <2>1, ChainLoses DEF Ordered
  <2>4. QED BY <1>1, <2>1, <2>2, <2>3 DEF Ordered
<1>3. CASE ProviderSends
  <2> DEFINE p == emitted + 1
             r == heldBack \o <<p>>
  <2>1. /\ p \in Piece /\ emitted \in Nat /\ emitted' = p
        /\ heldBack \in Pieces /\ <<p>> \in Pieces
    BY <1>3, BoundAssumption DEF ProviderSends, Typed, TypeOK, Piece, Pieces
  <2>2. Range(offer) = {} /\ offer = <<>>
    BY <1>3, SortedEmpty DEF ProviderSends, Unused
  <2>3. Below(Range(heldBack), {p})
    BY <2>1 DEF Ordered, Chain, Below
  <2>4. Sorted(r) /\ Range(r) = Range(heldBack) \cup {p}
    BY <2>1, <2>3, SortedOne, SortedConcat DEF Ordered
  <2>5. Chain(Range(spoken), Flat(pcm), Range(Hand), Flat(sentences),
              Range(buf), Range(offer), Range(r), p)
    BY <2>1, <2>4, ChainGrows DEF Ordered
  <2>6. CASE heldBack' = r /\ offer' = offer
    BY <1>1, <2>1, <2>4, <2>5, <2>6 DEF Ordered
  <2>7. CASE offer' = r /\ heldBack' = <<>>
    <3>1. Chain(Range(spoken), Flat(pcm), Range(Hand), Flat(sentences),
                Range(buf), Range(r), {}, p)
      BY <2>2, <2>5, ChainMovesAll
    <3>2. QED BY <1>1, <2>1, <2>4, <2>7, <3>1, SortedEmpty DEF Ordered
  <2>8. QED BY <1>3, <2>6, <2>7 DEF ProviderSends, Release
<1>4. QED BY <1>2, <1>3

LEMMA OrderedChunk ==
  ASSUME Typed, Ordered, ReceiveChunk
  PROVE  Ordered'
<1> USE DEF streaming, consuming, synthesis, ending, speaking
<1>1. UNCHANGED <<spoken, pcm, Hand, sentences, heldBack, emitted>>
  BY DEF ReceiveChunk, Hand
<1>2. buf' = buf \o offer /\ offer' = <<>>
  BY DEF ReceiveChunk
<1>3. Below(Range(buf), Range(offer))
  BY DEF Ordered, Chain, Below
<1>4. Sorted(buf') /\ Range(buf') = Range(buf) \cup Range(offer)
  BY <1>2, <1>3, SortedConcat DEF Ordered, Typed, TypeOK
<1>5. Sorted(offer') /\ Range(offer') = {}
  BY <1>2, SortedEmpty
<1>6. Chain(Range(spoken), Flat(pcm), Range(Hand), Flat(sentences),
            Range(buf'), Range(offer'), Range(heldBack), emitted)
  <2>1. Chain(Range(spoken), Flat(pcm), Range(Hand), Flat(sentences),
              Range(buf) \cup Range(offer), {}, Range(heldBack), emitted)
    BY ChainMovesAll DEF Ordered
  <2>2. QED BY <1>4, <1>5, <2>1
<1>7. QED BY <1>1, <1>4, <1>5, <1>6 DEF Ordered

LEMMA OrderedSentence ==
  ASSUME Typed, Ordered, SendSentence
  PROVE  Ordered'
<1> USE DEF streaming, consuming, synthesis, ending, speaking
<1>1. UNCHANGED <<spoken, pcm, Hand, offer, heldBack, emitted>>
  BY DEF SendSentence, Hand
<1>2. sentences' = Append(sentences, buf) /\ buf' = <<>>
  BY DEF SendSentence
<1>3. Below(Flat(sentences), Range(buf))
  BY DEF Ordered, Chain, Below
<1>4. SortedQueue(sentences') /\ Flat(sentences') = Flat(sentences) \cup Range(buf)
  BY <1>2, <1>3, SortedSend DEF Ordered, Typed, TypeOK
<1>5. Sorted(buf') /\ Range(buf') = {}
  BY <1>2, SortedEmpty
<1>6. Chain(Range(spoken), Flat(pcm), Range(Hand), Flat(sentences'),
            Range(buf'), Range(offer), Range(heldBack), emitted)
  <2>1. Chain(Range(spoken), Flat(pcm), Range(Hand), Flat(sentences) \cup Range(buf),
              {}, Range(offer), Range(heldBack), emitted)
    BY ChainMovesAll DEF Ordered
  <2>2. QED BY <1>4, <1>5, <2>1
<1>7. QED BY <1>1, <1>4, <1>5, <1>6 DEF Ordered

(* Sentences are taken in hand one at a time, or collected, or dropped. *)
LEMMA OrderedTake ==
  ASSUME Typed, Unused, Ordered, SynthTake \/ SynthDrain \/ Collect
  PROVE  Ordered'
<1> USE DEF streaming, consuming, synthesis, ending, speaking
<1> DEFINE h == Head(sentences)
           t == Tail(sentences)
<1>1. UNCHANGED <<spoken, pcm, buf, offer, heldBack, emitted>>
  BY DEF SynthTake, SynthDrain, Collect
<1>2. sentences # <<>> /\ sentences' = t
  BY DEF SynthTake, SynthDrain, Collect
<1>3. h \in Pieces /\ Hand \in Pieces
  BY <1>2, QueueReceive, NoPieces DEF Typed, TypeOK, Hand
<1>4. /\ Sorted(h) /\ SortedQueue(t) /\ Below(Range(h), Flat(t))
      /\ Flat(sentences) = Range(h) \cup Flat(t)
  BY <1>2, SortedReceive DEF Ordered, Typed, TypeOK
<1>5. Below(Range(Hand), Range(h))
  BY <1>4 DEF Ordered, Chain, Below
<1>6. Sorted(Hand \o h) /\ Range(Hand \o h) = Range(Hand) \cup Range(h)
  BY <1>3, <1>4, <1>5, SortedConcat DEF Ordered
<1>7. Chain(Range(spoken), Flat(pcm), Range(Hand) \cup Range(h), Flat(t),
            Range(buf), Range(offer), Range(heldBack), emitted)
  BY <1>4, ChainMoves DEF Ordered
<1>8. Hand' \in {Hand \o h, h, Hand, <<>>}
  BY <1>2 DEF SynthTake, SynthDrain, Collect, Hand, Unused
<1>9. Sorted(Hand') /\ Range(Hand') \subseteq Range(Hand) \cup Range(h)
  BY <1>4, <1>6, <1>8, SortedEmpty DEF Ordered
<1>10. Chain(Range(spoken), Flat(pcm), Range(Hand'), Flat(t),
             Range(buf), Range(offer), Range(heldBack), emitted)
  BY <1>7, <1>9, ChainLoses
<1>11. QED BY <1>1, <1>2, <1>4, <1>9, <1>10 DEF Ordered

LEMMA OrderedOffer ==
  ASSUME Typed, Unused, Ordered, SynthOffer
  PROVE  Ordered'
<1> USE DEF streaming, consuming, synthesis, ending, speaking
<1>1. UNCHANGED <<spoken, sentences, buf, offer, heldBack, emitted>>
  BY DEF SynthOffer
<1>2. Hand = inHand /\ Hand' = <<>>
  BY DEF SynthOffer, Hand, GiveUp, Unused
<1>3. CASE UNCHANGED pcm
  BY <1>1, <1>2, <1>3, OrderedSame
<1>4. CASE pcm' = Append(pcm, inHand)
  <2>1. Below(Flat(pcm), Range(Hand))
    BY DEF Ordered, Chain, Below
  <2>2. SortedQueue(pcm') /\ Flat(pcm') = Flat(pcm) \cup Range(Hand)
    BY <1>2, <1>4, <2>1, SortedSend DEF Ordered, Typed, TypeOK
  <2>3. Sorted(Hand') /\ Range(Hand') = {}
    BY <1>2, SortedEmpty
  <2>4. Chain(Range(spoken), Flat(pcm'), Range(Hand'), Flat(sentences),
              Range(buf), Range(offer), Range(heldBack), emitted)
    <3>1. Chain(Range(spoken), Flat(pcm) \cup Range(Hand), {}, Flat(sentences),
                Range(buf), Range(offer), Range(heldBack), emitted)
      BY ChainMovesAll DEF Ordered
    <3>2. QED BY <2>2, <2>3, <3>1
  <2>5. QED BY <1>1, <2>2, <2>3, <2>4 DEF Ordered
<1>5. QED BY <1>3, <1>4 DEF SynthOffer

(* What is sent, or discarded, leaves the queue from its head. *)
LEMMA OrderedSpeak ==
  ASSUME Typed, Unused, Ordered, SendPcm \/ Discard
  PROVE  Ordered'
<1> USE DEF streaming, consuming, synthesis, ending, speaking
<1> DEFINE h == Head(pcm)
           t == Tail(pcm)
<1>1. UNCHANGED <<sentences, buf, offer, heldBack, emitted>>
  BY DEF SendPcm, Discard
<1>2. pcm # <<>> /\ pcm' = t /\ spoken' \in {spoken, spoken \o h}
  BY DEF SendPcm, Discard
<1>3. Hand' = Hand
  BY DEF SendPcm, Discard, Hand
<1>4. h \in Pieces /\ spoken \in Pieces
  BY <1>2, QueueReceive DEF Typed, TypeOK
<1>5. /\ Sorted(h) /\ SortedQueue(t) /\ Below(Range(h), Flat(t))
      /\ Flat(pcm) = Range(h) \cup Flat(t)
  BY <1>2, SortedReceive DEF Ordered, Typed, TypeOK
<1>6. Below(Range(spoken), Range(h))
  BY <1>5 DEF Ordered, Chain, Below
<1>7. Sorted(spoken \o h) /\ Range(spoken \o h) = Range(spoken) \cup Range(h)
  BY <1>4, <1>5, <1>6, SortedConcat DEF Ordered
<1>8. Chain(Range(spoken) \cup Range(h), Flat(t), Range(Hand), Flat(sentences),
            Range(buf), Range(offer), Range(heldBack), emitted)
  BY <1>5, ChainMoves DEF Ordered
<1>9. Sorted(spoken') /\ Range(spoken') \subseteq Range(spoken) \cup Range(h)
  BY <1>2, <1>7 DEF Ordered
<1>10. Chain(Range(spoken'), Flat(t), Range(Hand), Flat(sentences),
             Range(buf), Range(offer), Range(heldBack), emitted)
  BY <1>8, <1>9, ChainLoses
<1>11. QED BY <1>1, <1>2, <1>3, <1>5, <1>9, <1>10 DEF Ordered

(* What was collected becomes a message, with nothing sent before it. *)
LEMMA OrderedCollected ==
  ASSUME Typed, Unused, Ordered, Collected
  PROVE  Ordered'
<1> USE DEF streaming, consuming, synthesis, ending, speaking
<1>1. UNCHANGED <<pcm, sentences, buf, offer, heldBack, emitted>>
  BY DEF Collected
<1>2. /\ pcm = <<>> /\ spoken = <<>> /\ Hand = inHand /\ Hand' = <<>>
      /\ spoken' \in {spoken, inHand}
  BY DEF Collected, Hand, Unused
<1>3. Flat(pcm) = {} /\ Range(spoken) = {} /\ Sorted(Hand') /\ Range(Hand') = {}
  BY <1>2, SortedEmpty
<1>4. Sorted(spoken') /\ Range(spoken') \subseteq Range(Hand)
  BY <1>2, <1>3 DEF Ordered
<1>5. Chain(Range(Hand), {}, {}, Flat(sentences),
            Range(buf), Range(offer), Range(heldBack), emitted)
  BY <1>3 DEF Ordered, Chain, Below
<1>6. Chain(Range(spoken'), Flat(pcm), Range(Hand'), Flat(sentences),
            Range(buf), Range(offer), Range(heldBack), emitted)
  BY <1>3, <1>4, <1>5, ChainLoses
<1>7. QED BY <1>1, <1>3, <1>4, <1>6 DEF Ordered

LEMMA OrderedStep == IInv /\ [Next]_vars => Ordered'
<1>1. SUFFICES ASSUME Typed, Unused, Ordered, [Next]_vars PROVE Ordered'
  BY DEF IInv
<1> USE <1>1
<1> USE DEF streaming, consuming, synthesis, ending, speaking
<1>2. CASE ProviderSends \/ StreamCancelled BY <1>2, OrderedStream
<1>3. CASE ReceiveChunk BY <1>3, OrderedChunk
<1>4. CASE SendSentence BY <1>4, OrderedSentence
<1>5. CASE SynthTake \/ SynthDrain \/ Collect BY <1>5, OrderedTake
<1>6. CASE SynthOffer BY <1>6, OrderedOffer
<1>7. CASE SendPcm \/ Discard BY <1>7, OrderedSpeak
<1>8. CASE Collected BY <1>8, OrderedCollected
<1>9. CASE Cancel \/ ProviderEnds \/ ReceiveEnd
  <2>1. UNCHANGED <<spoken, pcm, sentences, buf, offer, heldBack, emitted, Hand>>
    BY <1>9 DEF Cancel, ProviderEnds, ReceiveEnd, StreamOver, Hand
  <2>2. QED BY <2>1, OrderedSame
<1>10. CASE Synthesize \/ SynthEnd
  <2>1. UNCHANGED <<spoken, pcm, sentences, buf, offer, heldBack, emitted>>
    BY <1>10 DEF Synthesize, SynthEnd
  <2>2. Hand' \in {Hand, <<>>}
    BY <1>10 DEF Synthesize, SynthEnd, Hand, Unused
  <2>3. QED BY <2>1, <2>2, OrderedSame
<1>11. CASE \E r \in Route : Respond(r)
  <2>1. UNCHANGED <<spoken, pcm, sentences, buf, offer, heldBack, emitted>>
    BY <1>11 DEF Respond
  <2>2. Hand' \in {Hand, <<>>}
    BY <1>11 DEF Respond, Hand, Unused
  <2>3. QED BY <2>1, <2>2, OrderedSame
<1>12. CASE BeginSpeaking \/ SpeechEnds \/ EndSpeaking
  <2>1. UNCHANGED <<spoken, pcm, sentences, buf, offer, heldBack, emitted, Hand>>
    BY <1>12 DEF BeginSpeaking, SpeechEnds, EndSpeaking, Hand
  <2>2. QED BY <2>1, OrderedSame
<1>13. CASE Fail \/ Answer \/ UseTools \/ ToolsEnd
  <2>1. UNCHANGED <<spoken, pcm, sentences, buf, offer, heldBack, emitted, Hand>>
    BY <1>13 DEF Fail, Answer, UseTools, ToolsEnd, Streamed, Hand
  <2>2. QED BY <2>1, OrderedSame
<1>14. CASE UNCHANGED vars
  <2>1. UNCHANGED <<spoken, pcm, sentences, buf, offer, heldBack, emitted, Hand>>
    BY <1>14 DEF vars, Hand
  <2>2. QED BY <2>1, OrderedSame
<1>15. QED
  BY <1>1, <1>2, <1>3, <1>4, <1>5, <1>6, <1>7, <1>8, <1>9, <1>10, <1>11, <1>12,
     <1>13, <1>14 DEF Next, Stream, Consumer, Synth, Worker

LEMMA Invariant == Spec => []IInv
<1>1. Init => IInv
  BY TypedInit, OrderedInit DEF IInv, Init, Unused
<1>2. IInv /\ [Next]_vars => IInv'
  BY TypedStep, UnusedStep, OrderedStep DEF IInv
<1>3. QED BY <1>1, <1>2, PTL DEF Spec

(* The listener hears the answer in the order it was written and no piece     *)
(* twice, on every route, whatever fails or is cancelled on the way.         *)
THEOREM HeardInOrder == Spec => []SpokenInOrder
<1>1. IInv => SpokenInOrder
  BY DEF IInv, Ordered, Sorted, SpokenInOrder
<1>2. QED BY <1>1, Invariant, PTL
-----------------------------------------------------------------------------
(* Every piece of the answer the consumer got is somewhere, as long as        *)
(* nothing failed and shutdown did not come.                                *)
Promised == failed = "no" /\ ~cancelled /\ route \notin {"web", "mute", "gone"}

Whole ==
  Range(content) =
    Range(spoken) \cup Flat(pcm) \cup Range(Hand) \cup Flat(sentences) \cup Range(buf) \cup skipped

(* Which way RespondStream took, and what it does not use. *)
Routed ==
  /\ main = "respond" <=> route = "none"
  /\ main \in {"begin", "end"} => route = "voice"
  /\ main = "speak" => route \in {"voice", "web"}
  /\ main = "collect" => route \in {"text", "mute", "gone"}
  /\ route = "text" => synth = "off" /\ pcm = <<>>

Ended ==
  /\ consumer = "done" => buf = <<>>
  /\ synth = "done" => consumer = "done" /\ sentences = <<>>

Steady ==
  Promised =>
    /\ ~stop /\ ~discard /\ synth # "drain"
    /\ main \in {"end", "await", "tools", "over"} =>
         consumer = "done" /\ sentences = <<>> /\ pcm = <<>> /\ synth \in {"off", "done"}

Told ==
  /\ route = "gone" /\ main \in {"await", "tools", "over"} => failed = "gone"
  /\ outcome = "text" =>
       main = "over" /\ failed = "no" /\ consumer = "done" /\ recorded = content

Control == Routed /\ Ended /\ Steady /\ Told
Kept == Control /\ (Promised => Whole)

LEMMA ControlStep == IInv /\ Control /\ [Next]_vars => Control'
<1>1. SUFFICES ASSUME IInv, Control, [Next]_vars PROVE Control'
  OBVIOUS
<1>0. Typed /\ Unused /\ TypeOK BY <1>1 DEF IInv, Typed
<1> USE <1>1, <1>0 DEF Control
<1> USE DEF streaming, consuming, synthesis, ending, speaking, Promised
<1>2. CASE Cancel
  BY <1>2 DEF Cancel, Routed, Ended, Steady, Told
<1>3. CASE ProviderSends \/ ProviderEnds \/ StreamCancelled
  BY <1>3 DEF ProviderSends, ProviderEnds, StreamCancelled, Routed, Ended, Steady, Told
<1>4. CASE ReceiveChunk
  BY <1>4 DEF ReceiveChunk, Routed, Ended, Steady, Told
<1>5. CASE ReceiveEnd
  BY <1>5 DEF ReceiveEnd, Flush, Routed, Ended, Steady, Told
<1>6. CASE SendSentence
  BY <1>6 DEF SendSentence, Routed, Ended, Steady, Told
<1>7. CASE SynthTake
  BY <1>7 DEF SynthTake, Stopped, Routed, Ended, Steady, Told
<1>8. CASE Synthesize
  BY <1>8 DEF Synthesize, Routed, Ended, Steady, Told
<1>9. CASE SynthOffer
  BY <1>9 DEF SynthOffer, GiveUp, Stopped, Routed, Ended, Steady, Told
<1>10. CASE SynthDrain
  BY <1>10 DEF SynthDrain, Routed, Ended, Steady, Told
<1>11. CASE SynthEnd
  BY <1>11 DEF SynthEnd, Routed, Ended, Steady, Told
<1>12. CASE \E r \in Route : Respond(r)
  <2>1. PICK r \in Route : Respond(r) BY <1>12
  <2>2. r # "none" /\ r \in AllRoutes BY RouteAssumption DEF AllRoutes
  <2>3. QED
    BY <2>1, <2>2 DEF Respond, Unused, AllRoutes, Routed, Ended, Steady, Told
<1>13. CASE BeginSpeaking
  BY <1>13 DEF BeginSpeaking, Routed, Ended, Steady, Told
<1>14. CASE SendPcm
  BY <1>14 DEF SendPcm, Routed, Ended, Steady, Told
<1>15. CASE SpeechEnds
  BY <1>15 DEF SpeechEnds, Routed, Ended, Steady, Told
<1>16. CASE EndSpeaking
  BY <1>16 DEF EndSpeaking, Routed, Ended, Steady, Told
<1>17. CASE Discard
  BY <1>17 DEF Discard, Routed, Ended, Steady, Told
<1>18. CASE Collect
  BY <1>18 DEF Collect, Routed, Ended, Steady, Told
<1>19. CASE Collected
  BY <1>19 DEF Collected, Unused, Routed, Ended, Steady, Told
<1>20. CASE Fail
  BY <1>20 DEF Fail, Routed, Ended, Steady, Told
<1>21. CASE Answer
  BY <1>21 DEF Answer, Streamed, Routed, Ended, Steady, Told
<1>22. CASE UseTools
  BY <1>22 DEF UseTools, Streamed, Routed, Ended, Steady, Told
<1>23. CASE ToolsEnd
  BY <1>23 DEF ToolsEnd, Routed, Ended, Steady, Told
<1>24. CASE UNCHANGED vars
  BY <1>24 DEF vars, Routed, Ended, Steady, Told
<1>25. QED
  BY <1>1, <1>2, <1>3, <1>4, <1>5, <1>6, <1>7, <1>8, <1>9, <1>10, <1>11, <1>12,
     <1>13, <1>14, <1>15, <1>16, <1>17, <1>18, <1>19, <1>20, <1>21, <1>22, <1>23, <1>24
     DEF Next, Stream, Consumer, Synth, Worker

LEMMA WholeStep == IInv /\ Kept /\ [Next]_vars => (Promised => Whole)'
<1>1. SUFFICES ASSUME IInv, Kept, [Next]_vars, Promised' PROVE Whole'
  OBVIOUS
<1>0. Typed /\ Unused /\ TypeOK /\ Routed /\ Steady BY <1>1 DEF IInv, Typed, Kept, Control
<1>2. Promised
  BY <1>1, <1>0
     DEF Next, Stream, Consumer, Synth, Worker, Cancel, ProviderSends, ProviderEnds,
         StreamCancelled, ReceiveChunk, ReceiveEnd, SendSentence, SynthTake, Synthesize,
         SynthOffer, SynthDrain, SynthEnd, Respond, BeginSpeaking, SendPcm, SpeechEnds,
         EndSpeaking, Collect, Collected, Fail, Answer, UseTools, ToolsEnd, Streamed, Discard,
         streaming, consuming, synthesis, ending, speaking, vars, Promised, Routed
<1>3. Whole /\ ~stop /\ ~discard /\ ~cancelled /\ synth # "drain" /\ failed = "no" /\ failed' = "no"
  BY <1>0, <1>1, <1>2 DEF Kept, Steady, Promised
<1>4. route' \notin {"web", "mute", "gone"} /\ route \notin {"web", "mute", "gone"}
  BY <1>1, <1>2 DEF Promised
<1> USE <1>0, <1>3, <1>4
<1> USE DEF streaming, consuming, synthesis, ending, speaking
<1>5. /\ \A t \in Seq(Pieces), e \in Pieces : Flat(Append(t, e)) = Flat(t) \cup Range(e)
      /\ \A t \in Seq(Pieces) :
           t # <<>> => Head(t) \in Pieces /\ Flat(t) = Range(Head(t)) \cup Flat(Tail(t))
      /\ \A t, e \in Pieces : Range(t \o e) = Range(t) \cup Range(e)
      /\ Range(<<>>) = {} /\ Flat(<<>>) = {}
  <2>1. \A t, e \in Pieces : Range(t \o e) = Range(t) \cup Range(e)
    BY RangeOfConcat DEF Pieces
  <2>2. QED BY <2>1, FlatOfAppend, FlatOfHead, QueueReceive, SortedEmpty
<1>6. /\ pcm \in Seq(Pieces) /\ sentences \in Seq(Pieces)
      /\ spoken \in Pieces /\ inHand \in Pieces /\ buf \in Pieces /\ offer \in Pieces
      /\ content \in Pieces
  BY DEF TypeOK
<1>7. CASE ReceiveChunk
  <2>1. /\ Range(content') = Range(content) \cup Range(offer)
        /\ Range(buf') = Range(buf) \cup Range(offer)
    BY <1>5, <1>6, <1>7 DEF ReceiveChunk
  <2>2. UNCHANGED <<spoken, pcm, sentences, skipped, Hand>> BY <1>7 DEF ReceiveChunk, Hand
  <2>3. QED BY <2>1, <2>2 DEF Whole
<1>8. CASE SendSentence
  <2>1. Flat(sentences') = Flat(sentences) \cup Range(buf) /\ Range(buf') = {}
    BY <1>5, <1>6, <1>8 DEF SendSentence
  <2>2. UNCHANGED <<spoken, pcm, content, skipped, Hand>> BY <1>8 DEF SendSentence, Hand
  <2>3. QED BY <2>1, <2>2 DEF Whole
<1>9. CASE SynthTake
  <2>1. Hand = <<>> BY <1>9 DEF SynthTake, Hand, Unused
  <2>2. Hand' = Head(sentences) BY <1>9 DEF SynthTake, Stopped, Hand
  <2>3. Flat(sentences) = Range(Hand') \cup Flat(sentences') /\ Range(Hand) = {}
    BY <1>5, <1>6, <1>9, <2>1, <2>2 DEF SynthTake
  <2>4. UNCHANGED <<spoken, pcm, buf, content, skipped>> BY <1>9 DEF SynthTake
  <2>5. QED BY <2>3, <2>4 DEF Whole
<1>10. CASE Synthesize
  <2>1. Hand = inHand /\ main # "collect" BY <1>10 DEF Synthesize, Hand, Unused
  <2>2. UNCHANGED <<spoken, pcm, sentences, buf, content, main>> BY <1>10 DEF Synthesize
  <2>3. CASE synth' = "offer" /\ UNCHANGED skipped
    <3>1. Hand' = Hand BY <1>10, <2>1, <2>3 DEF Synthesize, Hand
    <3>2. QED BY <2>2, <2>3, <3>1 DEF Whole
  <2>4. CASE synth' = "take" /\ skipped' = skipped \cup Range(inHand)
    <3>1. Hand' = <<>> BY <2>1, <2>2, <2>4 DEF Hand
    <3>2. QED BY <1>5, <2>1, <2>2, <2>4, <3>1 DEF Whole
  <2>5. QED BY <1>10, <2>3, <2>4 DEF Synthesize
<1>11. CASE SynthOffer
  <2>1. /\ Hand = inHand /\ main # "collect" /\ UNCHANGED main
        /\ pcm' = Append(pcm, inHand) /\ synth' = "take"
    BY <1>11 DEF SynthOffer, Stopped, Hand, Unused
  <2>2. Hand' = <<>> BY <2>1 DEF Hand
  <2>3. Flat(pcm') = Flat(pcm) \cup Range(Hand) /\ Range(Hand') = {}
    BY <1>5, <1>6, <2>1, <2>2
  <2>4. UNCHANGED <<spoken, sentences, buf, content, skipped>> BY <1>11 DEF SynthOffer
  <2>5. QED BY <2>3, <2>4 DEF Whole
<1>12. CASE SendPcm
  <2>1. spoken' = spoken \o Head(pcm) /\ pcm' = Tail(pcm) /\ pcm # <<>> BY <1>12 DEF SendPcm
  <2>2. Range(spoken') \cup Flat(pcm') = Range(spoken) \cup Flat(pcm)
    BY <1>5, <1>6, <2>1
  <2>3. UNCHANGED <<sentences, buf, content, skipped, Hand>> BY <1>12 DEF SendPcm, Hand
  <2>4. QED BY <2>2, <2>3 DEF Whole
<1>13. CASE Collect
  <2>1. route = "text" BY <1>13 DEF Collect, Routed
  <2>2. Hand = inHand /\ Hand' = inHand \o Head(sentences) BY <1>13, <2>1 DEF Collect, Hand
  <2>3. Range(Hand') \cup Flat(sentences') = Range(Hand) \cup Flat(sentences)
    BY <1>5, <1>6, <1>13, <2>2 DEF Collect
  <2>4. UNCHANGED <<spoken, pcm, buf, content, skipped>> BY <1>13 DEF Collect
  <2>5. QED BY <2>3, <2>4 DEF Whole
<1>14. CASE Collected
  <2>1. spoken = <<>> /\ synth = "off" /\ UNCHANGED synth /\ main' # "collect"
    BY <1>14 DEF Collected, Unused
  <2>2. Hand = inHand /\ Hand' = <<>> BY <1>14, <2>1 DEF Collected, Hand
  <2>3. spoken' = inHand BY <1>14, <2>1 DEF Collected
  <2>4. UNCHANGED <<pcm, sentences, buf, content, skipped>> BY <1>14 DEF Collected
  <2>5. QED BY <1>5, <2>1, <2>2, <2>3, <2>4 DEF Whole
<1>15. CASE \E r \in Route : Respond(r)
  <2>1. UNCHANGED <<spoken, pcm, sentences, buf, content, skipped>> BY <1>15 DEF Respond
  <2>2. Hand = <<>> /\ Hand' = <<>> BY <1>15 DEF Respond, Hand, Unused
  <2>3. QED BY <2>1, <2>2 DEF Whole
<1>16. CASE SynthEnd
  <2>1. UNCHANGED <<spoken, pcm, sentences, buf, content, skipped, Hand>>
    BY <1>16 DEF SynthEnd, Hand
  <2>2. QED BY <2>1 DEF Whole
<1>17. CASE Cancel \/ ProviderSends \/ ProviderEnds \/ StreamCancelled \/ ReceiveEnd
  <2>1. UNCHANGED <<spoken, pcm, sentences, buf, content, skipped, Hand>>
    BY <1>17 DEF Cancel, ProviderSends, ProviderEnds, StreamCancelled, ReceiveEnd, Hand
  <2>2. QED BY <2>1 DEF Whole
<1>18. CASE BeginSpeaking \/ SpeechEnds \/ EndSpeaking
  <2>1. UNCHANGED <<spoken, pcm, sentences, buf, content, skipped, Hand>>
    BY <1>18 DEF BeginSpeaking, SpeechEnds, EndSpeaking, Hand
  <2>2. QED BY <2>1 DEF Whole
<1>19. CASE Fail \/ Answer \/ UseTools \/ ToolsEnd
  <2>1. UNCHANGED <<spoken, pcm, sentences, buf, content, skipped, Hand>>
    BY <1>19 DEF Fail, Answer, UseTools, ToolsEnd, Streamed, Hand
  <2>2. QED BY <2>1 DEF Whole
<1>20. CASE UNCHANGED vars
  <2>1. UNCHANGED <<spoken, pcm, sentences, buf, content, skipped, Hand>>
    BY <1>20 DEF vars, Hand
  <2>2. QED BY <2>1 DEF Whole
<1>21. ~SynthDrain /\ ~Discard BY DEF SynthDrain, Discard
<1>22. QED
  BY <1>1, <1>7, <1>8, <1>9, <1>10, <1>11, <1>12, <1>13, <1>14, <1>15, <1>16, <1>17,
     <1>18, <1>19, <1>20, <1>21 DEF Next, Stream, Consumer, Synth, Worker

(* What a turn by voice or by text remembers as its answer was said, but for   *)
(* what the synthesizer failed on, for every length of the answer.           *)
THEOREM RememberedWasSaid == Spec => []RecordedWasSaid
<1>1. Init => Kept
  <2>1. SUFFICES ASSUME Init PROVE Kept OBVIOUS
  <2>2. Control BY <2>1 DEF Init, Control, Routed, Ended, Steady, Told
  <2>3. Hand = <<>> BY <2>1 DEF Init, Hand
  <2>4. Whole BY <2>1, <2>3, SortedEmpty DEF Init, Whole
  <2>5. QED BY <2>2, <2>4 DEF Kept
<1>2. IInv /\ Kept /\ [Next]_vars => Kept'
  BY ControlStep, WholeStep DEF Kept
<1>3. IInv /\ Kept => RecordedWasSaid
  <2>1. SUFFICES ASSUME IInv, Kept, outcome = "text", ~cancelled, route \notin {"web", "mute"}
                 PROVE  Range(recorded) = Range(spoken) \cup skipped
    BY DEF RecordedWasSaid
  <2>2. main = "over" /\ failed = "no" /\ recorded = content /\ route # "gone"
    BY <2>1 DEF Kept, Control, Told
  <2>3. Promised BY <2>1, <2>2 DEF Promised
  <2>4. Whole /\ sentences = <<>> /\ pcm = <<>> /\ synth \in {"off", "done"} /\ buf = <<>>
    BY <2>1, <2>2, <2>3 DEF Kept, Control, Steady, Ended
  <2>5. Hand = <<>> BY <2>2, <2>4 DEF Hand
  <2>6. QED BY <2>2, <2>4, <2>5, SortedEmpty DEF Whole
<1>4. QED BY <1>1, <1>2, <1>3, Invariant, PTL DEF Spec
-----------------------------------------------------------------------------
(* How many steps a turn can still take: a bound that every step makes       *)
(* smaller.  A piece is sent, received, put into a sentence, taken,          *)
(* synthesized, offered and spoken, and between two pieces a goroutine goes  *)
(* through its states in one direction; a step of one stage is worth more    *)
(* than all it makes the stages behind it do.                               *)
StreamLeft ==
  48 * (MaxPieces - emitted)
    + (IF stream = "offer" THEN 36 ELSE IF stream = "read" THEN 24
       ELSE IF stream = "final" THEN 12 ELSE 0)
ConsumerLeft ==
  IF consumer = "send" THEN 33 ELSE IF consumer = "receive" THEN 22
  ELSE IF consumer = "flush" THEN 11 ELSE 0
SynthLeft ==
  10 * Len(sentences)
    + (IF synth = "synthesize" THEN 8 ELSE IF synth = "offer" THEN 6
       ELSE IF synth = "take" THEN 4 ELSE IF synth = "drain" THEN 2 ELSE 0)
WorkerLeft ==
  IF main = "respond" THEN 30 ELSE IF main = "begin" THEN 25
  ELSE IF main \in {"speak", "collect"} THEN 20 ELSE IF main = "end" THEN 15
  ELSE IF main = "await" THEN 10 ELSE IF main = "tools" THEN 5 ELSE 0
CancelLeft == IF cancelled THEN 0 ELSE 1

StepsLeft == StreamLeft + ConsumerLeft + SynthLeft + Len(pcm) + WorkerLeft + CancelLeft

(* Who can go on: the guards of the actions, but for Cancel. *)
StreamCan ==
  \/ stream = "read"
  \/ cancelled /\ stream \in {"offer", "final"}
ConsumerCan ==
  \/ consumer = "receive" /\ (stream \in {"offer", "final"} \/ StreamOver)
  \/ consumer \in {"send", "flush"} /\ Len(sentences) < SentenceCap
SynthCan ==
  \/ synth \in {"take", "drain"} /\ (sentences # <<>> \/ consumer = "done")
  \/ synth = "synthesize"
  \/ synth = "offer" /\ (Len(pcm) < PcmCap \/ Stopped)
WorkerCan ==
  \/ main \in {"respond", "begin", "end", "tools"}
  \/ main = "speak" /\ (pcm # <<>> \/ synth = "done")
  \/ main = "collect" /\ (sentences # <<>> \/ consumer = "done")
  \/ main = "await" /\ consumer = "done" /\ StreamOver
DiscardCan == discard /\ pcm # <<>>
CanGoOn == StreamCan \/ ConsumerCan \/ SynthCan \/ WorkerCan \/ DiscardCan

(* A turn takes boundedly many steps, and while it is not over somebody can  *)
(* take one.                                                                *)
StepsRunOut == [][StepsLeft' < StepsLeft]_vars
NeverStuck == CanGoOn \/ Over

LEMMA Lengths ==
  ASSUME Typed
  PROVE  /\ Len(sentences) \in Nat /\ Len(pcm) \in Nat
         /\ emitted \in 0..MaxPieces /\ MaxPieces \in Nat
         /\ SentenceCap \in Nat \ {0} /\ PcmCap \in Nat \ {0}
         /\ sentences = <<>> <=> Len(sentences) = 0
         /\ pcm = <<>> <=> Len(pcm) = 0
BY CapAssumption, BoundAssumption DEF Typed, TypeOK

Counted ==
  /\ StreamLeft \in Nat /\ ConsumerLeft \in Nat /\ SynthLeft \in Nat
  /\ WorkerLeft \in Nat /\ CancelLeft \in Nat /\ Len(pcm) \in Nat

LEMMA LeftNat == Typed => Counted
<1>1. SUFFICES ASSUME Typed PROVE Counted OBVIOUS
<1>2. StreamLeft \in Nat BY <1>1, Lengths DEF StreamLeft
<1>3. SynthLeft \in Nat BY <1>1, Lengths DEF SynthLeft
<1>4. ConsumerLeft \in Nat /\ WorkerLeft \in Nat /\ CancelLeft \in Nat
  BY DEF ConsumerLeft, WorkerLeft, CancelLeft
<1>5. QED BY <1>1, <1>2, <1>3, <1>4, Lengths DEF Counted

LEMMA StepsLeftNat == Typed => StepsLeft \in Nat
  BY LeftNat DEF Counted, StepsLeft

LEMMA StepCosts ==
  ASSUME Typed, Next
  PROVE  StepsLeft' < StepsLeft
<1> USE DEF streaming, consuming, synthesis, ending, speaking
<1>1. Typed' BY TypedStep
<1>2. Counted BY LeftNat
<1>3. Counted' BY <1>1, LeftNat, PTL
<1>4. CASE Cancel
  <2>1. CancelLeft = 1 /\ CancelLeft' = 0 BY <1>4 DEF Cancel, CancelLeft
  <2>2. /\ StreamLeft' = StreamLeft /\ ConsumerLeft' = ConsumerLeft /\ SynthLeft' = SynthLeft
        /\ WorkerLeft' = WorkerLeft /\ Len(pcm)' = Len(pcm)
    BY <1>4 DEF Cancel, StreamLeft, ConsumerLeft, SynthLeft, WorkerLeft
  <2>3. QED BY <1>2, <1>3, <2>1, <2>2 DEF Counted, StepsLeft
<1>5. CASE Stream
  <2>1. StreamLeft' < StreamLeft
    <3>1. CASE ProviderSends
      BY <3>1, Lengths DEF ProviderSends, StreamLeft
    <3>2. CASE ProviderEnds
      BY <3>2, Lengths DEF ProviderEnds, StreamLeft
    <3>3. CASE StreamCancelled
      BY <3>3, Lengths DEF StreamCancelled, StreamLeft
    <3>4. QED BY <1>5, <3>1, <3>2, <3>3 DEF Stream
  <2>2. /\ ConsumerLeft' = ConsumerLeft /\ SynthLeft' = SynthLeft
        /\ WorkerLeft' = WorkerLeft /\ Len(pcm)' = Len(pcm) /\ CancelLeft' = CancelLeft
    BY <1>5 DEF Stream, ProviderSends, ProviderEnds, StreamCancelled,
       ConsumerLeft, SynthLeft, WorkerLeft, CancelLeft
  <2>3. QED BY <1>2, <1>3, <2>1, <2>2 DEF Counted, StepsLeft
<1>6. CASE ReceiveChunk
  <2>1. StreamLeft' = StreamLeft - 12 BY <1>6, Lengths DEF ReceiveChunk, StreamLeft
  <2>2. ConsumerLeft' <= ConsumerLeft + 11 BY <1>6 DEF ReceiveChunk, ConsumerLeft
  <2>3. /\ SynthLeft' = SynthLeft /\ WorkerLeft' = WorkerLeft /\ Len(pcm)' = Len(pcm)
        /\ CancelLeft' = CancelLeft
    BY <1>6 DEF ReceiveChunk, SynthLeft, WorkerLeft, CancelLeft
  <2>4. QED BY <1>2, <1>3, <2>1, <2>2, <2>3 DEF Counted, StepsLeft
<1>7. CASE ReceiveEnd
  <2>1. StreamLeft' = StreamLeft \/ StreamLeft' = StreamLeft - 12
    BY <1>7, Lengths DEF ReceiveEnd, StreamOver, StreamLeft
  <2>2. ConsumerLeft' <= ConsumerLeft - 11 BY <1>7 DEF ReceiveEnd, Flush, ConsumerLeft
  <2>3. /\ SynthLeft' = SynthLeft /\ WorkerLeft' = WorkerLeft /\ Len(pcm)' = Len(pcm)
        /\ CancelLeft' = CancelLeft
    BY <1>7 DEF ReceiveEnd, SynthLeft, WorkerLeft, CancelLeft
  <2>4. CASE StreamLeft' = StreamLeft
    BY <1>2, <1>3, <2>2, <2>3, <2>4 DEF Counted, StepsLeft
  <2>5. CASE StreamLeft' = StreamLeft - 12
    BY <1>2, <1>3, <2>2, <2>3, <2>5 DEF Counted, StepsLeft
  <2>6. QED BY <2>1, <2>4, <2>5
<1>8. CASE SendSentence
  <2>1. ConsumerLeft' = ConsumerLeft - 11 BY <1>8 DEF SendSentence, ConsumerLeft
  <2>2. SynthLeft' = SynthLeft + 10
    <3>1. sentences \in Seq(Pieces) /\ buf \in Pieces BY DEF Typed, TypeOK
    <3>2. Len(sentences') = Len(sentences) + 1
      BY <1>8, <3>1, QueueSend DEF SendSentence
    <3>3. QED BY <1>8, <3>2, Lengths DEF SendSentence, SynthLeft
  <2>3. /\ StreamLeft' = StreamLeft /\ WorkerLeft' = WorkerLeft /\ Len(pcm)' = Len(pcm)
        /\ CancelLeft' = CancelLeft
    BY <1>8 DEF SendSentence, StreamLeft, WorkerLeft, CancelLeft
  <2>4. QED BY <1>2, <1>3, <2>1, <2>2, <2>3 DEF Counted, StepsLeft
<1>9. CASE Synth
  <2>1. /\ StreamLeft' = StreamLeft /\ ConsumerLeft' = ConsumerLeft /\ WorkerLeft' = WorkerLeft
        /\ CancelLeft' = CancelLeft
    BY <1>9 DEF Synth, SynthTake, Synthesize, SynthOffer, SynthDrain, SynthEnd,
       StreamLeft, ConsumerLeft, WorkerLeft, CancelLeft
  <2>2. \/ SynthLeft' < SynthLeft /\ Len(pcm)' = Len(pcm)
        \/ SynthLeft' = SynthLeft - 2 /\ Len(pcm)' = Len(pcm) + 1
    <3>1. CASE SynthTake \/ SynthDrain
      <4>1. sentences # <<>> /\ sentences' = Tail(sentences) /\ UNCHANGED pcm
        BY <3>1 DEF SynthTake, SynthDrain
      <4>2. Len(sentences') = Len(sentences) - 1
        BY <4>1, QueueReceive DEF Typed, TypeOK
      <4>3. QED BY <3>1, <4>1, <4>2, Lengths DEF SynthTake, SynthDrain, SynthLeft
    <3>2. CASE Synthesize
      BY <3>2, Lengths DEF Synthesize, SynthLeft
    <3>3. CASE SynthOffer
      <4>1. Len(Append(pcm, inHand)) = Len(pcm) + 1 BY QueueSend DEF Typed, TypeOK
      <4>2. QED BY <3>3, <4>1, Lengths DEF SynthOffer, GiveUp, SynthLeft
    <3>4. CASE SynthEnd
      BY <3>4, Lengths DEF SynthEnd, SynthLeft
    <3>5. QED BY <1>9, <3>1, <3>2, <3>3, <3>4 DEF Synth
  <2>3. QED BY <1>2, <1>3, <2>1, <2>2 DEF Counted, StepsLeft
<1>10. CASE \E r \in Route : Respond(r)
  <2>1. PICK r \in Route : Respond(r) BY <1>10
  <2>2. WorkerLeft' <= WorkerLeft - 5 BY <2>1 DEF Respond, WorkerLeft
  <2>3. SynthLeft' <= SynthLeft + 4 BY <2>1, Lengths DEF Respond, SynthLeft
  <2>4. /\ StreamLeft' = StreamLeft /\ ConsumerLeft' = ConsumerLeft /\ Len(pcm)' = Len(pcm)
        /\ CancelLeft' = CancelLeft
    BY <2>1 DEF Respond, StreamLeft, ConsumerLeft, CancelLeft
  <2>5. QED BY <1>2, <1>3, <2>2, <2>3, <2>4 DEF Counted, StepsLeft
<1>11. CASE SendPcm \/ Discard
  <2>1. pcm # <<>> /\ pcm' = Tail(pcm) BY <1>11 DEF SendPcm, Discard
  <2>2. Len(pcm)' = Len(pcm) - 1 BY <2>1, QueueReceive DEF Typed, TypeOK
  <2>3. WorkerLeft' <= WorkerLeft BY <1>11 DEF SendPcm, Discard, WorkerLeft
  <2>4. /\ StreamLeft' = StreamLeft /\ ConsumerLeft' = ConsumerLeft /\ SynthLeft' = SynthLeft
        /\ CancelLeft' = CancelLeft
    BY <1>11 DEF SendPcm, Discard, StreamLeft, ConsumerLeft, SynthLeft, CancelLeft
  <2>5. QED BY <1>2, <1>3, <2>2, <2>3, <2>4 DEF Counted, StepsLeft
<1>12. CASE Collect
  <2>1. Len(sentences') = Len(sentences) - 1
    BY <1>12, QueueReceive DEF Collect, Typed, TypeOK
  <2>2. SynthLeft' < SynthLeft BY <1>12, <2>1, Lengths DEF Collect, SynthLeft
  <2>3. /\ StreamLeft' = StreamLeft /\ ConsumerLeft' = ConsumerLeft /\ WorkerLeft' = WorkerLeft
        /\ Len(pcm)' = Len(pcm) /\ CancelLeft' = CancelLeft
    BY <1>12 DEF Collect, StreamLeft, ConsumerLeft, WorkerLeft, CancelLeft
  <2>4. QED BY <1>2, <1>3, <2>2, <2>3 DEF Counted, StepsLeft
<1>13. CASE BeginSpeaking \/ SpeechEnds \/ EndSpeaking \/ Collected \/ Fail \/ Answer \/ UseTools \/ ToolsEnd
  <2>1. /\ WorkerLeft' < WorkerLeft
        /\ UNCHANGED <<stream, emitted, consumer, sentences, synth, pcm, cancelled>>
    <3>1. CASE BeginSpeaking BY <3>1 DEF BeginSpeaking, WorkerLeft
    <3>2. CASE SpeechEnds BY <3>2 DEF SpeechEnds, WorkerLeft
    <3>3. CASE EndSpeaking BY <3>3 DEF EndSpeaking, WorkerLeft
    <3>4. CASE Collected BY <3>4 DEF Collected, WorkerLeft
    <3>5. CASE Fail BY <3>5 DEF Fail, WorkerLeft
    <3>6. CASE Answer BY <3>6 DEF Answer, Streamed, WorkerLeft
    <3>7. CASE UseTools BY <3>7 DEF UseTools, Streamed, WorkerLeft
    <3>8. CASE ToolsEnd BY <3>8 DEF ToolsEnd, WorkerLeft
    <3>9. QED BY <1>13, <3>1, <3>2, <3>3, <3>4, <3>5, <3>6, <3>7, <3>8
  <2>2. /\ StreamLeft' = StreamLeft /\ ConsumerLeft' = ConsumerLeft /\ SynthLeft' = SynthLeft
        /\ Len(pcm)' = Len(pcm) /\ CancelLeft' = CancelLeft
    BY <2>1 DEF StreamLeft, ConsumerLeft, SynthLeft, CancelLeft
  <2>3. QED BY <1>2, <1>3, <2>1, <2>2 DEF Counted, StepsLeft
<1>14. QED
  BY <1>4, <1>5, <1>6, <1>7, <1>8, <1>9, <1>10, <1>11, <1>12, <1>13
     DEF Next, Consumer, Worker

(* Every step of a turn makes the number of steps it can still take smaller: *)
(* no goroutine goes round in circles, whatever fails and whenever shutdown  *)
(* comes.                                                                   *)
THEOREM TurnRunsOut == Spec => StepsRunOut
<1>1. Typed /\ [Next]_vars => [StepsLeft' < StepsLeft]_vars
  BY StepCosts
<1>2. QED BY <1>1, TypedAlways, PTL DEF Spec, StepsRunOut

(* So a turn takes at most 48 steps per piece of the answer, and 77 more. *)
THEOREM TurnIsShort == Spec => [](StepsLeft \in 0..(48 * MaxPieces + 77))
<1> DEFINE Short == StepsLeft \in 0..(48 * MaxPieces + 77)
<1>0. 48 * MaxPieces + 77 \in Nat BY BoundAssumption
<1>1. Init => Short
  BY BoundAssumption
     DEF Init, StepsLeft, StreamLeft, ConsumerLeft, SynthLeft, WorkerLeft, CancelLeft
<1>2. Typed /\ Short /\ [Next]_vars => Short'
  <2>1. SUFFICES ASSUME Typed, Short, [Next]_vars PROVE Short' OBVIOUS
  <2>2. (StepsLeft \in Nat)'
    <3>1. Typed' BY <2>1, TypedStep
    <3>2. QED BY <3>1, StepsLeftNat, PTL
  <2>3. CASE Next BY <1>0, <2>1, <2>2, <2>3, StepCosts
  <2>4. CASE UNCHANGED vars
    BY <2>1, <2>4 DEF vars, streaming, consuming, synthesis, speaking,
       StepsLeft, StreamLeft, ConsumerLeft, SynthLeft, WorkerLeft, CancelLeft
  <2>5. QED BY <2>1, <2>3, <2>4
<1>3. QED BY <1>1, <1>2, TypedAlways, PTL DEF Spec

(* Somebody is always there to receive: the synth goroutine is over before   *)
(* the speaking is, unless it was told to stop, and without one the worker   *)
(* collects the sentences to the last.                                      *)
Attended ==
  /\ main \in {"end", "await", "tools", "over"} => stop \/ synth \in {"off", "done"}
  /\ main \in {"tools", "over"} => consumer = "done" /\ StreamOver
  /\ consumer \in {"flush", "done"} => StreamOver
  /\ main \in {"begin", "speak"} => synth # "off"
  /\ synth = "off" /\ main \notin {"respond", "collect"} => consumer = "done" /\ sentences = <<>>
  /\ discard <=> stop

Live == Typed /\ Unused /\ Routed /\ Ended /\ Attended

LEMMA AttendedStep == Live /\ [Next]_vars => Attended'
<1>1. SUFFICES ASSUME Live, [Next]_vars PROVE Attended'
  OBVIOUS
<1>0. TypeOK BY <1>1 DEF Live, Typed
<1> USE <1>1, <1>0 DEF Live
<1> USE DEF streaming, consuming, synthesis, ending, speaking, StreamOver
<1>2. CASE Cancel
  BY <1>2 DEF Cancel, Attended
<1>3. CASE ProviderSends \/ ProviderEnds \/ StreamCancelled
  BY <1>3 DEF ProviderSends, ProviderEnds, StreamCancelled, Attended
<1>4. CASE ReceiveChunk
  BY <1>4 DEF ReceiveChunk, Attended
<1>5. CASE ReceiveEnd
  BY <1>5 DEF ReceiveEnd, Flush, Attended
<1>6. CASE SendSentence
  BY <1>6 DEF SendSentence, Attended
<1>7. CASE SynthTake
  BY <1>7 DEF SynthTake, Attended
<1>8. CASE Synthesize
  BY <1>8 DEF Synthesize, Attended
<1>9. CASE SynthOffer
  BY <1>9 DEF SynthOffer, GiveUp, Attended
<1>10. CASE SynthDrain
  BY <1>10 DEF SynthDrain, Attended
<1>11. CASE SynthEnd
  BY <1>11 DEF SynthEnd, Attended
<1>12. CASE \E r \in Route : Respond(r)
  <2>1. PICK r \in Route : Respond(r) BY <1>12
  <2>2. QED BY <2>1 DEF Respond, Attended
<1>13. CASE BeginSpeaking
  BY <1>13 DEF BeginSpeaking, Attended
<1>14. CASE SendPcm
  BY <1>14 DEF SendPcm, Attended
<1>15. CASE SpeechEnds
  BY <1>15 DEF SpeechEnds, Attended
<1>16. CASE EndSpeaking
  BY <1>16 DEF EndSpeaking, Attended
<1>17. CASE Discard
  BY <1>17 DEF Discard, Attended
<1>18. CASE Collect
  BY <1>18 DEF Collect, Unused, Attended
<1>19. CASE Collected
  BY <1>19 DEF Collected, Unused, Attended
<1>20. CASE Fail
  BY <1>20 DEF Fail, Attended
<1>21. CASE Answer
  BY <1>21 DEF Answer, Streamed, Attended
<1>22. CASE UseTools
  BY <1>22 DEF UseTools, Streamed, Attended
<1>23. CASE ToolsEnd
  BY <1>23 DEF ToolsEnd, Attended
<1>24. CASE UNCHANGED vars
  BY <1>24 DEF vars, Attended
<1>25. QED
  BY <1>1, <1>2, <1>3, <1>4, <1>5, <1>6, <1>7, <1>8, <1>9, <1>10, <1>11, <1>12,
     <1>13, <1>14, <1>15, <1>16, <1>17, <1>18, <1>19, <1>20, <1>21, <1>22, <1>23, <1>24
     DEF Next, Stream, Consumer, Synth, Worker

LEMMA LiveAlways == Spec => []Live
<1>1. Init => IInv /\ Control /\ Attended
  <2>1. SUFFICES ASSUME Init PROVE IInv /\ Control /\ Attended OBVIOUS
  <2>2. IInv BY <2>1, TypedInit, OrderedInit DEF IInv, Init, Unused
  <2>3. Control BY <2>1 DEF Init, Control, Routed, Ended, Steady, Told
  <2>4. Attended BY <2>1 DEF Init, Attended
  <2>5. QED BY <2>2, <2>3, <2>4
<1>2. IInv /\ Control => Typed /\ Unused /\ Routed /\ Ended
  BY DEF IInv, Control
<1>3. IInv /\ Control /\ Attended /\ [Next]_vars => (IInv /\ Control /\ Attended)'
  BY <1>2, TypedStep, UnusedStep, OrderedStep, ControlStep, AttendedStep DEF IInv, Live
<1>4. IInv /\ Control /\ Attended => Live
  BY <1>2 DEF Live
<1>5. QED BY <1>1, <1>3, <1>4, PTL DEF Spec

(* Nobody waits for somebody who waits for him: in every state some goroutine *)
(* can go on, or the turn is over, the encoder is free and no goroutine is    *)
(* left.  With TurnRunsOut: a turn that goes on as long as it can ends so,    *)
(* which is TurnEnds but for the scheduler.                                 *)
THEOREM NobodyBlocked == Spec => []NeverStuck
<1>1. Live => NeverStuck
  <2>1. SUFFICES ASSUME Live, ~CanGoOn PROVE Over BY DEF NeverStuck
  <2>0. /\ Typed /\ Unused /\ Routed /\ Ended /\ Attended /\ TypeOK
    BY <2>1 DEF Live, Typed
  <2>2. main \in {"speak", "collect", "await", "over"}
    BY <2>0, <2>1 DEF CanGoOn, WorkerCan, TypeOK
  <2>3. stream # "read" BY <2>1 DEF CanGoOn, StreamCan
  <2>4. CASE consumer # "done"
    <3>1. consumer \in {"send", "flush"} /\ Len(sentences) >= SentenceCap
      BY <2>0, <2>1, <2>3, <2>4, Lengths DEF CanGoOn, ConsumerCan, StreamOver, TypeOK
    <3>2. sentences # <<>> BY <2>0, <3>1, Lengths
    <3>3. main # "collect" BY <2>1, <3>2 DEF CanGoOn, WorkerCan
    <3>4. synth # "off" BY <2>0, <2>2, <2>4, <3>3 DEF Attended
    <3>5. synth = "offer"
      BY <2>0, <2>1, <2>4, <3>2, <3>4 DEF CanGoOn, SynthCan, Ended, TypeOK
    <3>6. Len(pcm) >= PcmCap /\ ~Stopped
      BY <2>0, <2>1, <3>5, Lengths DEF CanGoOn, SynthCan
    <3>7. pcm # <<>> BY <2>0, <3>6, Lengths
    <3>8. main # "speak" BY <2>1, <3>7 DEF CanGoOn, WorkerCan
    <3>9. stop BY <2>0, <2>2, <3>3, <3>5, <3>8 DEF Attended
    <3>10. QED BY <3>6, <3>9 DEF Stopped
  <2>5. CASE consumer = "done"
    <3>1. synth \in {"off", "done", "offer"}
      BY <2>0, <2>1, <2>5 DEF CanGoOn, SynthCan, TypeOK
    <3>2. synth # "offer"
      <4>1. SUFFICES ASSUME synth = "offer" PROVE FALSE OBVIOUS
      <4>2. Len(pcm) >= PcmCap /\ ~Stopped
        BY <2>0, <2>1, <4>1, Lengths DEF CanGoOn, SynthCan
      <4>3. pcm # <<>> BY <2>0, <4>2, Lengths
      <4>4. main # "speak" BY <2>1, <4>3 DEF CanGoOn, WorkerCan
      <4>5. main # "collect" BY <2>0, <4>1 DEF Unused
      <4>6. stop BY <2>0, <2>2, <4>1, <4>4, <4>5 DEF Attended
      <4>7. QED BY <4>2, <4>6 DEF Stopped
    <3>3. main # "collect" BY <2>1, <2>5 DEF CanGoOn, WorkerCan
    <3>4. main # "speak"
      BY <2>0, <2>1, <3>1, <3>2 DEF Attended, CanGoOn, WorkerCan
    <3>5. StreamOver BY <2>0, <2>5 DEF Attended
    <3>6. main = "over"
      BY <2>1, <2>2, <2>5, <3>3, <3>4, <3>5 DEF CanGoOn, WorkerCan
    <3>7. QED BY <2>0, <2>5, <3>1, <3>2, <3>5, <3>6 DEF Over, TypeOK
  <2>6. QED BY <2>4, <2>5
<1>2. QED BY <1>1, LiveAlways, PTL
=============================================================================
