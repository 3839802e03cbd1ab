---------------------------- MODULE ToolLoop_proof ----------------------------
(***************************************************************************)
(* Proofs about ToolLoop, for every set of texts and tools, any number of   *)
(* calls in a response, every limit of completions and any number of turns: *)
(* types, effects, results and requests, what is shown and said, and that a *)
(* turn runs out and is never stuck.                                        *)
(***************************************************************************)
EXTENDS ToolLoop, SequenceFacts, FiniteSetTheorems, Integers, TLAPS

Position ==
  /\ at \in {"skip", "run", "apply"} => next <= Len(calls) + 1
  /\ at = "ask" => calls = NoCalls

(* Execution: what comes before the batch is over, what comes after it waits. *)
Executed ==
  at = "run" => \A k \in DOMAIN calls :
    /\ k < next => Finished(k)
    /\ k >= next /\ k \notin Batch => slot[k] = "waiting"

(* The last call that may have had an effect. *)
Reached ==
  IF at = "skip" THEN base + next - 1
  ELSE IF at = "run" THEN IF next <= Len(calls) /\ slot[next] # "waiting"
                          THEN base + next ELSE base + next - 1
  ELSE base + Len(calls)
EffectsSorted ==
  /\ \A i \in DOMAIN effects : effects[i] <= Reached
  /\ \A i, j \in DOMAIN effects : i < j => effects[i] < effects[j]

(* The last call whose result is in the context. *)
UpTo == IF at = "apply" THEN base + next - 1 ELSE base
IsResult(p) == context[p].role = "tool"
ResultsSorted ==
  /\ \A p \in DOMAIN context : IsResult(p) => context[p].call <= UpTo
  /\ \A p, q \in DOMAIN context :
       IsResult(p) /\ IsResult(q) /\ p < q => context[p].call < context[q].call
HasCall ==
  \A p \in DOMAIN context : IsResult(p) => \E q \in 1..p : context[p].call \in context[q].calls
HasResult ==
  \A p \in DOMAIN context : \A c \in context[p].calls :
    /\ c <= base + Len(calls)
    /\ c <= UpTo => \E q \in p + 1..Len(context) : IsResult(q) /\ context[q].call = c
CallsShown ==
  at \in {"run", "apply"} =>
    \E p \in DOMAIN context : \A k \in DOMAIN calls : Id(k) \in context[p].calls

-----------------------------------------------------------------------------
(* Messages and calls. *)
LEMMA Messages ==
  /\ User \in Message /\ User.role = "user" /\ User.calls = {} /\ User.failed = FALSE
  /\ \A t \in Text \cup {NoText}, ids \in SUBSET Nat :
       /\ Assistant(t, ids) \in Message
       /\ Assistant(t, ids).role = "assistant" /\ Assistant(t, ids).calls = ids
  /\ \A id \in Nat, f \in BOOLEAN :
       /\ Result(id, f) \in Message
       /\ Result(id, f).role = "tool" /\ Result(id, f).call = id /\ Result(id, f).calls = {}
BY DEF User, Assistant, Result, Message

LEMMA ShortSequences ==
  ASSUME NEW S, NEW a \in S, NEW b \in S
  PROVE  /\ <<a>> \in Seq(S) /\ Len(<<a>>) = 1 /\ <<a>>[1] = a
         /\ <<a, b>> \in Seq(S) /\ Len(<<a, b>>) = 2 /\ <<a, b>>[1] = a /\ <<a, b>>[2] = b
OBVIOUS

LEMMA ResultsShape ==
  ASSUME TypeOK, at = "apply", NEW k \in DOMAIN calls
  PROVE  /\ Results(k) \in Seq(Message) /\ Len(Results(k)) \in {1, 2}
         /\ Results(k)[1].role = "tool" /\ Results(k)[1].call = Id(k)
         /\ Results(k)[1].calls = {}
         /\ Len(Results(k)) = 2 => Results(k)[2].role = "user" /\ Results(k)[2].calls = {}
<1>1. Id(k) \in Nat BY DEF TypeOK, Id
<1> DEFINE f == slot[k] = "failed"
<1>2. f \in BOOLEAN OBVIOUS
<1>3. /\ Result(Id(k), FALSE) \in Message /\ Result(Id(k), f) \in Message
      /\ Result(Id(k), FALSE).role = "tool" /\ Result(Id(k), FALSE).call = Id(k)
      /\ Result(Id(k), FALSE).calls = {}
      /\ Result(Id(k), f).role = "tool" /\ Result(Id(k), f).call = Id(k)
      /\ Result(Id(k), f).calls = {}
  BY <1>1, <1>2, Messages
<1>4. User \in Message /\ User.role = "user" /\ User.calls = {} BY Messages
<1>5. CASE slot[k] = "done" /\ calls[k] = "look"
  <2>1. Results(k) = <<Result(Id(k), FALSE), User>> BY <1>5 DEF Results
  <2> DEFINE r == Result(Id(k), FALSE)
             u == User
  <2>2. r \in Message /\ r.role = "tool" /\ r.call = Id(k) /\ r.calls = {} BY <1>3
  <2>3. u \in Message /\ u.role = "user" /\ u.calls = {} BY <1>4
  <2>4. Results(k) = <<r, u>> BY <2>1
  <2> HIDE DEF r, u
  <2>5. /\ Results(k) \in Seq(Message) /\ Len(Results(k)) = 2
        /\ Results(k)[1] = r /\ Results(k)[2] = u
    BY <2>2, <2>3, <2>4, ShortSequences
  <2>6. QED BY <2>2, <2>3, <2>5
<1>6. CASE ~(slot[k] = "done" /\ calls[k] = "look")
  <2>1. Results(k) = <<Result(Id(k), f)>> BY <1>6 DEF Results
  <2> DEFINE r == Result(Id(k), f)
  <2>2. r \in Message /\ r.role = "tool" /\ r.call = Id(k) /\ r.calls = {} BY <1>3
  <2>3. Results(k) = <<r>> BY <2>1
  <2> HIDE DEF r
  <2>4. Results(k) \in Seq(Message) /\ Len(Results(k)) = 1 /\ Results(k)[1] = r
    BY <2>2, <2>3, ShortSequences
  <2>5. QED BY <2>2, <2>4
<1>7. QED BY <1>5, <1>6

LEMMA CallSeqsAreSeqs ==
  ASSUME NEW cs \in CallSeqs
  PROVE  cs \in Seq(Tool) /\ Len(cs) <= MaxCalls /\ Len(cs) >= 1 /\ DOMAIN cs = 1..Len(cs)
<1>1. PICK n \in 1..MaxCalls : cs \in [1..n -> Tool] BY DEF CallSeqs
<1>2. QED BY <1>1, BoundAssumption

(* What is said of every step. *)
LEMMA StreakBound ==
  ASSUME TypeOK, at = "ask", NEW low \in BOOLEAN
  PROVE  Streak(low) \in 0..Patience
BY LimitAssumption DEF TypeOK, Streak
-----------------------------------------------------------------------------
(* Types. *)
Gift == [text : Text \cup {Output}, how : {"posted", "spoken"}, delivered : BOOLEAN]

LEMMA InitType == Init => TypeOK
<1> SUFFICES ASSUME Init PROVE TypeOK
  OBVIOUS
<1>1. /\ iter \in 0..MaxIter - 1 /\ streak \in 0..Patience /\ streak # Patience
      /\ next \in 1..MaxCalls + 1 /\ turns \in 0..MaxTurns /\ seen \in Nat /\ base \in Nat
  BY LimitAssumption, BoundAssumption DEF Init
<1>2. calls \in Seq(Tool) /\ Len(calls) <= MaxCalls BY BoundAssumption DEF Init, NoCalls
<1>3. /\ slot \in Seq({"waiting", "running", "done", "failed"}) /\ context \in Seq(Message)
      /\ sent \in Seq(Gift) /\ effects \in Seq(Nat) /\ failures \subseteq Nat
  BY DEF Init
<1>4. QED BY <1>1, <1>2, <1>3 DEF Init, TypeOK, Gift

LEMMA AskType == TypeOK /\ Ask => TypeOK'
<1> SUFFICES ASSUME TypeOK, Ask PROVE TypeOK'
  OBVIOUS
<1> USE DEF turn, response, execution, observed
<1>1. CASE CompletionFails BY <1>1 DEF CompletionFails, Fail, TypeOK
<1>2. ASSUME NEW t \in Text \cup {NoText}, Answer(t) PROVE TypeOK'
  <2>1. Assistant(t, {}) \in Message BY Messages
  <2>2. context' \in Seq(Message) BY <1>2, <2>1 DEF Answer, TypeOK
  <2>3. calls' \in Seq(Tool) /\ Len(calls') <= MaxCalls
    BY <1>2, BoundAssumption DEF Answer, Responds, NoCalls
  <2>4. seen' \in Nat BY <1>2 DEF Answer, Responds, TypeOK
  <2>5. QED BY <1>2, <2>2, <2>3, <2>4 DEF Answer, Responds, TypeOK
<1>3. ASSUME NEW t \in Text \cup {NoText}, NEW cs \in CallSeqs, NEW low \in BOOLEAN,
             Stall(t, cs, low) PROVE TypeOK'
  <2>1. streak' \in 0..Patience BY <1>3, StreakBound DEF Stall, Responds
  <2>2. calls' \in Seq(Tool) /\ Len(calls') <= MaxCalls
    BY <1>3, BoundAssumption DEF Stall, Responds, NoCalls
  <2>3. seen' \in Nat BY <1>3 DEF Stall, Responds, TypeOK
  <2>4. QED BY <1>3, <2>1, <2>2, <2>3 DEF Stall, Responds, TypeOK
<1>4. ASSUME NEW t \in Text \cup {NoText}, NEW cs \in CallSeqs, NEW low \in BOOLEAN,
             Skip(t, cs, low) PROVE TypeOK'
  <2>1. streak' \in 0..Patience /\ streak' # Patience
    BY <1>4, StreakBound, LimitAssumption DEF Skip, Responds
  <2>2. calls' \in Seq(Tool) /\ Len(calls') <= MaxCalls
    BY <1>4, CallSeqsAreSeqs DEF Skip, Responds
  <2>3. seen' \in Nat BY <1>4 DEF Skip, Responds, TypeOK
  <2>4. next' \in 1..MaxCalls + 1 BY <1>4, BoundAssumption DEF Skip
  <2>5. QED BY <1>4, <2>1, <2>2, <2>3, <2>4 DEF Skip, Responds, TypeOK
<1>5. ASSUME NEW t \in Text \cup {NoText}, NEW cs \in CallSeqs, NEW low \in BOOLEAN,
             Call(t, cs, low) PROVE TypeOK'
  <2>1. streak' \in 0..Patience /\ streak' # Patience
    BY <1>5, StreakBound, LimitAssumption DEF Call, Responds
  <2>2. calls' \in Seq(Tool) /\ Len(calls') <= MaxCalls /\ calls' = cs /\ DOMAIN cs = 1..Len(cs)
    BY <1>5, CallSeqsAreSeqs DEF Call, Responds
  <2>3. seen' \in Nat BY <1>5 DEF Call, Responds, TypeOK
  <2>4. next' \in 1..MaxCalls + 1 BY <1>5, BoundAssumption DEF Call
  <2>5. {Id(k) : k \in DOMAIN cs} \in SUBSET Nat BY <2>2 DEF Id, TypeOK
  <2>6. Assistant(t, {Id(k) : k \in DOMAIN cs}) \in Message BY <2>5, Messages
  <2>7. context' \in Seq(Message) BY <1>5, <2>6 DEF Call, TypeOK
  <2>8. slot' \in Seq({"waiting", "running", "done", "failed"}) /\ DOMAIN slot' = DOMAIN calls'
    <3>1. Len(cs) \in Nat BY CallSeqsAreSeqs
    <3>2. slot' = [k \in 1..Len(cs) |-> "waiting"] BY <1>5, <2>2 DEF Call
    <3>3. QED BY <3>1, <3>2, <2>2
  <2>9. QED
    BY <1>5, <2>1, <2>2, <2>3, <2>4, <2>7, <2>8 DEF Call, Responds, TypeOK
<1>6. QED BY <1>1, <1>2, <1>3, <1>4, <1>5 DEF Ask

LEMMA EffectType ==
  ASSUME TypeOK, NEW k \in Nat, Effect(k)
  PROVE  effects' \in Seq(Nat)
<1>1. Id(k) \in Nat BY DEF TypeOK, Id
<1>2. QED BY <1>1 DEF TypeOK, Effect

LEMMA FailureType ==
  ASSUME TypeOK, NEW k \in Nat, failures' = failures \/ failures' = failures \cup {Id(k)}
  PROVE  failures' \subseteq Nat
<1>1. Id(k) \in Nat /\ failures \subseteq Nat BY DEF TypeOK, Id
<1>2. QED BY <1>1

LEMMA SentAdded ==
  ASSUME TypeOK, NEW what \in Text \cup {Output}, NEW how \in {"posted", "spoken"},
         NEW ok \in BOOLEAN, Sent(what, how, ok)
  PROVE  \E m \in Gift : m.text = what /\ sent' = Append(sent, m)
<1> DEFINE m == [text |-> what, how |-> how, delivered |-> ok]
<1>1. m \in Gift /\ m.text = what BY DEF Gift
<1>2. sent' = Append(sent, m) BY DEF Sent
<1>3. QED BY <1>1, <1>2

LEMMA PostAdded ==
  ASSUME TypeOK, NEW what \in Text \cup {Output}, Post(what)
  PROVE  \E m \in Gift : m.text = what /\ sent' = Append(sent, m)
BY SentAdded DEF Post

LEMMA PostType ==
  ASSUME TypeOK, NEW what \in Text \cup {Output}, Post(what)
  PROVE  sent' \in Seq(Gift)
<1>1. PICK m \in Gift : sent' = Append(sent, m) BY PostAdded
<1>2. sent \in Seq(Gift) BY DEF TypeOK, Gift
<1>3. QED BY <1>1, <1>2

(* What Reply does with an answer that passes. *)
LEMMA GivenOut ==
  ASSUME TypeOK, text \in Text, GiveOut
  PROVE  \/ UNCHANGED <<last, sent>>
         \/ channel /\ Remember /\ \E m \in Gift : m.text = text /\ sent' = Append(sent, m)
<1>1. (iter = 0) \in BOOLEAN OBVIOUS
<1>2. QED BY <1>1, SentAdded, PostAdded DEF GiveOut

LEMMA SequenceExcept ==
  ASSUME NEW S, NEW s \in Seq(S), NEW k \in DOMAIN s, NEW e \in S
  PROVE  /\ [s EXCEPT ![k] = e] \in Seq(S) /\ DOMAIN [s EXCEPT ![k] = e] = DOMAIN s
<1> DEFINE t == [i \in 1..Len(s) |-> IF i = k THEN e ELSE s[i]]
<1>1. Len(s) \in Nat /\ DOMAIN s = 1..Len(s) /\ \A i \in 1..Len(s) : s[i] \in S
  OBVIOUS
<1>2. t \in Seq(S) BY <1>1
<1>3. [s EXCEPT ![k] = e] = t BY <1>1
<1>4. QED BY <1>1, <1>2, <1>3

(* What starts is a call of the batch, and those are calls. *)
LEMMA BatchInCalls ==
  ASSUME TypeOK, next <= Len(calls)
  PROVE  /\ Batch \subseteq DOMAIN calls /\ next \in Batch
         /\ \A k \in Batch : k >= next /\ (k # next => \A j \in next..k : ReadOnly(j))
BY DEF TypeOK, Batch

LEMMA StartInSlot ==
  ASSUME TypeOK, NEW k, Start(k)
  PROVE  k \in DOMAIN slot
BY BatchInCalls DEF Start, TypeOK

LEMMA ToolsType ==
  ASSUME TypeOK, \/ SkipExecutes \/ SkipEnds \/ Join \/ AllRan
                 \/ \E k \in 1..MaxCalls : Goroutine(k)
  PROVE  TypeOK'
<1> USE DEF turn, response, execution, observed
<1>1. CASE SkipExecutes
  <2>1. effects' \in Seq(Nat) /\ failures' \subseteq Nat
    <3>1. next \in Nat BY DEF TypeOK
    <3>2. Effect(next) /\ (failures' = failures \/ failures' = failures \cup {Id(next)})
      BY <1>1 DEF SkipExecutes
    <3>3. QED BY <3>1, <3>2, EffectType, FailureType
  <2>2. next' \in 1..MaxCalls + 1 BY <1>1, BoundAssumption DEF SkipExecutes, TypeOK
  <2>3. QED BY <1>1, <2>1, <2>2 DEF SkipExecutes, TypeOK
<1>2. CASE SkipEnds
  <2>1. Assistant(text, {}) \in Message BY Messages DEF TypeOK
  <2>2. context' \in Seq(Message) BY <1>2, <2>1 DEF SkipEnds, TypeOK
  <2>3. QED BY <1>2, <2>2 DEF SkipEnds, TypeOK
<1>3. CASE Join
  <2>1. PICK n \in next + 1..Len(calls) + 1 : next' = n BY <1>3 DEF Join
  <2>2. next' \in 1..MaxCalls + 1 BY <2>1, BoundAssumption DEF TypeOK
  <2>3. QED BY <1>3, <2>2 DEF Join, TypeOK
<1>4. CASE AllRan BY <1>4, BoundAssumption DEF AllRan, TypeOK
<1>5. ASSUME NEW k \in 1..MaxCalls, Start(k) PROVE TypeOK'
  <2>1. effects' \in Seq(Nat) /\ failures' \subseteq Nat
    <3>1. k \in Nat OBVIOUS
    <3>2. Effect(k) /\ (failures' = failures \/ failures' = failures \cup {Id(k)})
      BY <1>5 DEF Start
    <3>3. QED BY <3>1, <3>2, EffectType, FailureType
  <2>2. slot' \in Seq({"waiting", "running", "done", "failed"}) /\ DOMAIN slot' = DOMAIN slot
    <3> DEFINE s == IF calls[k] = "unknown" THEN "failed" ELSE "running"
    <3>1. s \in {"waiting", "running", "done", "failed"} OBVIOUS
    <3>2. slot' = [slot EXCEPT ![k] = s] BY <1>5 DEF Start
    <3> HIDE DEF s
    <3>3. k \in DOMAIN slot BY <1>5, StartInSlot
    <3>4. QED BY <3>1, <3>2, <3>3, SequenceExcept DEF TypeOK
  <2>3. QED BY <1>5, <2>1, <2>2 DEF Start, TypeOK
<1>6. ASSUME NEW k \in 1..MaxCalls, Finish(k) PROVE TypeOK'
  <2>1. PICK end \in {"done", "failed"} : slot' = [slot EXCEPT ![k] = end] BY <1>6 DEF Finish
  <2>2. slot' \in Seq({"waiting", "running", "done", "failed"}) /\ DOMAIN slot' = DOMAIN slot
    BY <1>6, <2>1, SequenceExcept DEF Finish, TypeOK
  <2>3. failures' \subseteq Nat
    <3>1. k \in Nat OBVIOUS
    <3>2. failures' = failures \/ failures' = failures \cup {Id(k)} BY <1>6 DEF Finish
    <3>3. QED BY <3>1, <3>2, FailureType
  <2>4. QED BY <1>6, <2>2, <2>3 DEF Finish, TypeOK
<1>7. QED BY <1>1, <1>2, <1>3, <1>4, <1>5, <1>6 DEF Goroutine

LEMMA EndsType ==
  ASSUME TypeOK, BeginTurn \/ Apply \/ Applied \/ Reply
  PROVE  TypeOK'
<1> USE DEF turn, response, execution, observed
<1>1. CASE BeginTurn
  <2>1. context' \in Seq(Message) BY <1>1, Messages DEF BeginTurn
  <2>2. /\ next' \in 1..MaxCalls + 1 /\ iter' \in 0..MaxIter - 1 /\ streak' \in 0..Patience
        /\ streak' # Patience /\ turns' \in 0..MaxTurns
    BY <1>1, BoundAssumption, LimitAssumption DEF BeginTurn, TypeOK
  <2>3. calls' \in Seq(Tool) /\ Len(calls') <= MaxCalls /\ slot' \in Seq({"waiting", "running", "done", "failed"})
        /\ effects' = effects' /\ seen' \in Nat /\ base' \in Nat
    BY <1>1, BoundAssumption DEF BeginTurn, NoCalls
  <2>4. effects' \in Seq(Nat) BY <1>1 DEF BeginTurn
  <2>5. QED BY <1>1, <2>1, <2>2, <2>3, <2>4 DEF BeginTurn, TypeOK
<1>2. CASE Apply
  <2>1. next \in DOMAIN calls BY <1>2 DEF Apply, TypeOK
  <2>2. Results(next) \in Seq(Message) BY <1>2, <2>1, ResultsShape DEF Apply
  <2>3. context' \in Seq(Message) BY <1>2, <2>2 DEF Apply, TypeOK
  <2>4. sent' \in Seq(Gift)
    <3>1. CASE Post(Output) BY <3>1, PostType
    <3>2. CASE UNCHANGED sent BY <3>2 DEF TypeOK, Gift
    <3>3. QED BY <1>2, <3>1, <3>2 DEF Apply
  <2>5. next' \in 1..MaxCalls + 1 BY <1>2, BoundAssumption DEF Apply, TypeOK
  <2>6. QED BY <1>2, <2>3, <2>4, <2>5 DEF Apply, TypeOK, Gift
<1>3. CASE Applied
  <2>1. base' \in Nat /\ next' \in 1..MaxCalls + 1 BY <1>3, BoundAssumption DEF Applied, TypeOK
  <2>2. calls' \in Seq(Tool) /\ Len(calls') <= MaxCalls /\ slot' \in Seq({"waiting", "running", "done", "failed"})
    BY <1>3, BoundAssumption DEF Applied, NoCalls
  <2>3. /\ iter' \in 0..MaxIter - 1 /\ at' \in {"reply", "ask", "idle"}
        /\ outcome' \in {"none", "failed", "silent", "repeated", "said"}
    BY <1>3, LimitAssumption DEF Applied, Again, Fail, TypeOK
  <2>4. streak' = streak /\ streak # Patience BY <1>3 DEF Applied, TypeOK
  <2>5. QED BY <1>3, <2>1, <2>2, <2>3, <2>4 DEF Applied, TypeOK
<1>4. CASE Reply
  <2>1. at' = "idle" /\ UNCHANGED <<turn, response, execution, context, turns, seen, effects, failures>>
    BY <1>4 DEF Reply
  <2>2. outcome' \in {"silent", "repeated", "said"} BY <1>4 DEF Reply
  <2>3. last' \in Text \cup {NoText} /\ sent' \in Seq(Gift)
    <3>1. CASE UNCHANGED <<last, sent>> BY <3>1 DEF TypeOK, Gift
    <3>2. CASE text \notin Silent \cup {NoText} /\ GiveOut
      <4>1. text \in Text /\ sent \in Seq(Gift) BY <3>2 DEF TypeOK, Gift
      <4>2. QED BY <4>1, <3>1, <3>2, GivenOut DEF Remember
    <3>3. QED BY <1>4, <3>1, <3>2 DEF Reply
  <2>4. QED BY <2>1, <2>2, <2>3 DEF TypeOK, Gift
<1>5. QED BY <1>1, <1>2, <1>3, <1>4

LEMMA TypeStep == TypeOK /\ [Next]_vars => TypeOK'
<1>1. ASSUME TypeOK, UNCHANGED vars PROVE TypeOK'
  BY <1>1 DEF vars, turn, response, execution, observed, TypeOK
<1>2. QED BY <1>1, AskType, ToolsType, EndsType DEF Next, Worker

(* The types of ToolLoop: among them, that a turn asks the LLM at most MaxIter *)
(* times and stops at Patience short responses in a row (continueToolLoop).   *)
THEOREM TypeCorrect == Spec => []TypeOK
<1>1. QED BY InitType, TypeStep, PTL DEF Spec
-----------------------------------------------------------------------------
(* Positions. *)
LEMMA PositionStep == TypeOK /\ Position /\ [Next]_vars => Position'
<1> SUFFICES ASSUME TypeOK, Position, [Next]_vars PROVE Position'
  OBVIOUS
<1> USE DEF Position, turn, response, execution, observed
<1>1. CASE UNCHANGED vars BY <1>1 DEF vars
<1>2. CASE Ask
  <2>1. CASE CompletionFails BY <2>1 DEF CompletionFails, Fail
  <2>2. ASSUME NEW t \in Text \cup {NoText}, Answer(t) PROVE Position' BY <2>2 DEF Answer
  <2>3. ASSUME NEW t \in Text \cup {NoText}, NEW cs \in CallSeqs, NEW low \in BOOLEAN,
               Stall(t, cs, low) \/ Skip(t, cs, low) \/ Call(t, cs, low)
        PROVE  Position'
    <3>1. Len(cs) >= 1 /\ Len(cs) \in Nat BY CallSeqsAreSeqs
    <3>2. CASE Stall(t, cs, low) BY <3>2 DEF Stall
    <3>3. CASE Skip(t, cs, low) BY <3>1, <3>3 DEF Skip, Responds
    <3>4. CASE Call(t, cs, low) BY <3>1, <3>4 DEF Call, Responds
    <3>5. QED BY <2>3, <3>2, <3>3, <3>4
  <2>4. QED BY <1>2, <2>1, <2>2, <2>3 DEF Ask
<1>3. CASE SkipExecutes BY <1>3 DEF SkipExecutes, TypeOK
<1>4. CASE SkipEnds BY <1>4 DEF SkipEnds
<1>5. CASE Join BY <1>5 DEF Join, TypeOK
<1>6. CASE AllRan BY <1>6 DEF AllRan, TypeOK
<1>7. CASE \E k \in 1..MaxCalls : Goroutine(k) BY <1>7 DEF Goroutine, Start, Finish
<1>8. CASE Apply BY <1>8 DEF Apply, TypeOK
<1>9. CASE Applied BY <1>9 DEF Applied, Fail, NoCalls
<1>10. CASE Reply BY <1>10 DEF Reply
<1>11. CASE BeginTurn BY <1>11 DEF BeginTurn
<1>12. QED
  BY <1>1, <1>2, <1>3, <1>4, <1>5, <1>6, <1>7, <1>8, <1>9, <1>10, <1>11 DEF Next, Worker
-----------------------------------------------------------------------------
(* Execution. *)
LEMMA StartFacts ==
  ASSUME TypeOK, NEW k, Start(k)
  PROVE  /\ at = "run" /\ at' = "run" /\ next' = next /\ calls' = calls /\ base' = base
         /\ k \in Batch /\ k \in DOMAIN slot /\ slot[k] = "waiting" /\ Batch' = Batch
         /\ DOMAIN slot' = DOMAIN slot /\ slot'[k] # "waiting"
         /\ \A j \in DOMAIN slot : j # k => slot'[j] = slot[j]
<1>1. k \in DOMAIN slot BY StartInSlot
<1>2. Batch' = Batch BY DEF Start, response, Batch, ReadOnly
<1>3. QED BY <1>1, <1>2 DEF Start, response

LEMMA FinishFacts ==
  ASSUME TypeOK, NEW k, Finish(k)
  PROVE  /\ at = "run" /\ at' = "run" /\ next' = next /\ calls' = calls /\ base' = base
         /\ k \in DOMAIN slot /\ slot[k] = "running" /\ Batch' = Batch
         /\ DOMAIN slot' = DOMAIN slot /\ slot'[k] \in {"done", "failed"}
         /\ \A j \in DOMAIN slot : j # k => slot'[j] = slot[j]
         /\ effects' = effects
<1>1. Batch' = Batch BY DEF Finish, response, Batch, ReadOnly
<1>2. QED BY <1>1 DEF Finish, response, observed

LEMMA ExecutedStep == TypeOK /\ Executed /\ [Next]_vars => Executed'
<1> SUFFICES ASSUME TypeOK, Executed, [Next]_vars, at' = "run" PROVE Executed'
  BY DEF Executed
<1> USE DEF turn, response, execution, observed
<1>1. CASE UNCHANGED vars
  BY <1>1 DEF vars, Executed, Finished, Batch, ReadOnly
<1>2. ASSUME NEW k, Start(k) PROVE Executed'
  <2>1. DOMAIN slot = DOMAIN calls BY <1>2 DEF Start, TypeOK
  <2>2. \A j \in DOMAIN calls : j < next => j # k
    BY <1>2, <2>1, StartFacts DEF Executed, Finished
  <2>3. QED BY <1>2, <2>1, <2>2, StartFacts DEF Executed, Finished
<1>3. ASSUME NEW k, Finish(k) PROVE Executed'
  <2>1. DOMAIN slot = DOMAIN calls BY <1>3 DEF Finish, TypeOK
  <2>2. QED BY <1>3, <2>1, FinishFacts DEF Executed, Finished
<1>4. CASE Join
  <2>1. PICK n \in next + 1..Len(calls) + 1 : Batch = next..n - 1 /\ next' = n BY <1>4 DEF Join
  <2>2. \A j \in DOMAIN calls : j < n => Finished(j)
    <3>1. ASSUME NEW j \in DOMAIN calls, j < n PROVE Finished(j)
      <4>1. CASE j < next BY <1>4, <4>1 DEF Join, Executed
      <4>2. CASE j >= next
        <5>1. j \in Batch BY <2>1, <3>1, <4>2 DEF TypeOK
        <5>2. QED BY <1>4, <5>1 DEF Join, Joined
      <4>3. QED BY <4>1, <4>2 DEF TypeOK
    <3>2. QED BY <3>1
  <2>3. \A j \in DOMAIN calls : j >= n => slot[j] = "waiting"
    <3>1. ASSUME NEW j \in DOMAIN calls, j >= n PROVE slot[j] = "waiting"
      <4>1. j >= next /\ j \notin Batch BY <2>1, <3>1 DEF TypeOK
      <4>2. QED BY <1>4, <4>1 DEF Join, Executed
    <3>2. QED BY <3>1
  <2>4. calls' = calls /\ slot' = slot BY <1>4 DEF Join
  <2>5. QED BY <2>1, <2>2, <2>3, <2>4 DEF Executed, Finished
<1>5. ASSUME NEW t, NEW cs \in CallSeqs, NEW low, Call(t, cs, low) PROVE Executed'
  <2>1. calls' = cs /\ next' = 1 /\ slot' = [k \in DOMAIN cs |-> "waiting"] BY <1>5 DEF Call, Responds
  <2>2. DOMAIN cs = 1..Len(cs) BY CallSeqsAreSeqs
  <2>3. QED BY <2>1, <2>2 DEF Executed
<1>6. CASE CompletionFails \/ SkipExecutes \/ SkipEnds \/ AllRan \/ Apply \/ Applied \/ Reply \/ BeginTurn
  BY <1>6 DEF CompletionFails, Fail, SkipExecutes, SkipEnds, AllRan, Apply, Applied, Reply, BeginTurn
<1>7. ASSUME NEW t, NEW cs, NEW low, Answer(t) \/ Stall(t, cs, low) \/ Skip(t, cs, low)
      PROVE FALSE
  BY <1>7 DEF Answer, Stall, Skip
<1>8. QED BY <1>1, <1>2, <1>3, <1>4, <1>5, <1>6, <1>7 DEF Next, Worker, Ask, Goroutine

LEMMA EffectsKept ==
  ASSUME EffectsSorted, TypeOK, effects' = effects, Reached \in Int, Reached' \in Int,
         Reached <= Reached'
  PROVE  EffectsSorted'
<1>1. \A i \in DOMAIN effects : effects[i] \in Nat BY DEF TypeOK
<1> HIDE DEF Reached
<1>2. QED BY <1>1 DEF EffectsSorted

LEMMA EffectsAdded ==
  ASSUME EffectsSorted, TypeOK, NEW k \in Nat, effects' = Append(effects, Id(k)),
         Reached \in Int, Reached < Id(k), Reached' = Id(k)
  PROVE  EffectsSorted'
<1>1. effects \in Seq(Nat) /\ Id(k) \in Nat BY DEF TypeOK, Id
<1> DEFINE e == Id(k)
           r == Reached
<1>2. \A i \in DOMAIN effects : effects[i] \in Nat /\ effects[i] <= r BY <1>1 DEF EffectsSorted
<1>3. DOMAIN effects' = 1..Len(effects) + 1 /\ Len(effects) \in Nat /\ DOMAIN effects = 1..Len(effects)
  BY <1>1
<1>4. effects'[Len(effects) + 1] = e /\ \A i \in DOMAIN effects : effects'[i] = effects[i] BY <1>1
<1>5. r \in Int /\ e \in Nat /\ r < e /\ Reached' = e BY <1>1
<1> HIDE DEF e, r, Reached
<1>6. \A i \in DOMAIN effects' : effects'[i] <= e BY <1>2, <1>3, <1>4, <1>5
<1>7. \A i, j \in DOMAIN effects' : i < j => effects'[i] < effects'[j]
  <2>1. ASSUME NEW i \in DOMAIN effects', NEW j \in DOMAIN effects', i < j
        PROVE  effects'[i] < effects'[j]
    <3>1. i \in DOMAIN effects BY <1>3, <2>1
    <3>2. CASE j \in DOMAIN effects BY <1>4, <2>1, <3>1, <3>2 DEF EffectsSorted
    <3>3. CASE j = Len(effects) + 1 BY <1>2, <1>4, <1>5, <3>1, <3>3
    <3>4. QED BY <1>3, <3>2, <3>3
  <2>2. QED BY <2>1
<1>8. QED BY <1>5, <1>6, <1>7 DEF EffectsSorted

LEMMA Numbers ==
  ASSUME TypeOK
  PROVE  base \in Nat /\ next \in Nat /\ next >= 1 /\ Len(calls) \in Nat
BY DEF TypeOK

LEMMA ReachedInt == ASSUME TypeOK PROVE Reached \in Int
BY Numbers DEF Reached

LEMMA ReachedIntAfter == ASSUME TypeOK' PROVE Reached' \in Int
<1>1. base' \in Nat /\ next' \in Nat /\ Len(calls') \in Nat BY DEF TypeOK
<1>2. QED BY <1>1 DEF Reached

(* A step that is no execution moves Reached forward, if at all. *)
LEMMA EffectsOfOthers ==
  ASSUME TypeOK, Position, EffectsSorted, TypeOK',
         \/ UNCHANGED vars \/ CompletionFails \/ SkipEnds \/ AllRan \/ Apply \/ Applied \/ Reply
  PROVE  EffectsSorted'
<1> USE DEF turn, response, execution, observed
<1>1. effects' = effects
  BY DEF vars, CompletionFails, SkipEnds, AllRan, Apply, Applied, Reply
<1>2. base \in Nat /\ next \in Nat /\ Len(calls) \in Nat BY Numbers
<1>3. Reached = Reached'
  <2>1. CASE UNCHANGED vars BY <2>1 DEF vars, Reached
  <2>2. CASE CompletionFails BY <2>2 DEF CompletionFails, Fail, Reached
  <2>3. CASE SkipEnds BY <1>2, <2>3 DEF SkipEnds, Reached, Position
  <2>4. CASE AllRan BY <1>2, <2>4 DEF AllRan, Reached, Position
  <2>5. CASE Apply BY <2>5 DEF Apply, Reached
  <2>6. CASE Applied
    <3>1. Len(calls') = 0 /\ base' = base + Len(calls) /\ at' \in {"reply", "ask", "idle"}
      BY <2>6 DEF Applied, NoCalls, Fail
    <3>2. Reached' = base' + Len(calls') BY <3>1 DEF Reached
    <3>3. Reached = base + Len(calls) BY <2>6 DEF Applied, Reached
    <3>4. QED BY <1>2, <3>1, <3>2, <3>3
  <2>7. CASE Reply BY <2>7 DEF Reply, Reached
  <2>8. QED BY <2>1, <2>2, <2>3, <2>4, <2>5, <2>6, <2>7
<1>4. QED BY <1>1, <1>3, ReachedInt, EffectsKept

LEMMA EffectsOfAsking ==
  ASSUME TypeOK, Position, EffectsSorted, TypeOK',
         NEW t, NEW cs \in CallSeqs, NEW low,
         Answer(t) \/ Stall(t, cs, low) \/ Skip(t, cs, low) \/ Call(t, cs, low)
  PROVE  EffectsSorted'
<1>1. /\ effects' = effects /\ base' = base /\ base \in Nat
      /\ at = "ask" /\ calls = NoCalls /\ Len(NoCalls) = 0
  BY DEF Answer, Stall, Skip, Call, Responds, Position, TypeOK, NoCalls
<1>2. Reached = base BY <1>1 DEF Reached
<1>3. Len(cs) >= 1 /\ DOMAIN cs = 1..Len(cs) BY CallSeqsAreSeqs
<1>4. Reached' = base
  <2>1. CASE Answer(t) \/ Stall(t, cs, low)
    BY <1>1, <2>1 DEF Answer, Stall, Responds, Reached
  <2>2. CASE Skip(t, cs, low) BY <1>1, <2>2 DEF Skip, Reached
  <2>3. CASE Call(t, cs, low)
    <3>1. slot'[1] = "waiting" /\ next' = 1 /\ at' = "run" BY <1>3, <2>3 DEF Call
    <3>2. QED BY <1>1, <3>1 DEF Reached
  <2>4. QED BY <2>1, <2>2, <2>3
<1>5. QED BY <1>1, <1>2, <1>4, ReachedInt, EffectsKept

LEMMA EffectsOfExecution ==
  ASSUME TypeOK, Position, EffectsSorted, TypeOK',
         SkipExecutes \/ Join \/ \E k \in 1..MaxCalls : Goroutine(k)
  PROVE  EffectsSorted'
<1> USE DEF turn, response, execution, observed
<1>1. base \in Nat /\ next \in Nat /\ Len(calls) \in Nat BY Numbers
<1>2. CASE SkipExecutes
  <2>1. Reached = base + next - 1 /\ Reached' = base + next BY <1>1, <1>2 DEF SkipExecutes, Reached
  <2>2. CASE HasEffect(next)
    <3>1. effects' = Append(effects, Id(next)) /\ Id(next) = base + next
      BY <1>2, <2>2 DEF SkipExecutes, Effect, Id
    <3>2. QED BY <1>1, <2>1, <3>1, EffectsAdded
  <2>3. CASE ~HasEffect(next)
    <3>1. effects' = effects BY <1>2, <2>3 DEF SkipExecutes, Effect
    <3>2. QED BY <1>1, <2>1, <3>1, EffectsKept
  <2>4. QED BY <2>2, <2>3
<1>3. CASE Join
  <2>1. PICK n \in next + 1..Len(calls) + 1 : Batch = next..n - 1 /\ next' = n BY <1>3 DEF Join
  <2>2. next \in Batch BY <1>3, BatchInCalls DEF Join
  <2>3. slot[next] # "waiting" BY <1>3, <2>2 DEF Join, Joined, Finished
  <2>4. Reached = base + next BY <1>3, <2>3 DEF Join, Reached
  <2>5. Reached' \in {base + n, base + n - 1} BY <1>3, <2>1 DEF Join, Reached
  <2>6. effects' = effects BY <1>3 DEF Join
  <2>7. QED BY <1>1, <2>1, <2>4, <2>5, <2>6, EffectsKept
<1>4. ASSUME NEW k \in 1..MaxCalls, Start(k) PROVE EffectsSorted'
  <2>1. next <= Len(calls) /\ next \in DOMAIN slot /\ k \in Batch
    BY <1>4, BatchInCalls DEF Start, TypeOK
  <2>2. CASE HasEffect(k)
    <3>1. ~ReadOnly(k) BY <2>2 DEF HasEffect, ReadOnly
    <3>2. k = next
      <4>1. k >= next /\ (k # next => \A j \in next..k : ReadOnly(j)) BY <2>1, BatchInCalls
      <4>2. k \in next..k BY <4>1, <1>1
      <4>3. QED BY <3>1, <4>1, <4>2
    <3>3. Reached = base + next - 1 BY <1>4, <2>1, <3>2, StartFacts DEF Reached
    <3>4. Reached' = base + next BY <1>4, <2>1, <3>2, StartFacts DEF Reached
    <3>5. effects' = Append(effects, Id(next)) /\ Id(next) = base + next
      BY <1>4, <2>2, <3>2 DEF Start, Effect, Id
    <3>6. QED BY <1>1, <3>3, <3>4, <3>5, EffectsAdded
  <2>3. CASE ~HasEffect(k)
    <3>1. effects' = effects BY <1>4, <2>3 DEF Start, Effect
    <3>2. slot[next] # "waiting" => slot'[next] # "waiting" BY <1>4, <2>1, StartFacts
    <3>3. Reached <= Reached' BY <1>1, <1>4, <3>2, StartFacts DEF Reached
    <3>4. QED BY <3>1, <3>3, ReachedInt, ReachedIntAfter, EffectsKept
  <2>4. QED BY <2>2, <2>3
<1>5. ASSUME NEW k \in 1..MaxCalls, Finish(k) PROVE EffectsSorted'
  <2>1. DOMAIN slot = 1..Len(calls) /\ effects' = effects
    <3>1. at = "run" /\ effects' = effects BY <1>5, FinishFacts
    <3>2. QED BY <3>1 DEF TypeOK
  <2>2. next \in DOMAIN slot => (slot[next] # "waiting" <=> slot'[next] # "waiting")
    BY <1>5, FinishFacts
  <2>3. next <= Len(calls) => next \in DOMAIN slot BY <2>1 DEF TypeOK
  <2>4. Reached <= Reached' BY <1>1, <1>5, <2>2, <2>3, FinishFacts DEF Reached
  <2>5. QED BY <2>1, <2>4, ReachedInt, ReachedIntAfter, EffectsKept
<1>6. QED BY <1>2, <1>3, <1>4, <1>5 DEF Goroutine

LEMMA EffectsStep ==
  TypeOK /\ Position /\ EffectsSorted /\ TypeOK' /\ [Next]_vars => EffectsSorted'
<1> SUFFICES ASSUME TypeOK, Position, EffectsSorted, TypeOK', [Next]_vars PROVE EffectsSorted'
  OBVIOUS
<1>1. CASE BeginTurn BY <1>1 DEF BeginTurn, EffectsSorted
<1>2. CASE \E t \in Text \cup {NoText} : Answer(t)
  <2>1. PICK t \in Text \cup {NoText} : Answer(t) BY <1>2
  <2>2. effects' = effects /\ base' = base /\ base \in Nat /\ at = "ask" /\ calls = NoCalls
        /\ calls' = NoCalls /\ Len(NoCalls) = 0 /\ at' = "reply"
    BY <2>1 DEF Answer, Responds, Position, TypeOK, NoCalls
  <2>3. Reached = Reached' BY <2>2 DEF Reached
  <2>4. QED BY <2>2, <2>3, ReachedInt, EffectsKept
<1>3. QED
  BY <1>1, <1>2, EffectsOfOthers, EffectsOfAsking, EffectsOfExecution DEF Next, Worker, Ask

(* With that, a call that began has only finished calls before it unless all *)
(* between read.                                                           *)
LEMMA EffectsConclusion == TypeOK /\ Executed /\ EffectsSorted => EffectsInOrder
<1> SUFFICES ASSUME TypeOK, Executed, EffectsSorted PROVE EffectsInOrder
  OBVIOUS
<1>1. ASSUME at = "run", NEW i \in DOMAIN calls, NEW j \in DOMAIN calls, i < j,
             slot[j] # "waiting", NEW k \in i..j, ~ReadOnly(k)
      PROVE  Finished(i)
  <2>1. CASE i < next BY <1>1, <2>1 DEF Executed
  <2>2. CASE i >= next
    <3>1. i \in Nat /\ j \in Nat /\ next \in Nat /\ j > next /\ next <= Len(calls)
      BY <1>1, <2>2 DEF TypeOK
    <3>2. j \in Batch BY <1>1, <3>1 DEF Executed
    <3>3. \A m \in next..j : ReadOnly(m) BY <3>1, <3>2, BatchInCalls
    <3>4. k \in next..j BY <1>1, <2>2, <3>1
    <3>5. QED BY <1>1, <3>3, <3>4
  <2>3. QED BY <2>1, <2>2 DEF TypeOK
<1>2. QED BY <1>1 DEF EffectsInOrder, EffectsSorted

(* EffectsInOrder: tools with effects run alone and in the order called for  *)
(* (executeToolCalls, executeToolBatchParallel, execSideEffectsOnSkip).      *)
THEOREM EffectsOneByOne == Spec => []EffectsInOrder
<1> DEFINE I == TypeOK /\ Position /\ Executed /\ EffectsSorted
<1>1. Init => I
  <2>1. Init => Position /\ Executed /\ EffectsSorted
    BY DEF Init, Position, Executed, EffectsSorted
  <2>2. QED BY <2>1, InitType
<1>2. I /\ [Next]_vars => I' BY TypeStep, PositionStep, ExecutedStep, EffectsStep
<1>3. I => EffectsInOrder BY EffectsConclusion
<1>4. QED BY <1>1, <1>2, <1>3, PTL DEF Spec
-----------------------------------------------------------------------------
(* Results. *)
Paired == ResultsSorted /\ HasCall /\ HasResult

LEMMA UpToInt == ASSUME TypeOK PROVE UpTo \in Int
BY Numbers DEF UpTo

LEMMA MessageTypes ==
  ASSUME TypeOK
  PROVE  /\ \A p \in DOMAIN context : context[p].call \in Nat /\ context[p].calls \subseteq Nat
         /\ DOMAIN context = 1..Len(context) /\ Len(context) \in Nat
<1>1. context \in Seq(Message) BY DEF TypeOK
<1>2. \A p \in DOMAIN context : context[p] \in Message BY <1>1
<1>3. QED BY <1>1, <1>2 DEF Message

LEMMA ContextKept ==
  ASSUME TypeOK, Paired, context' = context, UpTo' = UpTo,
         NEW m \in Nat, base + Len(calls) <= m, m = base' + Len(calls')
  PROVE  Paired'
<1>1. \A p \in DOMAIN context : \A c \in context[p].calls : c \in Nat BY MessageTypes
<1>2. base + Len(calls) \in Nat BY Numbers
<1>3. ResultsSorted' /\ HasCall' BY DEF Paired, ResultsSorted, HasCall, IsResult
<1>4. HasResult'
  <2>1. ASSUME NEW p \in DOMAIN context, NEW c \in context[p].calls
        PROVE  /\ c <= m
               /\ c <= UpTo => \E q \in p + 1..Len(context) : IsResult(q) /\ context[q].call = c
    BY <1>1, <1>2, <2>1 DEF Paired, HasResult
  <2> HIDE DEF UpTo
  <2>2. QED BY <2>1 DEF HasResult, IsResult
<1>5. QED BY <1>3, <1>4 DEF Paired

LEMMA AssistantAdded ==
  ASSUME TypeOK, Paired, NEW t \in Text \cup {NoText}, NEW ids \in SUBSET Nat,
         context' = Append(context, Assistant(t, ids)), UpTo' = UpTo,
         NEW m \in Nat, base + Len(calls) <= m, m = base' + Len(calls'),
         \A c \in ids : c <= m /\ ~(c <= UpTo)
  PROVE  /\ Paired'
         /\ Len(context) + 1 \in DOMAIN context' /\ context'[Len(context) + 1].calls = ids
<1> DEFINE a == Assistant(t, ids)
           n == Len(context)
<1>1. a \in Message /\ a.role = "assistant" /\ a.calls = ids BY Messages
<1>2. context \in Seq(Message) BY DEF TypeOK
<1>3. /\ n \in Nat /\ DOMAIN context = 1..n /\ DOMAIN context' = 1..n + 1 /\ Len(context') = n + 1
      /\ context'[n + 1] = a /\ \A p \in 1..n : context'[p] = context[p]
  BY <1>1, <1>2
<1> HIDE DEF a, n
<1>4. \A p \in 1..n + 1 : IsResult(p)' <=> p \in 1..n /\ IsResult(p)
  BY <1>1, <1>3 DEF IsResult
<1>5. \A p \in 1..n : context[p].calls \subseteq Nat BY <1>3, MessageTypes
<1>6. ResultsSorted' BY <1>3, <1>4 DEF Paired, ResultsSorted
<1>7. HasCall'
  <2>1. ASSUME NEW p \in 1..n, IsResult(p)
        PROVE  \E q \in 1..p : context'[p].call \in context'[q].calls
    <3>1. PICK q \in 1..p : context[p].call \in context[q].calls
      BY <1>3, <2>1 DEF Paired, HasCall
    <3>2. QED BY <1>3, <3>1
  <2>2. QED BY <1>3, <1>4, <2>1 DEF HasCall
<1>8. HasResult'
  <2>1. ASSUME NEW p \in 1..n + 1, NEW c \in context'[p].calls
        PROVE  /\ c <= m
               /\ c <= UpTo => \E q \in p + 1..n + 1 : IsResult(q)' /\ context'[q].call = c
    <3>1. CASE p = n + 1 BY <1>1, <1>3, <3>1
    <3>2. CASE p \in 1..n
      <4>1. c \in context[p].calls /\ c \in Nat BY <1>3, <1>5, <3>2
      <4>2. c <= base + Len(calls) BY <1>3, <3>2, <4>1 DEF Paired, HasResult
      <4>3. base + Len(calls) \in Nat BY Numbers
      <4>4. c <= m BY <4>1, <4>2, <4>3
      <4>5. ASSUME c <= UpTo
            PROVE  \E q \in p + 1..n + 1 : IsResult(q)' /\ context'[q].call = c
        <5>1. PICK q \in p + 1..n : IsResult(q) /\ context[q].call = c
          BY <1>3, <3>2, <4>1, <4>5 DEF Paired, HasResult, n
        <5>2. QED BY <1>3, <1>4, <5>1
      <4>6. QED BY <4>4, <4>5
    <3>3. QED BY <1>3, <3>1, <3>2
  <2> HIDE DEF UpTo
  <2>2. QED BY <1>3, <2>1 DEF HasResult
<1>9. QED BY <1>1, <1>3, <1>6, <1>7, <1>8 DEF Paired, n

(* Apply: the next result, perhaps with a message of images. *)
LEMMA ResultAdded ==
  ASSUME TypeOK, Paired, CallsShown, Apply
  PROVE  Paired' /\ CallsShown'
<1> DEFINE rs == Results(next)
           n == Len(context)
           id == base + next
<1>1. /\ base \in Nat /\ next \in Nat /\ next \in DOMAIN calls /\ at = "apply" /\ at' = "apply"
      /\ next' = next + 1 /\ base' = base /\ calls' = calls /\ slot' = slot
  BY Numbers DEF Apply, response, TypeOK
<1>2. /\ rs \in Seq(Message) /\ Len(rs) \in {1, 2}
      /\ rs[1].role = "tool" /\ rs[1].call = id /\ rs[1].calls = {}
      /\ Len(rs) = 2 => rs[2].role = "user" /\ rs[2].calls = {}
  BY <1>1, ResultsShape DEF Id
<1>3. context \in Seq(Message) /\ context' = context \o rs BY <1>1 DEF TypeOK, Apply
<1>4. UpTo = id - 1 /\ UpTo' = id /\ id \in Nat BY <1>1 DEF UpTo
<1> HIDE DEF rs, id
<1>5. /\ n \in Nat /\ DOMAIN context = 1..n /\ DOMAIN context' = 1..n + Len(rs)
      /\ Len(context') = n + Len(rs) /\ Len(rs) \in {1, 2}
      /\ \A p \in 1..n : context'[p] = context[p]
      /\ context'[n + 1] = rs[1] /\ (Len(rs) = 2 => context'[n + 2] = rs[2])
  BY <1>2, <1>3
<1> HIDE DEF n
<1>6. \A p \in DOMAIN context' : p \in 1..n \/ p = n + 1 \/ (p = n + 2 /\ Len(rs) = 2)
  <2>1. CASE Len(rs) = 1 BY <1>5, <2>1
  <2>2. CASE Len(rs) = 2 BY <1>5, <2>2
  <2>3. QED BY <1>5, <2>1, <2>2
<1>7. \A p \in DOMAIN context' : IsResult(p)' <=> (p \in 1..n /\ IsResult(p)) \/ p = n + 1
  BY <1>2, <1>5, <1>6 DEF IsResult
<1>8. \A p \in DOMAIN context' : p \notin 1..n => context'[p].calls = {} BY <1>2, <1>5, <1>6
<1>9. context'[n + 1].call = id BY <1>2, <1>5
<1>10. \A p \in 1..n : context[p].call \in Nat /\ context[p].calls \subseteq Nat
  BY <1>5, MessageTypes
<1>11. \A p \in 1..n : IsResult(p) => context[p].call <= id - 1
  BY <1>4, <1>5 DEF Paired, ResultsSorted
<1>12. ResultsSorted'
  <2>1. \A p \in DOMAIN context' : IsResult(p)' => context'[p].call <= id
    BY <1>4, <1>5, <1>7, <1>9, <1>10, <1>11
  <2>2. ASSUME NEW p \in DOMAIN context', NEW q \in DOMAIN context',
               IsResult(p)', IsResult(q)', p < q
        PROVE  context'[p].call < context'[q].call
    <3>1. p \in 1..n BY <1>5, <1>6, <1>7, <2>2
    <3>2. IsResult(p) /\ context'[p] = context[p] BY <1>5, <1>7, <2>2, <3>1
    <3>3. CASE q \in 1..n
      <4>1. IsResult(q) /\ context'[q] = context[q] BY <1>5, <1>7, <2>2, <3>3
      <4>2. QED BY <1>5, <2>2, <3>1, <3>2, <3>3, <4>1 DEF Paired, ResultsSorted
    <3>4. CASE q = n + 1 BY <1>4, <1>9, <1>10, <1>11, <3>1, <3>2, <3>4
    <3>5. QED BY <1>7, <2>2, <3>3, <3>4
  <2>3. QED BY <1>4, <2>1, <2>2 DEF ResultsSorted
<1>13. PICK s \in 1..n : \A k \in DOMAIN calls : Id(k) \in context[s].calls
  BY <1>1, <1>5 DEF CallsShown
<1>14. HasCall'
  <2>1. ASSUME NEW p \in DOMAIN context', IsResult(p)'
        PROVE  \E q \in 1..p : context'[p].call \in context'[q].calls
    <3>1. CASE p \in 1..n
      <4>1. IsResult(p) BY <1>7, <2>1, <3>1, <1>5
      <4>2. PICK q \in 1..p : context[p].call \in context[q].calls
        BY <1>5, <3>1, <4>1 DEF Paired, HasCall
      <4>3. QED BY <1>5, <3>1, <4>2
    <3>2. CASE p = n + 1
      <4>1. id \in context[s].calls BY <1>1, <1>13 DEF Id, id
      <4>2. QED BY <1>5, <1>9, <3>2, <4>1
    <3>3. QED BY <1>7, <2>1, <3>1, <3>2
  <2>2. QED BY <2>1 DEF HasCall
<1>15. HasResult'
  <2>1. ASSUME NEW p \in DOMAIN context', NEW c \in context'[p].calls
        PROVE  /\ c <= base + Len(calls)
               /\ c <= id => \E q \in p + 1..Len(context') : IsResult(q)' /\ context'[q].call = c
    <3>1. p \in 1..n BY <1>8, <2>1
    <3>2. c \in context[p].calls /\ c \in Nat BY <1>5, <1>10, <2>1, <3>1
    <3>3. c <= base + Len(calls) BY <1>5, <3>1, <3>2 DEF Paired, HasResult
    <3>4. CASE c = id
      <4>1. n + 1 \in p + 1..Len(context') BY <1>5, <3>1
      <4>2. n + 1 \in DOMAIN context' BY <1>5
      <4>3. QED BY <1>7, <1>9, <3>3, <3>4, <4>1, <4>2
    <3>5. CASE c <= id - 1
      <4>1. PICK q \in p + 1..n : IsResult(q) /\ context[q].call = c
        BY <1>4, <1>5, <3>1, <3>2, <3>5 DEF Paired, HasResult, n
      <4>2. q \in 1..n /\ q \in DOMAIN context' /\ q \in p + 1..Len(context') BY <1>5, <3>1, <4>1
      <4>3. IsResult(q)' /\ context'[q].call = c BY <1>5, <1>7, <4>1, <4>2
      <4>4. QED BY <3>3, <4>2, <4>3
    <3>6. QED BY <1>4, <3>2, <3>3, <3>4, <3>5
  <2>2. QED BY <1>1, <1>4, <2>1 DEF HasResult
<1>16. CallsShown'
  <2>1. s \in DOMAIN context' /\ context'[s] = context[s] BY <1>5
  <2>2. \A k \in DOMAIN calls' : Id(k)' \in context'[s].calls BY <1>1, <1>13, <2>1 DEF Id
  <2>3. QED BY <2>1, <2>2 DEF CallsShown
<1>17. QED BY <1>12, <1>14, <1>15, <1>16 DEF Paired

LEMMA PairedOfAsking ==
  ASSUME TypeOK, Position, Paired, TypeOK', Ask
  PROVE  Paired' /\ CallsShown'
<1> USE DEF turn, response, execution, observed
<1>1. at = "ask" /\ base \in Nat BY Numbers DEF Ask, CompletionFails, Answer, Stall, Skip, Call, Responds
<1>2. calls = NoCalls /\ Len(NoCalls) = 0 BY <1>1 DEF Position, NoCalls
<1>3. UpTo = base BY <1>1 DEF UpTo
<1>4. CASE CompletionFails
  <2>1. /\ context' = context /\ base' = base /\ calls' = calls /\ at' = "idle"
    BY <1>4 DEF CompletionFails, Fail
  <2>2. UpTo' = UpTo BY <1>3, <2>1 DEF UpTo
  <2>3. Paired' BY <1>1, <1>2, <2>1, <2>2, ContextKept
  <2>4. QED BY <2>1, <2>3 DEF CallsShown
<1>5. ASSUME NEW t \in Text \cup {NoText}, Answer(t) PROVE Paired' /\ CallsShown'
  <2>1. /\ context' = Append(context, Assistant(t, {})) /\ base' = base /\ calls' = NoCalls
        /\ at' = "reply"
    BY <1>5 DEF Answer, Responds
  <2>2. UpTo' = UpTo BY <1>3, <2>1 DEF UpTo
  <2>3. Paired' BY <1>1, <1>2, <2>1, <2>2, AssistantAdded
  <2>4. QED BY <2>1, <2>3 DEF CallsShown
<1>6. ASSUME NEW t \in Text \cup {NoText}, NEW cs \in CallSeqs, NEW low \in BOOLEAN,
             Stall(t, cs, low) \/ Skip(t, cs, low)
      PROVE  Paired' /\ CallsShown'
  <2>1. /\ context' = context /\ base' = base /\ at' \in {"reply", "skip"}
    BY <1>6 DEF Stall, Skip, Responds
  <2>2. UpTo' = UpTo BY <1>3, <2>1 DEF UpTo
  <2>3. Len(calls') \in Nat BY DEF TypeOK
  <2>4. Paired' BY <1>1, <1>2, <2>1, <2>2, <2>3, ContextKept
  <2>5. QED BY <2>1, <2>4 DEF CallsShown
<1>7. ASSUME NEW t \in Text \cup {NoText}, NEW cs \in CallSeqs, NEW low \in BOOLEAN,
             Call(t, cs, low)
      PROVE  Paired' /\ CallsShown'
  <2> DEFINE ids == {Id(k) : k \in DOMAIN cs}
  <2>1. /\ context' = Append(context, Assistant(t, ids)) /\ base' = base /\ calls' = cs
        /\ at' = "run"
    BY <1>7 DEF Call, Responds
  <2>2. UpTo' = UpTo BY <1>3, <2>1 DEF UpTo
  <2>3. Len(cs) \in Nat /\ DOMAIN cs = 1..Len(cs) BY CallSeqsAreSeqs
  <2>4. \A c \in ids : c \in Nat /\ c <= base + Len(cs) /\ ~(c <= UpTo)
    BY <1>1, <1>3, <2>3 DEF Id
  <2>5. \A k \in DOMAIN calls' : Id(k)' \in ids BY <2>1 DEF Id
  <2> HIDE DEF ids
  <2>6. ids \in SUBSET Nat BY <2>4
  <2>7. /\ Paired' /\ Len(context) + 1 \in DOMAIN context'
        /\ context'[Len(context) + 1].calls = ids
    <3>1. base + Len(cs) \in Nat /\ base + Len(calls) <= base + Len(cs) BY <1>1, <1>2, <2>3
    <3>2. QED BY <1>7, <2>1, <2>2, <2>4, <2>6, <3>1, AssistantAdded
  <2>8. QED BY <2>5, <2>7 DEF CallsShown
<1>8. QED BY <1>4, <1>5, <1>6, <1>7 DEF Ask

LEMMA PairedOfOthers ==
  ASSUME TypeOK, Position, Paired, CallsShown, TypeOK',
         \/ UNCHANGED vars \/ SkipExecutes \/ SkipEnds \/ Join \/ AllRan \/ Applied \/ Reply
         \/ \E k \in 1..MaxCalls : Goroutine(k)
  PROVE  Paired' /\ CallsShown'
<1> USE DEF turn, response, execution, observed
<1>1. base \in Nat /\ next \in Nat /\ Len(calls) \in Nat /\ Len(calls') \in Nat
  <2>1. calls' \in Seq(Tool) BY DEF TypeOK
  <2>2. QED BY <2>1, Numbers
<1>2. CASE \/ UNCHANGED vars \/ SkipExecutes \/ Join \/ AllRan \/ Reply
           \/ \E k \in 1..MaxCalls : Goroutine(k)
  <2>1. context' = context /\ calls' = calls /\ base' = base
    BY <1>2 DEF vars, SkipExecutes, Join, AllRan, Reply, Goroutine, Start, Finish
  <2>2. UpTo' = UpTo
    <3>1. CASE UNCHANGED vars BY <3>1 DEF vars, UpTo
    <3>2. CASE SkipExecutes \/ Join \/ Reply \/ \E k \in 1..MaxCalls : Goroutine(k)
      BY <3>2 DEF SkipExecutes, Join, Reply, Goroutine, Start, Finish, UpTo
    <3>3. CASE AllRan BY <1>1, <3>3 DEF AllRan, UpTo
    <3>4. QED BY <1>2, <3>1, <3>2, <3>3
  <2>3. at' \in {"run", "apply"} => at \in {"run", "apply"}
    BY <1>2 DEF vars, SkipExecutes, Join, AllRan, Reply, Goroutine, Start, Finish
  <2>4. Paired' BY <1>1, <2>1, <2>2, ContextKept
  <2>5. CallsShown' BY <2>1, <2>3 DEF CallsShown, Id
  <2>6. QED BY <2>4, <2>5
<1>3. CASE Applied
  <2>1. /\ context' = context /\ base' = base + Len(calls) /\ calls' = NoCalls /\ Len(NoCalls) = 0
        /\ at' \notin {"run", "apply"} /\ at = "apply" /\ next = Len(calls) + 1
    BY <1>1, <1>3 DEF Applied, Fail, Position, NoCalls
  <2>2. UpTo' = UpTo BY <1>1, <2>1 DEF UpTo
  <2>3. Paired' BY <1>1, <2>1, <2>2, ContextKept
  <2>4. QED BY <2>1, <2>3 DEF CallsShown
<1>4. CASE SkipEnds
  <2>1. at = "skip" /\ at' = "reply" /\ base' = base /\ calls' = calls BY <1>4 DEF SkipEnds
  <2>2. UpTo' = UpTo BY <2>1 DEF UpTo
  <2>3. CASE context' = context BY <1>1, <2>1, <2>2, <2>3, ContextKept DEF CallsShown
  <2>4. CASE context' = Append(context, Assistant(text, {}))
    <3>1. text \in Text \cup {NoText} BY DEF TypeOK
    <3>2. Paired' BY <1>1, <2>1, <2>2, <2>4, <3>1, AssistantAdded
    <3>3. QED BY <2>1, <3>2 DEF CallsShown
  <2>5. QED BY <1>4, <2>3, <2>4 DEF SkipEnds
<1>5. QED BY <1>2, <1>3, <1>4

LEMMA PairedStep ==
  TypeOK /\ Position /\ Paired /\ CallsShown /\ TypeOK' /\ [Next]_vars => Paired' /\ CallsShown'
<1> SUFFICES ASSUME TypeOK, Position, Paired, CallsShown, TypeOK', [Next]_vars
             PROVE  Paired' /\ CallsShown'
  OBVIOUS
<1>1. CASE BeginTurn
  <2>1. /\ context' = <<User>> /\ at' = "ask" /\ User.role = "user" /\ User.calls = {}
    BY <1>1, Messages DEF BeginTurn
  <2> DEFINE u == User
  <2>2. context' = <<u>> /\ u.role = "user" /\ u.calls = {} BY <2>1
  <2> HIDE DEF u
  <2>3. \A p \in DOMAIN context' : context'[p] = u BY <2>2
  <2>4. \A p \in DOMAIN context' : ~IsResult(p)' /\ context'[p].calls = {}
    BY <2>2, <2>3 DEF IsResult
  <2>5. ResultsSorted' BY <2>4 DEF ResultsSorted
  <2>6. HasCall' /\ HasResult' BY <2>4 DEF HasCall, HasResult
  <2>7. CallsShown' BY <2>1 DEF CallsShown
  <2>8. QED BY <2>5, <2>6, <2>7 DEF Paired
<1>2. QED
  BY <1>1, PairedOfAsking, PairedOfOthers, ResultAdded DEF Next, Worker

LEMMA PairedConclusion == TypeOK /\ Position /\ Paired => AnsweredInOrder
<1> SUFFICES ASSUME TypeOK, Position, Paired PROVE AnsweredInOrder
  OBVIOUS
<1>1. ASSUME at = "ask", NEW p \in DOMAIN context, NEW c \in context[p].calls
      PROVE  \E q \in p + 1..Len(context) : IsResult(q) /\ context[q].call = c
  <2>1. Len(calls) = 0 /\ UpTo = base /\ base \in Nat
    BY <1>1, Numbers DEF Position, NoCalls, UpTo
  <2>2. c \in Nat /\ c <= base BY <1>1, <2>1, MessageTypes DEF Paired, HasResult
  <2>3. QED BY <1>1, <2>1, <2>2 DEF Paired, HasResult
<1>2. QED BY <1>1 DEF AnsweredInOrder, Paired, ResultsSorted, HasCall, IsResult

(* AnsweredInOrder: every call has one result, in the order of the calls,    *)
(* whenever the LLM is asked (act_tool.go:29).                              *)
THEOREM EveryCallAnswered == Spec => []AnsweredInOrder
<1> DEFINE I == TypeOK /\ Position /\ Paired /\ CallsShown
<1>1. Init => I
  <2>1. Init => Position /\ Paired /\ CallsShown
    BY DEF Init, Position, Paired, ResultsSorted, HasCall, HasResult, CallsShown
  <2>2. QED BY <2>1, InitType
<1>2. I /\ [Next]_vars => I' BY TypeStep, PositionStep, PairedStep
<1>3. I => AnsweredInOrder BY PairedConclusion
<1>4. QED BY <1>1, <1>2, <1>3, PTL DEF Spec
-----------------------------------------------------------------------------
(* Requests.  ConvertMessages is the loop of SequenceFacts: what it keeps   *)
(* of the messages, and as what.                                            *)
Keep(msgs) == {n \in 1..Len(msgs) : msgs[n].role = "tool" => msgs[n].call \in Called(msgs)}
Show(msgs) == [n \in 1..Len(msgs) |->
  IF msgs[n].calls \subseteq Answered(msgs) THEN msgs[n] ELSE [msgs[n] EXCEPT !.calls = {}]]

LEMMA Converted ==
  ASSUME NEW msgs \in Seq(Message)
  PROVE  /\ ConvertMessages(msgs) \in Seq(Message)
         /\ Gathered(ConvertMessages(msgs), Len(msgs), Keep(msgs), Show(msgs))
<1> DEFINE Kept(m) == m.role = "tool" => m.call \in Called(msgs)
           Shown(m) == IF m.calls \subseteq Answered(msgs) THEN m ELSE [m EXCEPT !.calls = {}]
           N == Len(msgs)
           G(out) == [n \in 0..Len(msgs) |->
             IF n = 0 THEN <<>>
             ELSE IF Kept(msgs[n]) THEN Append(out[n - 1], Shown(msgs[n])) ELSE out[n - 1]]
           c == CHOOSE out : out = G(out)
<1>1. ConvertMessages(msgs) = c[N] BY Zenon DEF ConvertMessages
<1>2. N \in Nat /\ \A n \in 1..N : msgs[n] \in Message OBVIOUS
<1>3. \A n \in 1..N : /\ n \in Keep(msgs) <=> Kept(msgs[n])
                      /\ Show(msgs)[n] = Shown(msgs[n])
  BY DEF Keep, Show
<1>4. \A n \in 1..N : Show(msgs)[n] \in Message
  <2>1. ASSUME NEW m \in Message PROVE Shown(m) \in Message BY DEF Message
  <2>2. QED BY <1>2, <1>3, <2>1
<1> HIDE DEF Kept, Shown
<1>5. ASSUME NEW out PROVE G(out) = out <=> Collects(out, N, Keep(msgs), Show(msgs))
  <2>1. \A n \in 0..N : n = 0 \/ n \in 1..N BY <1>2
  <2>2. G(out) = [n \in 0..N |->
           IF n = 0 THEN <<>>
           ELSE IF n \in Keep(msgs) THEN Append(out[n - 1], Show(msgs)[n]) ELSE out[n - 1]]
    BY <1>3, <2>1
  <2>3. QED BY <2>2 DEF Collects
<1>6. PICK out : Collects(out, N, Keep(msgs), Show(msgs)) BY <1>2, LoopDefined
<1> HIDE DEF G
<1>7. \E o : o = G(o) BY <1>5, <1>6
<1>8. c = G(c) BY <1>7, Zenon
<1>9. Collects(c, N, Keep(msgs), Show(msgs)) BY <1>5, <1>8
<1> HIDE DEF c, N
<1>10. c[N] \in Seq(Message) /\ Gathered(c[N], N, Keep(msgs), Show(msgs))
  BY <1>2, <1>4, <1>9, LoopCollects
<1>11. QED BY <1>1, <1>10 DEF N

(* A result calls nothing. *)
ResultsCallNothing == \A p \in DOMAIN context : IsResult(p) => context[p].calls = {}

LEMMA CallNothingStep ==
  TypeOK /\ ResultsCallNothing /\ TypeOK' /\ [Next]_vars => ResultsCallNothing'
<1> SUFFICES ASSUME TypeOK, ResultsCallNothing, TypeOK', [Next]_vars
             PROVE  ResultsCallNothing'
  OBVIOUS
<1>1. context \in Seq(Message) BY DEF TypeOK
<1>2. ASSUME context' = context PROVE ResultsCallNothing'
  BY <1>2 DEF ResultsCallNothing, IsResult
<1>3. ASSUME NEW t \in Text \cup {NoText}, NEW ids \in SUBSET Nat,
             context' = Append(context, Assistant(t, ids))
      PROVE  ResultsCallNothing'
  <2> DEFINE a == Assistant(t, ids)
  <2>1. a \in Message /\ a.role = "assistant" BY Messages
  <2> HIDE DEF a
  <2>2. context' = Append(context, a) BY <1>3 DEF a
  <2>3. \A p \in DOMAIN context' :
          \/ p \in DOMAIN context /\ context'[p] = context[p]
          \/ context'[p] = a
    BY <1>1, <2>1, <2>2
  <2>4. QED BY <2>1, <2>3 DEF ResultsCallNothing, IsResult
<1>4. ASSUME Apply PROVE ResultsCallNothing'
  <2> DEFINE rs == Results(next)
  <2>1. at = "apply" /\ next \in DOMAIN calls /\ context' = context \o rs
    <3>1. at = "apply" /\ next <= Len(calls) /\ context' = context \o rs BY <1>4 DEF Apply
    <3>2. calls \in Seq(Tool) BY DEF TypeOK
    <3>3. QED BY <3>1, <3>2, Numbers
  <2>2. /\ rs \in Seq(Message) /\ Len(rs) \in {1, 2} /\ rs[1].calls = {}
        /\ Len(rs) = 2 => rs[2].calls = {}
    BY <2>1, ResultsShape
  <2> HIDE DEF rs
  <2>3. \A i \in 1..Len(rs) : rs[i].calls = {} BY <2>2
  <2>4. ASSUME NEW p \in DOMAIN context'
        PROVE  \/ p \in DOMAIN context /\ context'[p] = context[p]
               \/ \E i \in 1..Len(rs) : context'[p] = rs[i]
    <3>1. p \in 1..Len(context) + Len(rs) /\ Len(context) \in Nat /\ Len(rs) \in Nat
      BY <1>1, <2>1, <2>2
    <3>2. CASE p <= Len(context) BY <1>1, <2>1, <2>2, <3>1, <3>2
    <3>3. CASE p > Len(context)
      <4>1. p - Len(context) \in 1..Len(rs) /\ context'[p] = rs[p - Len(context)]
        BY <1>1, <2>1, <2>2, <3>1, <3>3
      <4>2. QED BY <4>1
    <3>4. QED BY <3>1, <3>2, <3>3
  <2>5. QED BY <2>3, <2>4 DEF ResultsCallNothing, IsResult
<1>5. CASE BeginTurn
  <2>1. context' = <<User>> /\ User.role = "user" BY <1>5, Messages DEF BeginTurn
  <2> DEFINE u == User
  <2> HIDE DEF u
  <2>2. context' = <<u>> /\ u.role = "user" BY <2>1 DEF u
  <2>3. \A p \in DOMAIN context' : context'[p] = u BY <2>2
  <2>4. QED BY <2>2, <2>3 DEF ResultsCallNothing, IsResult
<1>6. CASE Ask
  <2>1. CASE CompletionFails BY <1>2, <2>1 DEF CompletionFails
  <2>2. ASSUME NEW t \in Text \cup {NoText}, Answer(t) PROVE ResultsCallNothing'
    <3>1. {} \in SUBSET Nat /\ context' = Append(context, Assistant(t, {}))
      BY <2>2 DEF Answer
    <3>2. QED BY <1>3, <3>1
  <2>3. ASSUME NEW t \in Text \cup {NoText}, NEW cs \in CallSeqs, NEW low \in BOOLEAN,
               Stall(t, cs, low) \/ Skip(t, cs, low)
        PROVE  ResultsCallNothing'
    BY <1>2, <2>3 DEF Stall, Skip
  <2>4. ASSUME NEW t \in Text \cup {NoText}, NEW cs \in CallSeqs, NEW low \in BOOLEAN,
               Call(t, cs, low)
        PROVE  ResultsCallNothing'
    <3>1. {Id(k) : k \in DOMAIN cs} \in SUBSET Nat
      BY Numbers, CallSeqsAreSeqs DEF Id
    <3>2. context' = Append(context, Assistant(t, {Id(k) : k \in DOMAIN cs}))
      BY <2>4 DEF Call
    <3>3. QED BY <1>3, <3>1, <3>2
  <2>5. QED BY <1>6, <2>1, <2>2, <2>3, <2>4 DEF Ask
<1>7. CASE SkipEnds
  <2>1. CASE context' = context BY <1>2, <2>1
  <2>2. CASE context' = Append(context, Assistant(text, {}))
    <3>1. text \in Text \cup {NoText} /\ {} \in SUBSET Nat BY DEF TypeOK
    <3>2. QED BY <1>3, <2>2, <3>1
  <2>3. QED BY <1>7, <2>1, <2>2 DEF SkipEnds
<1>8. CASE UNCHANGED vars \/ SkipExecutes \/ Join \/ AllRan \/ Applied \/ Reply
            \/ \E k \in 1..MaxCalls : Goroutine(k)
  <2>1. context' = context
    BY <1>8 DEF vars, SkipExecutes, Join, AllRan, Applied, Reply, Goroutine, Start, Finish
  <2>2. QED BY <1>2, <2>1
<1>9. QED BY <1>4, <1>5, <1>6, <1>7, <1>8 DEF Next, Worker

(* A message with calls or with a result, the request of which it is part,  *)
(* and its partner in the context: the partner is in the request, too.      *)
LEMMA RequestComplete ==
  ASSUME TypeOK, ResultsCallNothing, AnsweredInOrder, at = "ask",
         NEW n \in 0..Len(context) - 1, NEW r, r = ConvertMessages(Trimmed(n)),
         NEW p \in DOMAIN r
  PROVE  /\ r[p].role = "tool" => \E q \in 1..p : r[p].call \in r[q].calls
         /\ \A c \in r[p].calls : \E q \in p + 1..Len(r) : r[q].role = "tool" /\ r[q].call = c
<1> DEFINE ms == Trimmed(n)
           N == Len(ms)
<1>1. context \in Seq(Message) BY DEF TypeOK
<1>2. /\ ms \in Seq(Message) /\ N = Len(context) - n /\ N \in Nat /\ n \in Nat
      /\ \A i \in 1..N : ms[i] = context[n + i] /\ n + i \in DOMAIN context
      /\ \A i \in 1..N : ms[i] \in Message
      /\ DOMAIN context = 1..Len(context)
  BY <1>1 DEF Trimmed
<1> HIDE DEF ms
<1>3. Gathered(r, N, Keep(ms), Show(ms)) BY <1>2, Converted DEF ms
<1>4. PICK from : Origin(from, r, N, Keep(ms), Show(ms)) BY <1>3 DEF Gathered
<1> DEFINE L == Len(r)
<1>5. r \in Seq(Message)
  BY <1>2, Converted DEF ms
<1>6. L \in Nat /\ DOMAIN r = 1..L BY <1>5
<1>7. /\ \A i \in 1..L : from[i] \in 1..N /\ from[i] \in Keep(ms) /\ r[i] = Show(ms)[from[i]]
      /\ \A i, j \in 1..L : i < j => from[i] < from[j]
      /\ \A k \in 1..N : k \in Keep(ms) => \E i \in 1..L : from[i] = k
  BY <1>4 DEF Origin
<1> HIDE DEF L, N
<1>8. \A i \in 1..N :
        /\ Show(ms)[i].role = ms[i].role /\ Show(ms)[i].call = ms[i].call
        /\ Show(ms)[i].calls = IF ms[i].calls \subseteq Answered(ms) THEN ms[i].calls ELSE {}
  <2>1. ASSUME NEW m \in Message
        PROVE  /\ [m EXCEPT !.calls = {}].role = m.role /\ [m EXCEPT !.calls = {}].call = m.call
               /\ [m EXCEPT !.calls = {}].calls = {}
    BY DEF Message
  <2>2. QED BY <1>2, <2>1 DEF Show, N
\* Every call of a message of the request has its result behind it there.
<1>9. ASSUME NEW i \in 1..N, NEW c \in ms[i].calls
      PROVE  \E k \in 1..N : i < k /\ ms[k].role = "tool" /\ ms[k].call = c
  <2>1. n + i \in DOMAIN context /\ c \in context[n + i].calls BY <1>2, <1>9
  <2>2. PICK q \in n + i + 1..Len(context) : context[q].role = "tool" /\ context[q].call = c
    BY <2>1 DEF AnsweredInOrder
  <2> HIDE DEF N
  <2>3. q - n \in 1..N /\ i < q - n /\ q = n + (q - n)
    <3>1. n \in Nat /\ N = Len(context) - n /\ N \in Nat /\ i \in Nat /\ Len(context) \in Nat
      BY <1>1, <1>2
    <3>2. q \in Nat /\ n + i + 1 <= q /\ q <= Len(context) BY <2>2, <3>1
    <3>3. QED BY <3>1, <3>2
  <2>4. ms[q - n] = context[q] BY <1>2, <2>3
  <2>5. QED BY <2>2, <2>3, <2>4
<1>10. ASSUME NEW i \in 1..N PROVE ms[i].calls \subseteq Answered(ms)
  <2>1. DOMAIN ms = 1..N BY <1>2 DEF N
  <2>2. ASSUME NEW c \in ms[i].calls PROVE c \in Answered(ms)
    BY <1>9, <2>1, <2>2 DEF Answered
  <2>3. QED BY <2>2
<1>11. \A i \in 1..N : Show(ms)[i].calls = ms[i].calls BY <1>8, <1>10
<1>12. DOMAIN ms = 1..N BY <1>2 DEF N
\* Results differ in their calls.
<1>13. ASSUME NEW i \in 1..N, NEW k \in 1..N, ms[i].role = "tool", ms[k].role = "tool",
              ms[i].call = ms[k].call
       PROVE  i = k
  <2>1. \A a, b \in DOMAIN context :
          context[a].role = "tool" /\ context[b].role = "tool" /\ a < b
            => context[a].call < context[b].call
    BY DEF AnsweredInOrder
  <2>2. /\ n + i \in DOMAIN context /\ n + k \in DOMAIN context
        /\ ms[i] = context[n + i] /\ ms[k] = context[n + k]
    BY <1>2
  <2>3. context[n + i].call \in Nat BY <2>2, MessageTypes
  <2>4. ~(n + i < n + k) /\ ~(n + k < n + i) BY <1>13, <2>1, <2>2, <2>3
  <2>5. QED BY <1>2, <2>4
<1> DEFINE f == from[p]
<1>14. p \in 1..L /\ f \in 1..N /\ f \in Keep(ms) /\ r[p] = Show(ms)[f] BY <1>6, <1>7
<1>15. ASSUME r[p].role = "tool" PROVE \E q \in 1..p : r[p].call \in r[q].calls
  <2>1. ms[f].role = "tool" /\ r[p].call = ms[f].call BY <1>8, <1>14, <1>15
  <2>2. ms[f].call \in Called(ms) BY <1>14, <2>1 DEF Keep
  <2>3. PICK g \in 1..N : ms[f].call \in ms[g].calls BY <1>12, <2>2 DEF Called
  <2>4. PICK k \in 1..N : g < k /\ ms[k].role = "tool" /\ ms[k].call = ms[f].call BY <1>9, <2>3
  <2>5. k = f BY <1>13, <1>14, <2>1, <2>4
  <2>6. ms[g].role # "tool"
    <3>1. n + g \in DOMAIN context /\ ms[g] = context[n + g] BY <1>2
    <3>2. QED BY <2>3, <3>1 DEF ResultsCallNothing, IsResult
  <2>7. g \in Keep(ms) BY <2>6 DEF Keep, N
  <2>8. PICK q \in 1..L : from[q] = g BY <1>7, <2>7
  <2>9. r[q].calls = ms[g].calls BY <1>7, <1>11, <2>8
  <2>10. q <= p
    <3>1. f \in Nat /\ g \in Nat /\ g < f BY <1>14, <2>4, <2>5
    <3>2. p < q => f < g BY <1>7, <1>14, <2>8
    <3>3. ~(p < q) BY <3>1, <3>2
    <3>4. QED BY <1>6, <1>14, <3>3
  <2>11. q \in 1..p BY <1>6, <1>14, <2>10
  <2>12. QED BY <2>1, <2>3, <2>9, <2>11
<1>16. ASSUME NEW c \in r[p].calls
       PROVE  \E q \in p + 1..Len(r) : r[q].role = "tool" /\ r[q].call = c
  <2>1. c \in ms[f].calls BY <1>11, <1>14, <1>16
  <2>2. PICK k \in 1..N : f < k /\ ms[k].role = "tool" /\ ms[k].call = c BY <1>9, <1>14, <2>1
  <2>3. c \in Called(ms) BY <1>12, <1>14, <2>1 DEF Called
  <2>4. k \in Keep(ms) BY <2>2, <2>3 DEF Keep, N
  <2>5. PICK q \in 1..L : from[q] = k BY <1>7, <2>4
  <2>6. r[q].role = "tool" /\ r[q].call = c BY <1>7, <1>8, <2>2, <2>5
  <2>7. p < q
    <3>1. f \in Nat /\ k \in Nat BY <1>14
    <3>2. q < p => k < f BY <1>7, <1>14, <2>5
    <3>3. q # p BY <2>2, <2>5, <3>1
    <3>4. ~(q < p) BY <2>2, <3>1, <3>2
    <3>5. QED BY <1>6, <1>14, <3>3, <3>4
  <2>8. q \in p + 1..L BY <1>6, <1>14, <2>7
  <2>9. QED BY <2>6, <2>8 DEF L
<1>17. QED BY <1>15, <1>16

(* RequestsComplete: however much of the context is cut off, and whatever   *)
(* ConvertMessages leaves out of the rest, a request has every call with    *)
(* its result and every result with its call (llmconv.go:25).               *)
THEOREM RequestsAreComplete == Spec => []RequestsComplete
<1>1. Init => ResultsCallNothing BY DEF Init, ResultsCallNothing
<1>2. AnsweredInOrder /\ TypeOK /\ ResultsCallNothing => RequestsComplete
  BY RequestComplete DEF RequestsComplete, Requests
<1>3. Spec => []TypeOK BY TypeCorrect
<1>4. Spec => []AnsweredInOrder BY EveryCallAnswered
<1>5. TypeOK /\ ResultsCallNothing /\ TypeOK' /\ [Next]_vars => ResultsCallNothing'
  BY CallNothingStep
<1>6. QED BY <1>1, <1>2, <1>3, <1>4, <1>5, PTL DEF Spec
-----------------------------------------------------------------------------
(* Failures. *)
AllSeen == \A p \in DOMAIN context : context[p].failed => p <= seen

FailuresSeen ==
  /\ at \in {"skip", "run", "reply"} => AllSeen
  /\ at = "idle" /\ outcome # "failed" => AllSeen
  /\ at = "apply" => AllSeen \/ \E k \in DOMAIN slot : slot[k] = "failed"

LEMMA NoFailureAdded ==
  ASSUME TypeOK, AllSeen, NEW t \in Text \cup {NoText}, NEW ids \in SUBSET Nat,
         context' = Append(context, Assistant(t, ids)), seen' = seen
  PROVE  AllSeen'
<1> DEFINE a == Assistant(t, ids)
<1>1. a \in Message /\ ~a.failed BY DEF Assistant, User, Message
<1>2. context' = Append(context, a) /\ context \in Seq(Message) BY DEF TypeOK
<1> HIDE DEF a
<1>3. \A p \in DOMAIN context' : (p \in DOMAIN context /\ context'[p] = context[p]) \/ context'[p] = a
  BY <1>1, <1>2
<1>4. QED BY <1>1, <1>3 DEF AllSeen

LEMMA ResultsFailed ==
  ASSUME TypeOK, at = "apply", NEW k \in DOMAIN calls, NEW i \in DOMAIN Results(k),
         Results(k)[i].failed
  PROVE  slot[k] = "failed"
<1>1. CASE slot[k] = "done" /\ calls[k] = "look"
  <2>1. Results(k) = <<Result(Id(k), FALSE), User>> BY <1>1 DEF Results
  <2> DEFINE r == Result(Id(k), FALSE)
             u == User
  <2>2. ~r.failed /\ ~u.failed BY DEF Result, User
  <2>3. Results(k) = <<r, u>> BY <2>1
  <2> HIDE DEF r, u
  <2>4. QED BY <2>2, <2>3
<1>2. CASE ~(slot[k] = "done" /\ calls[k] = "look")
  <2> DEFINE f == slot[k] = "failed"
             r == Result(Id(k), f)
  <2>1. Results(k) = <<r>> BY <1>2 DEF Results
  <2>2. r.failed = f BY DEF Result, User
  <2> HIDE DEF r
  <2>3. Results(k)[i] = r BY <2>1
  <2>4. QED BY <2>2, <2>3
<1>3. QED BY <1>1, <1>2

LEMMA FailuresOfAsking ==
  ASSUME TypeOK, Ask
  PROVE  FailuresSeen'
<1> USE DEF turn, response, execution, observed
<1>1. context \in Seq(Message) /\ Len(context) \in Nat /\ DOMAIN context = 1..Len(context)
  BY DEF TypeOK
<1>2. CASE CompletionFails
  BY <1>2 DEF CompletionFails, Fail, FailuresSeen
<1>3. ASSUME NEW t \in Text \cup {NoText}, NEW ids \in SUBSET Nat,
             context' = Append(context, Assistant(t, ids)), seen' = Len(context)
      PROVE  AllSeen'
  <2> DEFINE a == Assistant(t, ids)
  <2>1. a \in Message /\ ~a.failed BY DEF Assistant, User, Message
  <2>2. context' = Append(context, a) BY <1>3
  <2> HIDE DEF a
  <2>3. \A p \in DOMAIN context' : p \in 1..Len(context) \/ context'[p] = a
    BY <1>1, <2>1, <2>2
  <2>4. QED BY <1>3, <2>1, <2>3 DEF AllSeen
<1>4. ASSUME NEW t \in Text \cup {NoText}, Answer(t) PROVE FailuresSeen'
  <2>1. AllSeen' BY <1>3, <1>4 DEF Answer, Responds
  <2>2. at' = "reply" BY <1>4 DEF Answer
  <2>3. QED BY <2>1, <2>2 DEF FailuresSeen
<1>5. ASSUME NEW t \in Text \cup {NoText}, NEW cs \in CallSeqs, NEW low \in BOOLEAN,
             Stall(t, cs, low) \/ Skip(t, cs, low)
      PROVE  FailuresSeen'
  <2>1. context' = context /\ seen' = Len(context) /\ at' \in {"reply", "skip"}
    BY <1>5 DEF Stall, Skip, Responds
  <2>2. AllSeen' BY <1>1, <2>1 DEF AllSeen
  <2>3. QED BY <2>1, <2>2 DEF FailuresSeen
<1>6. ASSUME NEW t \in Text \cup {NoText}, NEW cs \in CallSeqs, NEW low \in BOOLEAN,
             Call(t, cs, low)
      PROVE  FailuresSeen'
  <2>1. {Id(k) : k \in DOMAIN cs} \in SUBSET Nat
    BY Numbers, CallSeqsAreSeqs DEF Id
  <2>2. AllSeen' BY <1>3, <1>6, <2>1 DEF Call, Responds
  <2>3. at' = "run" BY <1>6 DEF Call
  <2>4. QED BY <2>2, <2>3 DEF FailuresSeen
<1>7. QED BY <1>2, <1>4, <1>5, <1>6 DEF Ask

LEMMA FailuresOfApply ==
  ASSUME TypeOK, FailuresSeen, Apply
  PROVE  FailuresSeen'
<1> DEFINE rs == Results(next)
<1>1. /\ at = "apply" /\ at' = "apply" /\ next \in DOMAIN calls /\ next \in DOMAIN slot
      /\ slot' = slot /\ seen' = seen
  BY Numbers DEF Apply, TypeOK
<1>2. rs \in Seq(Message) /\ \A i \in DOMAIN rs : rs[i].failed => slot[next] = "failed"
  BY <1>1, ResultsShape, ResultsFailed
<1>3. context \in Seq(Message) /\ context' = context \o rs BY DEF TypeOK, Apply
<1> HIDE DEF rs
<1>4. \A p \in DOMAIN context' : (p \in DOMAIN context /\ context'[p] = context[p])
                                 \/ \E i \in DOMAIN rs : context'[p] = rs[i]
  <2>1. ASSUME NEW p \in DOMAIN context', p > Len(context)
        PROVE  p - Len(context) \in DOMAIN rs /\ context'[p] = rs[p - Len(context)]
    BY <1>2, <1>3, <2>1
  <2>2. ASSUME NEW p \in DOMAIN context', p <= Len(context)
        PROVE  p \in DOMAIN context /\ context'[p] = context[p]
    BY <1>2, <1>3, <2>2
  <2>3. \A p \in DOMAIN context' : p \in Nat /\ Len(context) \in Nat BY <1>2, <1>3
  <2>4. QED BY <2>1, <2>2, <2>3
<1>5. CASE \E k \in DOMAIN slot : slot[k] = "failed"
  BY <1>1, <1>5 DEF FailuresSeen
<1>6. CASE ~ \E k \in DOMAIN slot : slot[k] = "failed"
  <2>1. AllSeen BY <1>1, <1>6 DEF FailuresSeen
  <2>2. AllSeen' BY <1>1, <1>2, <1>4, <1>6, <2>1 DEF AllSeen
  <2>3. QED BY <1>1, <2>2 DEF FailuresSeen
<1>7. QED BY <1>5, <1>6

LEMMA FailuresOfOthers ==
  ASSUME TypeOK, FailuresSeen,
         \/ UNCHANGED vars \/ SkipExecutes \/ SkipEnds \/ Join \/ AllRan \/ Applied \/ Reply
         \/ \E k \in 1..MaxCalls : Goroutine(k)
  PROVE  FailuresSeen'
<1> USE DEF turn, response, execution, observed
<1>1. CASE UNCHANGED vars BY <1>1 DEF vars, FailuresSeen, AllSeen
<1>2. CASE SkipExecutes \/ Join \/ AllRan \/ Reply \/ \E k \in 1..MaxCalls : Goroutine(k)
  <2>1. context' = context /\ seen' = seen
    BY <1>2 DEF SkipExecutes, Join, AllRan, Reply, Goroutine, Start, Finish
  <2>2. at \in {"skip", "run", "reply"} /\ at' # "ask"
    BY <1>2 DEF SkipExecutes, Join, AllRan, Reply, Goroutine, Start, Finish
  <2>3. AllSeen' BY <2>1, <2>2 DEF FailuresSeen, AllSeen
  <2>4. QED BY <2>3 DEF FailuresSeen
<1>3. CASE Applied
  <2>1. context' = context /\ seen' = seen /\ at = "apply" BY <1>3 DEF Applied
  <2>2. CASE AllStopAfter
    <3>1. AllSeen BY <2>1, <2>2 DEF AllStopAfter, FailuresSeen
    <3>2. AllSeen' BY <2>1, <3>1 DEF AllSeen
    <3>3. QED BY <3>2 DEF FailuresSeen
  <2>3. CASE ~AllStopAfter
    BY <1>3, <2>3 DEF Applied, Fail, FailuresSeen
  <2>4. QED BY <2>2, <2>3
<1>4. CASE SkipEnds
  <2>1. at = "skip" /\ at' = "reply" /\ seen' = seen BY <1>4 DEF SkipEnds
  <2>2. AllSeen BY <2>1 DEF FailuresSeen
  <2>3. CASE context' = context BY <2>1, <2>2, <2>3 DEF FailuresSeen, AllSeen
  <2>4. CASE context' = Append(context, Assistant(text, {}))
    <3>1. text \in Text \cup {NoText} BY DEF TypeOK
    <3>2. {} \in SUBSET Nat OBVIOUS
    <3>3. seen' = seen BY <2>1
    <3>4. AllSeen' BY ONLY TypeOK, <2>2, <2>4, <3>1, <3>2, <3>3, NoFailureAdded
    <3>5. QED BY <2>1, <3>4 DEF FailuresSeen
  <2>5. QED BY <1>4, <2>3, <2>4 DEF SkipEnds
<1>5. QED BY <1>1, <1>2, <1>3, <1>4

(* Where a failure is: in the context, or not yet, or beside skip_response.  *)
Unshown ==
  IF at \in {"run", "apply"}
  THEN {Id(k) : k \in {i \in DOMAIN slot : slot[i] = "failed" /\ (at = "apply" => i >= next)}}
  ELSE BesideSkip
InContext(id) == \E p \in DOMAIN context : context[p].call = id /\ context[p].failed
FailuresKnown ==
  /\ \A id \in failures : InContext(id) \/ id \in Unshown
  /\ at = "skip" => Offers(calls)

LEMMA ContextGrows ==
  ASSUME TypeOK, NEW more \in Seq(Message), context' = context \o more
  PROVE  /\ \A id : InContext(id) => InContext(id)'
         /\ \A i \in DOMAIN more : more[i].failed => InContext(more[i].call)'
<1>1. context \in Seq(Message) BY DEF TypeOK
<1>2. \A p \in DOMAIN context : p \in DOMAIN context' /\ context'[p] = context[p] BY <1>1
<1>3. \A i \in DOMAIN more :
        Len(context) + i \in DOMAIN context' /\ context'[Len(context) + i] = more[i]
  BY <1>1
<1>4. QED BY <1>2, <1>3 DEF InContext

LEMMA ContextGrowsByOne ==
  ASSUME TypeOK, NEW t \in Text \cup {NoText}, NEW ids \in SUBSET Nat,
         context' = Append(context, Assistant(t, ids))
  PROVE  \A id : InContext(id) => InContext(id)'
<1> DEFINE a == Assistant(t, ids)
<1>1. a \in Message BY Messages
<1>2. context \in Seq(Message) /\ context' = Append(context, a) BY DEF TypeOK
<1> HIDE DEF a
<1>3. \A p \in DOMAIN context : p \in DOMAIN context' /\ context'[p] = context[p] BY <1>1, <1>2
<1>4. QED BY <1>3 DEF InContext

LEMMA FailedResult ==
  ASSUME TypeOK, at = "apply", NEW k \in DOMAIN calls, slot[k] = "failed"
  PROVE  Results(k)[1].failed /\ 1 \in DOMAIN Results(k)
<1>1. Results(k) = <<Result(Id(k), TRUE)>> BY DEF Results
<1> DEFINE r == Result(Id(k), TRUE)
<1>2. r.failed BY DEF Result, User
<1>3. Results(k) = <<r>> BY <1>1
<1> HIDE DEF r
<1>4. QED BY <1>2, <1>3

LEMMA KnownOfAsking ==
  ASSUME TypeOK, Position, FailuresKnown, Ask
  PROVE  FailuresKnown'
<1> USE DEF turn, response, execution, observed
<1>1. at = "ask" /\ calls = NoCalls /\ DOMAIN calls = {}
  <2>1. at = "ask" BY DEF Ask, CompletionFails, Answer, Stall, Skip, Call, Responds
  <2>2. QED BY <2>1 DEF Position, NoCalls
<1>2. \A id \in failures : InContext(id)
  BY <1>1 DEF FailuresKnown, Unshown, BesideSkip, Offers
<1>3. ASSUME \A id \in failures : InContext(id)', failures' = failures, at' = "skip" => Offers(calls')
      PROVE  FailuresKnown'
  BY <1>3 DEF FailuresKnown, Offers
<1>4. ASSUME context' = context PROVE \A id \in failures : InContext(id)'
  BY <1>2, <1>4 DEF InContext
<1>5. CASE CompletionFails BY <1>3, <1>4, <1>5 DEF CompletionFails, Fail
<1>6. ASSUME NEW t \in Text \cup {NoText}, Answer(t) PROVE FailuresKnown'
  <2>1. /\ context' = Append(context, Assistant(t, {})) /\ failures' = failures /\ at' = "reply"
        /\ {} \in SUBSET Nat
    BY <1>6 DEF Answer, Responds
  <2>2. \A id \in failures : InContext(id)' BY <1>2, <2>1, ContextGrowsByOne
  <2>3. QED BY <1>3, <2>1, <2>2
<1>7. ASSUME NEW t \in Text \cup {NoText}, NEW cs \in CallSeqs, NEW low \in BOOLEAN,
             Stall(t, cs, low) \/ Skip(t, cs, low)
      PROVE  FailuresKnown'
  <2>1. /\ context' = context /\ failures' = failures
        /\ at' = "reply" \/ (at' = "skip" /\ calls' = cs /\ Offers(cs))
    BY <1>7 DEF Stall, Skip, Responds
  <2>2. QED BY <1>3, <1>4, <2>1
<1>8. ASSUME NEW t \in Text \cup {NoText}, NEW cs \in CallSeqs, NEW low \in BOOLEAN,
             Call(t, cs, low)
      PROVE  FailuresKnown'
  <2>1. {Id(k) : k \in DOMAIN cs} \in SUBSET Nat BY Numbers, CallSeqsAreSeqs DEF Id
  <2>2. /\ context' = Append(context, Assistant(t, {Id(k) : k \in DOMAIN cs}))
        /\ failures' = failures /\ at' = "run"
    BY <1>8 DEF Call, Responds
  <2>3. \A id \in failures : InContext(id)' BY <1>2, <2>1, <2>2, ContextGrowsByOne
  <2>4. QED BY <1>3, <2>2, <2>3
<1>9. QED BY <1>5, <1>6, <1>7, <1>8 DEF Ask

LEMMA KnownOfTools ==
  ASSUME TypeOK, FailuresKnown, SkipExecutes \/ Join \/ AllRan \/ \E k \in 1..MaxCalls : Goroutine(k)
  PROVE  FailuresKnown'
<1> USE DEF turn, response, execution, observed
<1>1. /\ context' = context /\ calls' = calls /\ base' = base
      /\ at' = "skip" => at = "skip"
  BY DEF SkipExecutes, Join, AllRan, Goroutine, Start, Finish
<1>2. \A id : InContext(id) => InContext(id)' BY <1>1 DEF InContext
<1>3. ASSUME Unshown \subseteq Unshown', failures' \subseteq failures \cup Unshown'
      PROVE  FailuresKnown'
  BY <1>1, <1>2, <1>3 DEF FailuresKnown, Offers
<1>4. CASE SkipExecutes
  <2>1. /\ at = "skip" /\ at' = "skip" /\ next \in DOMAIN calls
        /\ failures' \subseteq failures \cup {Id(next)}
    BY <1>4 DEF SkipExecutes, TypeOK
  <2>2. Unshown = Unshown' /\ Id(next) \in Unshown
    BY <1>1, <2>1 DEF FailuresKnown, Unshown, BesideSkip, Offers, Id
  <2>3. QED BY <1>3, <2>1, <2>2
<1>5. CASE Join
  <2>1. at = "run" /\ at' = "run" /\ slot' = slot /\ failures' = failures BY <1>5 DEF Join
  <2>2. Unshown = Unshown' BY <1>1, <2>1 DEF Unshown, Id
  <2>3. QED BY <1>3, <2>1, <2>2
<1>6. CASE AllRan
  <2>1. at = "run" /\ at' = "apply" /\ next' = 1 /\ slot' = slot /\ failures' = failures
    BY <1>6 DEF AllRan
  <2>2. \A i \in DOMAIN slot : i >= 1 BY DEF TypeOK
  <2>3. Unshown = Unshown' BY <1>1, <2>1, <2>2 DEF Unshown, Id
  <2>4. QED BY <1>3, <2>1, <2>3
<1>7. ASSUME NEW k \in 1..MaxCalls, Goroutine(k) PROVE FailuresKnown'
  <2>1. /\ at = "run" /\ at' = "run" /\ k \in DOMAIN slot /\ DOMAIN slot' = DOMAIN slot
        /\ slot[k] # "failed" /\ \A j \in DOMAIN slot : j # k => slot'[j] = slot[j]
    BY <1>7, StartFacts, FinishFacts DEF Goroutine
  <2>2. Unshown \subseteq Unshown' BY <1>1, <2>1 DEF Unshown, Id
  <2>3. failures' = failures \/ (failures' = failures \cup {Id(k)} /\ slot'[k] = "failed")
    BY <1>7, <2>1 DEF Goroutine, Start, Finish, TypeOK
  <2>4. slot'[k] = "failed" => Id(k) \in Unshown' BY <1>1, <2>1 DEF Unshown, Id
  <2>5. QED BY <1>3, <2>2, <2>3, <2>4
<1>8. QED BY <1>4, <1>5, <1>6, <1>7

LEMMA KnownOfApply ==
  ASSUME TypeOK, FailuresKnown, Apply
  PROVE  FailuresKnown'
<1>1. /\ at = "apply" /\ at' = "apply" /\ next \in DOMAIN calls /\ next \in Nat /\ DOMAIN slot = DOMAIN calls
      /\ slot' = slot /\ base' = base /\ next' = next + 1 /\ failures' = failures
  BY Numbers DEF Apply, TypeOK, response
<1>2. PICK rs \in Seq(Message) : rs = Results(next) BY <1>1, ResultsShape
<1>3. PICK n : n = Id(next) OBVIOUS
<1>4. context' = context \o rs /\ rs[1].call = n BY <1>1, <1>2, <1>3, ResultsShape DEF Apply
<1>5. slot[next] = "failed" => rs[1].failed /\ 1 \in DOMAIN rs BY <1>1, <1>2, FailedResult
<1>6. /\ \A id : InContext(id) => InContext(id)'
      /\ \A i \in DOMAIN rs : rs[i].failed => InContext(rs[i].call)'
  BY <1>4, ContextGrows
<1>7. slot[next] = "failed" => InContext(n)' BY <1>4, <1>5, <1>6
<1>8. ASSUME NEW id, id \in Unshown PROVE id \in Unshown' \/ InContext(id)'
  <2>1. PICK i \in DOMAIN slot : slot[i] = "failed" /\ i >= next /\ id = Id(i)
    BY <1>1, <1>8 DEF Unshown
  <2>2. CASE i = next BY <1>3, <1>7, <2>1, <2>2
  <2>3. CASE i # next
    <3>1. \A k \in DOMAIN slot : k \in Nat BY DEF TypeOK
    <3>2. i >= next + 1 BY <1>1, <2>1, <2>3, <3>1
    <3>3. \A k : Id(k)' = base + k BY <1>1 DEF Id
    <3>4. QED BY <1>1, <2>1, <3>2, <3>3 DEF Unshown, Id
  <2>4. QED BY <2>2, <2>3
<1>9. QED BY <1>1, <1>6, <1>8 DEF FailuresKnown

LEMMA KnownOfEnds ==
  ASSUME TypeOK, FailuresKnown, Applied \/ SkipEnds \/ Reply \/ UNCHANGED vars
  PROVE  FailuresKnown'
<1> USE DEF turn, response, execution, observed
<1>1. CASE Applied
  <2>1. /\ at = "apply" /\ next > Len(calls) /\ DOMAIN slot = 1..Len(calls) /\ Len(calls) \in Nat
        /\ next \in Nat
    BY <1>1 DEF Applied, TypeOK
  <2>2. Unshown = {} BY <2>1 DEF Unshown
  <2>3. context' = context /\ failures' = failures /\ at' # "skip"
    BY <1>1 DEF Applied, Fail
  <2>4. \A id \in failures : InContext(id)' BY <2>2, <2>3 DEF FailuresKnown, InContext
  <2>5. QED BY <2>3, <2>4 DEF FailuresKnown
<1>2. CASE SkipEnds
  <2>1. /\ at = "skip" /\ at' = "reply" /\ calls' = calls /\ base' = base /\ failures' = failures
    BY <1>2 DEF SkipEnds
  <2>2. Unshown' = Unshown BY <2>1 DEF Unshown, BesideSkip, Offers, Id
  <2>3. \A id : InContext(id) => InContext(id)'
    <3>1. CASE context' = context BY <3>1 DEF InContext
    <3>2. CASE context' = Append(context, Assistant(text, {}))
      <4>1. text \in Text \cup {NoText} /\ {} \in SUBSET Nat BY DEF TypeOK
      <4>2. QED BY <3>2, <4>1, ContextGrowsByOne
    <3>3. QED BY <1>2, <3>1, <3>2 DEF SkipEnds
  <2>4. QED BY <2>1, <2>2, <2>3 DEF FailuresKnown
<1>3. CASE Reply
  <2>1. /\ at = "reply" /\ at' = "idle" /\ calls' = calls /\ base' = base /\ failures' = failures
        /\ context' = context
    BY <1>3 DEF Reply
  <2>2. Unshown' = Unshown BY <2>1 DEF Unshown, BesideSkip, Offers, Id
  <2>3. QED BY <2>1, <2>2 DEF FailuresKnown, InContext
<1>4. CASE UNCHANGED vars
  BY <1>4 DEF vars, FailuresKnown, Unshown, BesideSkip, Offers, Id, InContext
<1>5. QED BY <1>1, <1>2, <1>3, <1>4

(* FailuresShown: a turn that did not fail has shown the LLM every failure   *)
(* of a tool that was not called beside skip_response, although a tool may   *)
(* end the loop (act.go, applyToolResult).                                  *)
THEOREM FailuresReachTheLLM == Spec => []FailuresShown
<1> DEFINE I == TypeOK /\ Position /\ FailuresSeen /\ FailuresKnown
<1>1. Init => I
  <2>1. Init => FailuresSeen /\ Position /\ FailuresKnown
    BY DEF Init, FailuresSeen, AllSeen, Position, FailuresKnown
  <2>2. QED BY <2>1, InitType
<1>2. I /\ [Next]_vars => I'
  <2>1. I /\ BeginTurn => FailuresSeen' /\ FailuresKnown'
    BY DEF BeginTurn, FailuresSeen, FailuresKnown
  <2>2. I /\ [Next]_vars => FailuresSeen'
    BY <2>1, FailuresOfAsking, FailuresOfApply, FailuresOfOthers DEF Next, Worker
  <2>3. I /\ [Next]_vars => FailuresKnown'
    BY <2>1, KnownOfAsking, KnownOfTools, KnownOfApply, KnownOfEnds DEF Next, Worker
  <2>4. QED BY <2>2, <2>3, TypeStep, PositionStep
<1>3. I => FailuresShown
  <2>1. SUFFICES ASSUME I, at = "idle", outcome # "failed", NEW id \in failures \ BesideSkip
                 PROVE  \E p \in 1..seen : context[p].call = id /\ context[p].failed
    BY DEF FailuresShown
  <2>2. PICK p \in DOMAIN context : context[p].call = id /\ context[p].failed
    BY <2>1 DEF FailuresKnown, Unshown, InContext
  <2>3. p <= seen BY <2>1, <2>2 DEF FailuresSeen, AllSeen
  <2>4. p \in 1..seen BY <2>1, <2>2, <2>3, MessageTypes DEF TypeOK
  <2>5. QED BY <2>2, <2>4
<1>4. QED BY <1>1, <1>2, <1>3, PTL DEF Spec
-----------------------------------------------------------------------------
(* Repetitions.  The last answer that was said is noted, and nothing else.   *)
Noted ==
  \/ last = NoText /\ \A i \in DOMAIN sent : ~IsAnswer(i)
  \/ last # NoText /\ \E i \in DOMAIN sent :
       /\ IsAnswer(i) /\ sent[i].text = last
       /\ \A k \in i + 1..Len(sent) : ~IsAnswer(k)

LEMMA SentType == ASSUME TypeOK
                  PROVE  DOMAIN sent = 1..Len(sent) /\ Len(sent) \in Nat
BY DEF TypeOK

(* Something is posted that is no answer. *)
LEMMA OutputPosted ==
  ASSUME TypeOK, Noted, NeverRepeats, last' = last, Post(Output)
  PROVE  Noted' /\ NeverRepeats'
<1>1. PICK m \in Gift : m.text = Output /\ sent' = Append(sent, m) BY PostAdded
<1>0. PICK n \in Nat : n = Len(sent) BY SentType
<1>2. /\ DOMAIN sent = 1..n /\ DOMAIN sent' = 1..n + 1 /\ Len(sent') = n + 1
      /\ sent'[n + 1] = m /\ \A i \in 1..n : sent'[i] = sent[i]
  BY <1>0, <1>1 DEF TypeOK, Gift
<1>3. ~IsAnswer(n + 1)' /\ \A i \in 1..n : IsAnswer(i)' <=> IsAnswer(i)
  BY <1>1, <1>2 DEF IsAnswer
<1>4. Noted'
  <2>1. CASE last = NoText /\ \A i \in DOMAIN sent : ~IsAnswer(i)
    BY <1>2, <1>3, <2>1 DEF Noted
  <2>2. CASE last # NoText /\ \E i \in DOMAIN sent :
               IsAnswer(i) /\ sent[i].text = last /\ \A k \in i + 1..Len(sent) : ~IsAnswer(k)
    <3>1. PICK i \in 1..n : IsAnswer(i) /\ sent[i].text = last /\ \A k \in i + 1..n : ~IsAnswer(k)
      BY <1>0, <1>2, <2>2
    <3>2. \A k \in i + 1..n + 1 : ~IsAnswer(k)' BY <1>2, <1>3, <3>1
    <3>3. i \in DOMAIN sent' /\ IsAnswer(i)' /\ sent'[i].text = last BY <1>2, <1>3, <3>1
    <3>4. QED BY <1>2, <2>2, <3>2, <3>3 DEF Noted
  <2>3. QED BY <2>1, <2>2 DEF Noted
<1>5. NeverRepeats'
  <2> SUFFICES ASSUME NEW i \in 1..n + 1, NEW j \in 1..n + 1, i < j, IsAnswer(i)', IsAnswer(j)',
                      \A k \in i + 1..j - 1 : ~IsAnswer(k)'
               PROVE  <<sent'[i].text, sent'[j].text>> \notin Similar
    BY <1>2 DEF NeverRepeats
  <2>1. i \in 1..n /\ j \in 1..n BY <1>2, <1>3
  <2>2. \A k \in i + 1..j - 1 : ~IsAnswer(k) BY <1>2, <1>3, <2>1
  <2>3. QED BY <1>2, <1>3, <2>1, <2>2 DEF NeverRepeats
<1>6. QED BY <1>4, <1>5

(* An answer is given out. *)
LEMMA AnswerSaid ==
  ASSUME TypeOK, Noted, NeverRepeats, text \in Text, ~Repeats, channel, Remember,
         NEW m \in Gift, m.text = text, sent' = Append(sent, m)
  PROVE  Noted' /\ NeverRepeats'
<1>0. PICK n \in Nat : n = Len(sent) BY SentType
<1>2. /\ DOMAIN sent = 1..n /\ DOMAIN sent' = 1..n + 1 /\ Len(sent') = n + 1
      /\ sent'[n + 1] = m /\ \A i \in 1..n : sent'[i] = sent[i]
  BY <1>0 DEF TypeOK, Gift
<1>3. IsAnswer(n + 1)' /\ \A i \in 1..n : IsAnswer(i)' <=> IsAnswer(i)
  BY <1>2, TextAssumption DEF IsAnswer
<1>4. Noted'
  <2>1. last' = text /\ text # NoText BY TextAssumption DEF Remember
  <2>2. \A k \in (n + 1) + 1..n + 1 : FALSE BY <1>2
  <2>3. QED BY <1>2, <1>3, <2>1, <2>2 DEF Noted
<1>5. NeverRepeats'
  <2> SUFFICES ASSUME NEW i \in 1..n + 1, NEW j \in 1..n + 1, i < j, IsAnswer(i)', IsAnswer(j)',
                      \A k \in i + 1..j - 1 : ~IsAnswer(k)'
               PROVE  <<sent'[i].text, sent'[j].text>> \notin Similar
    BY <1>2 DEF NeverRepeats
  <2>1. i \in 1..n /\ sent'[i] = sent[i] /\ IsAnswer(i) BY <1>2, <1>3
  <2>2. CASE j \in 1..n
    <3>1. \A k \in i + 1..j - 1 : ~IsAnswer(k) BY <1>2, <1>3, <2>1, <2>2
    <3>2. QED BY <1>2, <1>3, <2>1, <2>2, <3>1 DEF NeverRepeats
  <2>3. CASE j = n + 1
    <3>1. PICK h \in 1..n : IsAnswer(h) /\ sent[h].text = last /\ \A k \in h + 1..n : ~IsAnswer(k)
      BY <1>0, <1>2, <2>1 DEF Noted
    <3>2. \A k \in i + 1..n : ~IsAnswer(k) BY <1>2, <1>3, <2>1, <2>3
    <3>3. h = i BY <1>2, <2>1, <3>1, <3>2
    <3>4. last # NoText BY <2>1, <1>2 DEF Noted
    <3>5. QED BY <1>2, <2>1, <2>3, <3>1, <3>3, <3>4 DEF Repeats
  <2>4. QED BY <1>2, <2>2, <2>3
<1>6. QED BY <1>4, <1>5

LEMMA RepliesStep ==
  ASSUME TypeOK, Noted, NeverRepeats, [Next]_vars
  PROVE  Noted' /\ NeverRepeats'
<1> USE DEF turn, response, execution, observed
<1>1. CASE UNCHANGED <<last, sent>>
  BY <1>1 DEF Noted, NeverRepeats, IsAnswer
<1>2. CASE Apply
  BY <1>1, <1>2, OutputPosted DEF Apply
<1>3. CASE Reply
  <2>1. CASE text \notin Silent \cup {NoText} /\ ~Repeats /\ GiveOut
    <3>1. text \in Text BY <2>1 DEF TypeOK
    <3>2. QED BY <1>1, <2>1, <3>1, GivenOut, AnswerSaid
  <2>2. QED BY <1>1, <1>3, <2>1 DEF Reply
<1>4. CASE ~Apply /\ ~Reply
  <2>1. CASE BeginTurn \/ SkipExecutes \/ SkipEnds \/ Join \/ AllRan \/ Applied \/ UNCHANGED vars
    BY <1>1, <2>1 DEF BeginTurn, SkipExecutes, SkipEnds, Join, AllRan, Applied, vars
  <2>2. CASE Ask \/ \E k \in 1..MaxCalls : Goroutine(k)
    BY <1>1, <2>2 DEF Ask, CompletionFails, Answer, Stall, Skip, Call, Responds, Goroutine,
       Start, Finish
  <2>3. QED BY <1>4, <2>1, <2>2 DEF Next, Worker
<1>5. QED BY <1>2, <1>3, <1>4

(* NeverRepeats: of two answers that pass one after the other in a channel,   *)
(* posted or spoken, the second does not repeat the first                   *)
(* (filterResponse, isDuplicateResponse).                                   *)
THEOREM NothingRepeated == Spec => []NeverRepeats
<1> DEFINE I == TypeOK /\ Noted /\ NeverRepeats
<1>1. Init => I
  <2>1. Init => Noted /\ NeverRepeats BY DEF Init, Noted, NeverRepeats
  <2>2. QED BY <2>1, InitType
<1>2. I /\ [Next]_vars => I' BY TypeStep, RepliesStep
<1>3. QED BY <1>1, <1>2, PTL DEF Spec
-----------------------------------------------------------------------------
(* How many steps a turn can still take: a bound that every step makes       *)
(* smaller.  A call is started, finished and joined and its result applied;  *)
(* a response calls at most MaxCalls tools, and a turn asks for at most      *)
(* MaxIter responses.                                                       *)
Waiting == {k \in DOMAIN slot : slot[k] = "waiting"}
Unfinished == {k \in DOMAIN slot : ~Finished(k)}

Round == 4 * MaxCalls + 5
RoundLeft ==
  IF at = "ask" THEN Round - 1
  ELSE IF at = "run"
  THEN MaxCalls + 3 + (Len(calls) + 1 - next) + Cardinality(Waiting) + Cardinality(Unfinished)
  ELSE 2 + (Len(calls) + 1 - next)

StepsLeft ==
  IF at = "idle" THEN 0
  ELSE IF at = "reply" THEN 1
  ELSE (MaxIter - 1 - iter) * Round + RoundLeft

(* Who can go on: the guards of the actions. *)
JoinCan == Joined /\ \E n \in next + 1..Len(calls) + 1 : Batch = next..n - 1
WorkerCan ==
  \/ at \in {"ask", "skip", "apply", "reply"}
  \/ at = "run" /\ (next > Len(calls) \/ JoinCan)
GoroutineCan(k) ==
  /\ at = "run" /\ k \in DOMAIN slot
  /\ \/ slot[k] = "running"
     \/ next <= Len(calls) /\ k \in Batch /\ slot[k] = "waiting"
CanGoOn == WorkerCan \/ \E k \in 1..MaxCalls : GoroutineCan(k)

StepsRunOut == [][at # "idle" => StepsLeft' < StepsLeft]_vars
NeverStuck == at = "idle" \/ CanGoOn

LEMMA SmallSet ==
  ASSUME NEW n \in Nat, NEW S \in SUBSET (1..n)
  PROVE  IsFiniteSet(S) /\ Cardinality(S) \in 0..n
<1>1. IsFiniteSet(1..n) /\ Cardinality(1..n) = n
  BY FS_Interval
<1>2. IsFiniteSet(S) /\ Cardinality(S) <= n BY <1>1, FS_Subset
<1>3. Cardinality(S) \in Nat BY <1>2, FS_CardinalityType
<1>4. QED BY <1>2, <1>3

LEMMA CallCounts ==
  TypeOK /\ at = "run" =>
    /\ IsFiniteSet(Waiting) /\ Cardinality(Waiting) \in 0..Len(calls)
    /\ IsFiniteSet(Unfinished) /\ Cardinality(Unfinished) \in 0..Len(calls)
<1> SUFFICES ASSUME TypeOK, at = "run"
             PROVE  /\ IsFiniteSet(Waiting) /\ Cardinality(Waiting) \in 0..Len(calls)
                    /\ IsFiniteSet(Unfinished) /\ Cardinality(Unfinished) \in 0..Len(calls)
  OBVIOUS
<1>1. DOMAIN slot = 1..Len(calls) /\ Len(calls) \in Nat BY DEF TypeOK
<1>2. Waiting \in SUBSET (1..Len(calls)) /\ Unfinished \in SUBSET (1..Len(calls))
  BY <1>1 DEF Waiting, Unfinished
<1>3. QED BY <1>1, <1>2, SmallSet

LEMMA RoundNat == Round \in Nat \ {0} /\ MaxCalls \in Nat \ {0} /\ Round = 4 * MaxCalls + 5
  BY BoundAssumption DEF Round

LEMMA RoundLeftBound ==
  TypeOK /\ Position /\ at \notin {"idle", "reply"} => RoundLeft \in 2..Round - 1
<1> SUFFICES ASSUME TypeOK, Position, at \notin {"idle", "reply"}
             PROVE  RoundLeft \in 2..Round - 1
  OBVIOUS
<1>1. Len(calls) \in 0..MaxCalls /\ next \in 1..MaxCalls + 1 BY DEF TypeOK
<1>2. CASE at = "ask" BY <1>2, RoundNat DEF RoundLeft
<1>3. CASE at = "run"
  <2>1. next <= Len(calls) + 1 BY <1>3 DEF Position
  <2>2. /\ Cardinality(Waiting) \in 0..Len(calls)
        /\ Cardinality(Unfinished) \in 0..Len(calls)
    BY <1>3, CallCounts
  <2>3. QED BY <1>1, <1>3, <2>1, <2>2, RoundNat DEF RoundLeft
<1>4. CASE at \in {"skip", "apply"}
  <2>1. next <= Len(calls) + 1 BY <1>4 DEF Position
  <2>2. QED BY <1>1, <1>4, <2>1, RoundNat DEF RoundLeft
<1>5. QED BY <1>2, <1>3, <1>4 DEF TypeOK

(* The rounds that are left. *)
LEMMA Rounds ==
  ASSUME NEW r \in Nat
  PROVE  /\ r * Round \in Nat
         /\ r > 0 => r * Round = (r - 1) * Round + Round /\ (r - 1) * Round \in Nat
<1>1. Round \in Nat BY RoundNat
<1>2. \A a, b \in Nat : a * b \in Nat /\ (a + 1) * b = a * b + b
  OBVIOUS
<1>3. r * Round \in Nat BY <1>1, <1>2
<1>4. ASSUME r > 0
      PROVE  r * Round = (r - 1) * Round + Round /\ (r - 1) * Round \in Nat
  <2>1. r - 1 \in Nat /\ (r - 1) + 1 = r BY <1>4
  <2>2. QED BY <1>1, <1>2, <2>1
<1>5. QED BY <1>3, <1>4

LEMMA RoundsLeft ==
  ASSUME TypeOK
  PROVE  MaxIter - 1 - iter \in Nat /\ (MaxIter - 1 - iter) * Round \in Nat
<1>1. MaxIter - 1 - iter \in Nat BY LimitAssumption DEF TypeOK
<1>2. QED BY <1>1, Rounds

(* In the middle of a turn. *)
LEMMA StepsInTurn ==
  ASSUME TypeOK, Position, at \notin {"idle", "reply"}
  PROVE  /\ StepsLeft = (MaxIter - 1 - iter) * Round + RoundLeft
         /\ RoundLeft \in 2..Round - 1
         /\ (MaxIter - 1 - iter) * Round \in Nat
         /\ StepsLeft > 1
<1>1. (MaxIter - 1 - iter) * Round \in Nat BY RoundsLeft
<1>2. RoundLeft \in 2..Round - 1 BY RoundLeftBound
<1>3. StepsLeft = (MaxIter - 1 - iter) * Round + RoundLeft BY DEF StepsLeft
<1>4. QED BY <1>1, <1>2, <1>3, RoundNat

LEMMA SameRound ==
  ASSUME TypeOK, Position, at \notin {"idle", "reply"}, at' \notin {"idle", "reply"},
         iter' = iter, RoundLeft' \in Int, RoundLeft' < RoundLeft
  PROVE  StepsLeft' < StepsLeft
<1> DEFINE rest == (MaxIter - 1 - iter) * Round
<1>1. /\ StepsLeft = rest + RoundLeft /\ RoundLeft \in Int /\ rest \in Int
  BY StepsInTurn, RoundNat
<1>2. StepsLeft' = rest + RoundLeft' BY DEF StepsLeft, Round
<1> HIDE DEF rest
<1>3. \A a, b, c \in Int : b < c => a + b < a + c OBVIOUS
<1>4. QED BY <1>1, <1>2, <1>3

LEMMA TurnOver ==
  ASSUME TypeOK, Position, at \notin {"idle", "reply"}, at' \in {"idle", "reply"}
  PROVE  StepsLeft' < StepsLeft
<1>1. StepsLeft' <= 1 /\ StepsLeft' \in Int BY DEF StepsLeft
<1>2. StepsLeft > 1 /\ StepsLeft \in Int BY StepsInTurn, RoundNat
<1>3. QED BY <1>1, <1>2

LEMMA GoroutineCosts ==
  ASSUME TypeOK, NEW k \in 1..MaxCalls, Goroutine(k)
  PROVE  RoundLeft' \in Int /\ RoundLeft' < RoundLeft
<1> USE DEF turn, response, execution, observed
<1>1. at = "run" /\ at' = "run" /\ k \in DOMAIN slot /\ UNCHANGED <<calls, next>>
  BY StartInSlot DEF Goroutine, Start, Finish
<1>2. /\ IsFiniteSet(Waiting) /\ Cardinality(Waiting) \in Nat
      /\ IsFiniteSet(Unfinished) /\ Cardinality(Unfinished) \in Nat
  BY <1>1, CallCounts DEF TypeOK
<1>3. Len(calls) \in Nat /\ next \in Nat BY DEF TypeOK
<1>4. CASE Start(k)
  <2>1. slot[k] = "waiting" BY <1>4 DEF Start
  <2>2. /\ DOMAIN slot' = DOMAIN slot /\ slot'[k] \in {"failed", "running"}
        /\ \A j \in DOMAIN slot : j # k => slot'[j] = slot[j]
    BY <1>1, <1>4 DEF Start, TypeOK
  <2>3. Waiting' = Waiting \ {k} /\ k \in Waiting
    BY <1>1, <2>1, <2>2 DEF Waiting
  <2>4. Cardinality(Waiting') = Cardinality(Waiting) - 1
    BY <1>2, <2>3, FS_RemoveElement
  <2>5. Unfinished' \in SUBSET Unfinished
    BY <1>1, <2>1, <2>2 DEF Unfinished, Finished
  <2>6. Cardinality(Unfinished') <= Cardinality(Unfinished) /\ Cardinality(Unfinished') \in Nat
    BY <1>2, <2>5, FS_Subset, FS_CardinalityType
  <2>7. QED BY <1>1, <1>2, <1>3, <2>4, <2>6, RoundNat DEF RoundLeft
<1>5. CASE Finish(k)
  <2>1. slot[k] = "running" BY <1>5 DEF Finish
  <2>2. /\ DOMAIN slot' = DOMAIN slot /\ slot'[k] \in {"failed", "done"}
        /\ \A j \in DOMAIN slot : j # k => slot'[j] = slot[j]
    BY <1>1, <1>5 DEF Finish, TypeOK
  <2>3. Unfinished' = Unfinished \ {k} /\ k \in Unfinished
    BY <1>1, <2>1, <2>2 DEF Unfinished, Finished
  <2>4. Cardinality(Unfinished') = Cardinality(Unfinished) - 1
    BY <1>2, <2>3, FS_RemoveElement
  <2>5. Waiting' = Waiting
    BY <1>1, <2>1, <2>2 DEF Waiting
  <2>6. QED BY <1>1, <1>2, <1>3, <2>4, <2>5, RoundNat DEF RoundLeft
<1>6. QED BY <1>4, <1>5 DEF Goroutine

LEMMA StepCosts ==
  ASSUME TypeOK, Position, TypeOK', Position', Next, at # "idle"
  PROVE  StepsLeft' < StepsLeft
<1> USE DEF turn, response, execution, observed
<1>0. Len(calls) \in 0..MaxCalls /\ next \in 1..MaxCalls + 1 BY DEF TypeOK
<1>1. ~BeginTurn BY DEF BeginTurn
<1>2. CASE Ask
  <2>1. at = "ask" /\ iter' = iter
    BY <1>2 DEF Ask, CompletionFails, Answer, Stall, Skip, Call, Responds
  <2>2. CASE at' \in {"idle", "reply"} BY <2>1, <2>2, TurnOver
  <2>3. CASE at' \notin {"idle", "reply"}
    <3>1. at' \in {"skip", "run"}
      BY <1>2, <2>3 DEF Ask, CompletionFails, Fail, Answer, Stall, Skip, Call, Responds
    <3>2. RoundLeft' \in 2..Round' - 1 /\ Round' = Round
      <4>1. (at \notin {"idle", "reply"})' BY <2>3
      <4>2. (RoundLeft \in 2..Round - 1)' BY <4>1, RoundLeftBound, PTL
      <4>3. QED BY <4>2 DEF Round
    <3>3. RoundLeft' # Round - 1
      <4>1. next' = 1
        BY <1>2, <3>1 DEF Ask, CompletionFails, Fail, Answer, Stall, Skip, Call, Responds
      <4>2. Len(calls') \in 0..MaxCalls BY DEF TypeOK
      <4>3. CASE at' = "skip" BY <4>1, <4>2, <4>3, RoundNat DEF RoundLeft
      <4>4. CASE at' = "run"
        <5>1. (at = "run")' BY <4>4
        <5>2. (/\ IsFiniteSet(Waiting) /\ Cardinality(Waiting) \in 0..Len(calls)
               /\ IsFiniteSet(Unfinished) /\ Cardinality(Unfinished) \in 0..Len(calls))'
          BY <5>1, CallCounts, PTL
        <5>3. QED BY <4>1, <4>2, <4>4, <5>2, RoundNat DEF RoundLeft
      <4>5. QED BY <3>1, <4>3, <4>4
    <3>4. RoundLeft = Round - 1 BY <2>1 DEF RoundLeft
    <3>5. QED BY <2>1, <2>3, <3>2, <3>3, <3>4, RoundNat, SameRound
  <2>4. QED BY <2>2, <2>3
<1>3. CASE SkipExecutes
  <2>1. at = "skip" /\ at' = "skip" /\ next' = next + 1 /\ UNCHANGED <<calls, iter>>
    BY <1>3 DEF SkipExecutes
  <2>2. RoundLeft' \in Int /\ RoundLeft' < RoundLeft BY <1>0, <2>1 DEF RoundLeft
  <2>3. QED BY <2>1, <2>2, SameRound
<1>4. CASE Join
  <2>1. PICK n \in next + 1..Len(calls) + 1 : next' = n BY <1>4 DEF Join
  <2>2. at = "run" /\ at' = "run" /\ UNCHANGED <<slot, calls, iter>>
    BY <1>4 DEF Join
  <2>3. Cardinality(Waiting) \in Nat /\ Cardinality(Unfinished) \in Nat
    BY <2>2, CallCounts, <1>0
  <2>4. Waiting' = Waiting /\ Unfinished' = Unfinished
    BY <2>2 DEF Waiting, Unfinished, Finished
  <2>5. RoundLeft' \in Int /\ RoundLeft' < RoundLeft
    BY <1>0, <2>1, <2>2, <2>3, <2>4, RoundNat DEF RoundLeft
  <2>6. QED BY <2>2, <2>5, SameRound
<1>5. CASE AllRan
  <2>1. at = "run" /\ at' = "apply" /\ next' = 1 /\ UNCHANGED <<calls, iter>>
    BY <1>5 DEF AllRan
  <2>2. Cardinality(Waiting) \in Nat /\ Cardinality(Unfinished) \in Nat
    BY <2>1, CallCounts, <1>0
  <2>3. next <= Len(calls) + 1 BY <2>1 DEF Position
  <2>4. RoundLeft' \in Int /\ RoundLeft' < RoundLeft
    BY <1>0, <2>1, <2>2, <2>3, RoundNat DEF RoundLeft
  <2>5. QED BY <2>1, <2>4, SameRound
<1>6. CASE Apply
  <2>1. at = "apply" /\ at' = "apply" /\ next' = next + 1 /\ UNCHANGED <<calls, iter>>
    BY <1>6 DEF Apply
  <2>2. RoundLeft' \in Int /\ RoundLeft' < RoundLeft BY <1>0, <2>1 DEF RoundLeft
  <2>3. QED BY <2>1, <2>2, SameRound
<1>7. CASE Applied
  <2>1. at = "apply" BY <1>7 DEF Applied
  <2>2. CASE at' \in {"idle", "reply"} BY <2>1, <2>2, TurnOver
  <2>3. CASE at' \notin {"idle", "reply"}
    <3>1. at' = "ask" /\ iter' = iter + 1
      BY <1>7, <2>3 DEF Applied, Fail
    <3> DEFINE r == MaxIter - 1 - iter
    <3>2. r \in Nat /\ r > 0 /\ MaxIter - 1 - iter' = r - 1
      <4>1. iter' \in 0..MaxIter - 1 BY DEF TypeOK
      <4>2. QED BY <3>1, <4>1, LimitAssumption DEF TypeOK
    <3>3. StepsLeft' = (r - 1) * Round + (Round - 1)
      BY <3>1, <3>2 DEF StepsLeft, RoundLeft, Round
    <3>4. StepsLeft = r * Round + RoundLeft /\ RoundLeft \in Nat /\ RoundLeft >= 2
      BY <2>1, StepsInTurn, RoundNat
    <3> HIDE DEF r
    <3>5. r * Round = (r - 1) * Round + Round /\ (r - 1) * Round \in Nat
      BY <3>2, Rounds
    <3>6. QED BY <3>3, <3>4, <3>5, RoundNat
  <2>4. QED BY <2>2, <2>3
<1>8. CASE SkipEnds
  <2>1. at = "skip" /\ at' = "reply" BY <1>8 DEF SkipEnds
  <2>2. QED BY <2>1, TurnOver
<1>9. CASE Reply
  BY <1>9 DEF Reply, StepsLeft
<1>10. CASE \E k \in 1..MaxCalls : Goroutine(k)
  <2>1. PICK k \in 1..MaxCalls : Goroutine(k) BY <1>10
  <2>2. RoundLeft' \in Int /\ RoundLeft' < RoundLeft BY <2>1, GoroutineCosts
  <2>3. at = "run" /\ at' = "run" /\ iter' = iter
    BY <2>1 DEF Goroutine, Start, Finish
  <2>4. QED BY <2>2, <2>3, SameRound
<1>11. QED
  BY <1>1, <1>2, <1>3, <1>4, <1>5, <1>6, <1>7, <1>8, <1>9, <1>10 DEF Next, Worker

LEMMA PositionAlways == Spec => [](TypeOK /\ Position)
<1>1. Init => TypeOK /\ Position
  <2>1. Init => Position BY DEF Init, Position, NoCalls
  <2>2. QED BY <2>1, InitType
<1>2. TypeOK /\ Position /\ [Next]_vars => (TypeOK /\ Position)'
  BY TypeStep, PositionStep
<1>3. QED BY <1>1, <1>2, PTL DEF Spec

(* Every step of a turn makes the number of steps it can still take smaller, *)
(* whatever the LLM answers and in whatever order the tools end.            *)
THEOREM TurnRunsOut == Spec => StepsRunOut
<1>1. TypeOK /\ Position /\ (TypeOK /\ Position)' /\ [Next]_vars
        => [at # "idle" => StepsLeft' < StepsLeft]_vars
  BY StepCosts
<1>2. QED BY <1>1, PositionAlways, PTL DEF Spec, StepsRunOut

(* So a turn takes at most 4 * MaxCalls + 5 steps per completion. *)
THEOREM TurnIsShort == Spec => [](StepsLeft \in 0..MaxIter * Round)
<1>1. TypeOK /\ Position => StepsLeft \in 0..MaxIter * Round
  <2>1. SUFFICES ASSUME TypeOK, Position PROVE StepsLeft \in 0..MaxIter * Round OBVIOUS
  <2>2. MaxIter \in Nat /\ MaxIter > 0 BY LimitAssumption
  <2>3. MaxIter * Round = (MaxIter - 1) * Round + Round /\ (MaxIter - 1) * Round \in Nat
    BY <2>2, Rounds
  <2>4. CASE at \in {"idle", "reply"} BY <2>3, <2>4, RoundNat DEF StepsLeft
  <2>5. CASE at \notin {"idle", "reply"}
    <3> DEFINE r == MaxIter - 1 - iter
    <3>1. /\ StepsLeft = r * Round + RoundLeft
          /\ RoundLeft \in 2..Round - 1 /\ r * Round \in Nat
      BY <2>1, <2>5, StepsInTurn
    <3>2. r \in Nat /\ r <= MaxIter - 1 BY <2>1, <2>2 DEF TypeOK
    <3>3. r * Round <= (MaxIter - 1) * Round
      <4>1. \A a, b, c \in Nat : a <= b => a * c <= b * c OBVIOUS
      <4>2. QED BY <2>2, <3>2, <4>1, RoundNat
    <3>4. QED BY <2>3, <3>1, <3>3, RoundNat
  <2>6. QED BY <2>4, <2>5
<1>2. QED BY <1>1, PositionAlways, PTL

(* A batch is an interval, so that the worker can go past it. *)
LEMMA BatchIsInterval ==
  ASSUME TypeOK, next <= Len(calls)
  PROVE  \E n \in next + 1..Len(calls) + 1 : Batch = next..n - 1
<1>0. next \in Nat \ {0} /\ Len(calls) \in Nat BY DEF TypeOK
<1> DEFINE Ends == {n \in next + 1..Len(calls) + 1 : n = Len(calls) + 1 \/ ~ReadOnly(n) \/ ~ReadOnly(next)}
<1>1. Ends \in SUBSET Nat /\ Len(calls) + 1 \in Ends BY <1>0
<1>2. PICK n \in Ends : \A m \in Ends : n <= m BY <1>1, LeastElement
<1>3. n \in next + 1..Len(calls) + 1 OBVIOUS
<1>4. CASE ~ReadOnly(next)
  <2>1. Batch = {next} BY <1>0, <1>4 DEF Batch
  <2>2. next + 1 \in next + 1..Len(calls) + 1 /\ {next} = next..(next + 1) - 1 BY <1>0
  <2>3. QED BY <2>1, <2>2
<1>5. CASE ReadOnly(next)
  <2>1. \A j \in next..n - 1 : ReadOnly(j)
    <3>1. SUFFICES ASSUME NEW j \in next..n - 1, ~ReadOnly(j) PROVE FALSE OBVIOUS
    <3>2. j \in next + 1..Len(calls) BY <1>0, <1>3, <1>5, <3>1
    <3>3. j \in Ends /\ j < n BY <1>0, <1>3, <3>1, <3>2
    <3>4. QED BY <1>0, <1>2, <1>3, <3>1, <3>3
  <2>2. n = Len(calls) + 1 \/ ~ReadOnly(n) BY <1>5
  <2>3. ASSUME NEW k \in next..n - 1 PROVE k \in Batch
    BY <1>0, <1>3, <2>1 DEF Batch
  <2>4. ASSUME NEW k \in Batch PROVE k \in next..n - 1
    <3>1. k \in next..Len(calls) BY <1>0 DEF Batch
    <3>2. k = next \/ \A j \in next..k : ReadOnly(j) BY DEF Batch
    <3>3. SUFFICES ASSUME k >= n PROVE FALSE BY <1>0, <1>3, <3>1
    <3>4. n \in next..k /\ n # Len(calls) + 1 BY <1>0, <1>3, <3>1, <3>3
    <3>5. QED BY <1>0, <1>3, <2>2, <3>2, <3>3, <3>4
  <2>5. Batch = next..n - 1 BY <2>3, <2>4
  <2>6. QED BY <1>3, <2>5
<1>6. QED BY <1>4, <1>5

(* In every state of a turn the worker or the goroutine of a call can go on: *)
(* a join never waits for a call that nobody executes.  With TurnRunsOut: a  *)
(* turn that goes on as long as it can ends, which is TurnEnds but for the   *)
(* scheduler.                                                              *)
THEOREM NobodyBlocked == Spec => []NeverStuck
<1>1. TypeOK => NeverStuck
  <2>1. SUFFICES ASSUME TypeOK, at = "run", next <= Len(calls), ~Joined
                 PROVE  \E k \in 1..MaxCalls : GoroutineCan(k)
    <3>1. TypeOK /\ at = "run" => next \in Nat /\ Len(calls) \in Nat BY DEF TypeOK
    <3>2. QED BY <3>1, BatchIsInterval DEF NeverStuck, CanGoOn, WorkerCan, JoinCan, TypeOK
  <2>2. PICK k \in Batch : ~Finished(k) BY <2>1 DEF Joined
  <2>3. DOMAIN slot = 1..Len(calls) /\ Len(calls) \in 0..MaxCalls /\ next \in Nat \ {0}
    BY <2>1 DEF TypeOK
  <2>4. k \in 1..Len(calls) BY <2>1, <2>3 DEF Batch
  <2>5. slot[k] \in {"waiting", "running"}
    BY <2>1, <2>2, <2>3, <2>4 DEF Finished, TypeOK
  <2>6. GoroutineCan(k) BY <2>1, <2>3, <2>4, <2>5 DEF GoroutineCan
  <2>7. k \in 1..MaxCalls BY <2>3, <2>4, RoundNat
  <2>8. QED BY <2>6, <2>7
<1>2. QED BY <1>1, PositionAlways, PTL
=============================================================================
