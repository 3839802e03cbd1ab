------------------------------- MODULE ToolLoop -------------------------------
(***************************************************************************)
(* Turns of one session and their tool loop (act.go, act_tool.go,           *)
(* skip_response.go, handleToolLoopFallback in act_stream.go).  The LLM      *)
(* answers with a text, with calls of tools, or with both; the calls are     *)
(* executed, read-only ones side by side in goroutines, their results are    *)
(* added to the context, and the LLM is asked again.                        *)
(*                                                                         *)
(* The context is that of the turn: what is older, and a compaction, are in  *)
(* ContextCompaction.  Calls are numbered through the turn in the order the  *)
(* LLM gives them, so the numbers are their ids.  seen, sent, effects and    *)
(* failures only observe.                                                  *)
(*                                                                         *)
(* An operator that stands before another and is used nowhere is that one   *)
(* with a mistake in it: the README says which property notices.            *)
(***************************************************************************)
EXTENDS Naturals, Sequences

CONSTANTS
  Text,       \* what the LLM may say
  NoText,     \* it says nothing
  Silent,     \* the texts that mean silence ([SKIP])
  Similar,    \* the pairs of texts that repeat each other (isSimilarText)
  Tool,       \* the names it may call, of AllTools
  MaxCalls,   \* bound: calls of a response
  MaxIter,    \* completions of a turn (10)
  Patience,   \* short responses in a row that end the loop (3)
  MaxTurns    \* bound

(* Two that only read, one of them returning images; three with effects, of  *)
(* which one posts its output and one ends the loop (StopAfter); a name that *)
(* is no tool; and the tool that is offered for saying nothing.             *)
ReadOnlyTools == {"search", "look"}
AllTools == ReadOnlyTools \cup {"post", "python_exec", "react", "unknown", "skip_response"}

Output == "output"              \* what python_exec prints, which is no answer

ASSUME TextAssumption == NoText \notin Text /\ Output \notin Text /\ Silent \subseteq Text
ASSUME SimilarAssumption ==
  /\ Similar \subseteq Text \X Text
  /\ \A t \in Text : <<t, t>> \in Similar
ASSUME ToolAssumption == Tool \subseteq AllTools
ASSUME LimitAssumption == MaxIter \in Nat \ {0} /\ Patience \in Nat \ {0}
ASSUME BoundAssumption == MaxCalls \in Nat \ {0} /\ MaxTurns \in Nat

VARIABLES
  at,         \* where the worker is
  streamed,   \* the first response is streamed: spoken while it is written
  channel,    \* the turn has the channel (Discord), or none (device, web)
  iter,       \* completions before this one
  streak,     \* lowProgressStreak
  text,       \* the text of the last response
  calls,      \* the names it calls
  base,       \* the number of calls of the responses before it
  slot,       \* what became of its calls (results)
  next,       \* the first of them that is still to be executed, or applied
  context,    \* messages of the turn
  last,       \* lastResponse of the channel
  outcome,    \* how the last turn ended
  turns,      \* turns so far
  seen,       \* how long the context was in the last request
  sent,       \* what was given out in the channel, how, and whether it arrived
  effects,    \* calls of tools with effects, in the order they began
  failures    \* calls that failed

turn == <<streamed, channel, iter, streak>>
response == <<text, calls, base>>
execution == <<slot, next>>
observed == <<seen, sent, effects, failures>>
vars == <<at, turn, response, execution, context, last, outcome, turns, observed>>
-----------------------------------------------------------------------------
ReadOnly(k) == calls[k] \in ReadOnlyTools
Id(k) == base + k

Message == [role : {"user", "assistant", "tool"}, text : Text \cup {NoText},
            calls : SUBSET Nat, call : Nat, failed : BOOLEAN]
User == [role |-> "user", text |-> NoText, calls |-> {}, call |-> 0, failed |-> FALSE]
Assistant(t, ids) == [User EXCEPT !.role = "assistant", !.text = t, !.calls = ids]
Result(id, failure) == [User EXCEPT !.role = "tool", !.call = id, !.failed = failure]

NoCalls == <<>>

Init ==
  /\ at = "idle" /\ turns = 0 /\ outcome = "none"
  /\ streamed = FALSE /\ channel = FALSE /\ iter = 0 /\ streak = 0
  /\ text = NoText /\ calls = NoCalls /\ base = 0
  /\ slot = <<>> /\ next = 1
  /\ context = <<>> /\ last = NoText
  /\ seen = 0 /\ sent = <<>> /\ effects = <<>> /\ failures = {}
-----------------------------------------------------------------------------
(* The LLM. *)
BeginTurn ==
  /\ at = "idle" /\ turns < MaxTurns
  /\ at' = "ask" /\ turns' = turns + 1 /\ outcome' = "none"
  /\ streamed' \in BOOLEAN /\ channel' \in BOOLEAN /\ iter' = 0 /\ streak' = 0
  /\ text' = NoText /\ calls' = NoCalls /\ base' = 0
  /\ slot' = <<>> /\ next' = 1
  /\ context' = <<User>>
  /\ seen' = 0 /\ effects' = <<>> /\ failures' = {}
  /\ UNCHANGED <<last, sent>>

(* The turn ends with an error: nothing is said, the context stays as it is. *)
Fail == at' = "idle" /\ outcome' = "failed"

CompletionFails ==
  /\ at = "ask"
  /\ Fail
  /\ UNCHANGED <<turn, response, execution, context, last, turns, observed>>

(* low: fewer than 500 tokens were written.  The first response of a turn    *)
(* does not count.                                                         *)
Streak(low) == IF iter = 0 \/ ~low THEN 0 ELSE streak + 1

Responds(t, cs, low) ==
  /\ at = "ask"
  /\ text' = t /\ calls' = cs /\ seen' = Len(context)
  /\ UNCHANGED <<streamed, channel, iter, base, last, outcome, turns, sent, effects, failures>>

Answer(t) ==
  /\ Responds(t, NoCalls, FALSE)
  /\ context' = Append(context, Assistant(t, {}))
  /\ at' = "reply"
  /\ UNCHANGED <<streak, execution>>

(* The loop is given up; this response is not added and not executed. *)
Stall(t, cs, low) ==
  /\ Responds(t, NoCalls, low)
  /\ Streak(low) >= Patience
  /\ streak' = Streak(low)
  /\ at' = "reply"
  /\ UNCHANGED <<execution, context>>

Offers(cs) == "skip_response" \in {cs[k] : k \in DOMAIN cs}

Skip(t, cs, low) ==
  /\ Responds(t, cs, low)
  /\ Streak(low) < Patience /\ Offers(cs)
  /\ streak' = Streak(low)
  /\ at' = "skip" /\ next' = 1
  /\ UNCHANGED <<slot, context>>

Call(t, cs, low) ==
  /\ Responds(t, cs, low)
  /\ Streak(low) < Patience /\ ~Offers(cs)
  /\ streak' = Streak(low)
  /\ context' = Append(context, Assistant(t, {Id(k) : k \in DOMAIN cs}))
  /\ slot' = [k \in DOMAIN cs |-> "waiting"]
  /\ at' = "run" /\ next' = 1
-----------------------------------------------------------------------------
(* skip_response: the other tools are executed for their effects only.  One  *)
(* that fails is logged, a name that is no tool is passed over; the LLM is    *)
(* told of neither.                                                         *)
HasEffect(k) == calls[k] \notin ReadOnlyTools \cup {"unknown", "skip_response"}
Effect(k) == effects' = IF HasEffect(k) THEN Append(effects, Id(k)) ELSE effects

SkipExecutes ==
  /\ at = "skip" /\ next <= Len(calls)
  /\ Effect(next)
  /\ \/ calls[next] # "unknown" /\ UNCHANGED failures
     \/ calls[next] # "skip_response" /\ failures' = failures \cup {Id(next)}
  /\ next' = next + 1
  /\ UNCHANGED <<at, turn, response, slot, context, last, outcome, turns, seen, sent>>

SkipEnds ==
  /\ at = "skip" /\ next > Len(calls)
  /\ context' = IF text = NoText THEN context ELSE Append(context, Assistant(text, {}))
  /\ at' = "reply"
  /\ UNCHANGED <<turn, response, execution, last, outcome, turns, observed>>
-----------------------------------------------------------------------------
(* executeToolCalls.  What is executed next: one call, or all the read-only  *)
(* ones in a row.                                                          *)
BatchOneMore == {k \in next..Len(calls) : \A j \in next..k - 1 : ReadOnly(j)}
Batch == {next} \cup {k \in next..Len(calls) : \A j \in next..k : ReadOnly(j)}

Finished(k) == slot[k] \in {"done", "failed"}

(* A goroutine of its own for each call of a batch. *)
Start(k) ==
  /\ at = "run" /\ next <= Len(calls) /\ k \in Batch
  /\ slot[k] = "waiting"
  /\ IF calls[k] = "unknown"
     THEN slot' = [slot EXCEPT ![k] = "failed"] /\ failures' = failures \cup {Id(k)}
     ELSE slot' = [slot EXCEPT ![k] = "running"] /\ UNCHANGED failures
  /\ Effect(k)
  /\ UNCHANGED <<at, turn, response, next, context, last, outcome, turns, seen, sent>>

(* A failure ends the context of the others in the batch, which then may     *)
(* fail as well: they may at any time.                                      *)
Finish(k) ==
  /\ at = "run" /\ k \in DOMAIN slot
  /\ slot[k] = "running"
  /\ \/ slot' = [slot EXCEPT ![k] = "done"] /\ UNCHANGED failures
     \/ slot' = [slot EXCEPT ![k] = "failed"] /\ failures' = failures \cup {Id(k)}
  /\ UNCHANGED <<at, turn, response, next, context, last, outcome, turns, seen, sent, effects>>

JoinedAll == \A k \in DOMAIN slot : Finished(k)
Joined == \A k \in Batch : Finished(k)

Join ==
  /\ at = "run" /\ next <= Len(calls)
  /\ Joined
  /\ \E n \in next + 1..Len(calls) + 1 : Batch = next..n - 1 /\ next' = n
  /\ UNCHANGED <<at, turn, response, slot, context, last, outcome, turns, observed>>

AllRan ==
  /\ at = "run" /\ next > Len(calls)
  /\ at' = "apply" /\ next' = 1
  /\ UNCHANGED <<turn, response, slot, context, last, outcome, turns, observed>>
-----------------------------------------------------------------------------
(* applyToolResult, in the order of the calls.  Images follow their result   *)
(* in a message of their own; what python_exec printed is posted in the      *)
(* channel, if there is one.                                                *)
ResultsOfSuccess(k) ==
  IF slot[k] = "failed" THEN <<>>
  ELSE IF calls[k] = "look" THEN <<Result(Id(k), FALSE), User>>
  ELSE <<Result(Id(k), FALSE)>>
Results(k) ==
  IF slot[k] = "done" /\ calls[k] = "look" THEN <<Result(Id(k), FALSE), User>>
  ELSE <<Result(Id(k), slot[k] = "failed")>>

Sent(what, how, ok) == sent' = Append(sent, [text |-> what, how |-> how, delivered |-> ok])
Post(what) == \E ok \in BOOLEAN : Sent(what, "posted", ok)

Apply ==
  /\ at = "apply" /\ next <= Len(calls)
  /\ context' = context \o Results(next)
  /\ IF calls[next] = "python_exec" /\ slot[next] = "done" /\ channel
     THEN Post(Output) ELSE UNCHANGED sent
  /\ next' = next + 1
  /\ UNCHANGED <<at, turn, response, slot, last, outcome, turns, seen, effects, failures>>

AllStopAfterAny == \E k \in DOMAIN slot : slot[k] = "done" /\ calls[k] = "react"
AllStopAfter == \A k \in DOMAIN slot : slot[k] = "done" /\ calls[k] = "react"

AgainOneMore == iter < MaxIter
Again == iter + 1 < MaxIter

Applied ==
  /\ at = "apply" /\ next > Len(calls)
  /\ calls' = NoCalls /\ slot' = <<>> /\ next' = 1 /\ base' = base + Len(calls)
  /\ IF AllStopAfter THEN at' = "reply" /\ UNCHANGED <<iter, outcome>>
     ELSE IF Again THEN at' = "ask" /\ iter' = iter + 1 /\ UNCHANGED outcome
     ELSE Fail /\ UNCHANGED iter
  /\ UNCHANGED <<streamed, channel, streak, text, context, last, turns, observed>>
-----------------------------------------------------------------------------
(* filterResponse, and Respond.  Without a channel nothing counts as          *)
(* repeated.  The caller of a streamed turn sends nothing: its first response *)
(* was spoken, before filterResponse, and later ones are not.               *)
Repeats == channel /\ last # NoText /\ <<last, text>> \in Similar

RememberNothing == last' = last
Remember == last' = text

GiveOut ==
  IF channel
  THEN /\ Remember
       /\ IF streamed THEN Sent(text, "spoken", iter = 0) ELSE Post(text)
  ELSE UNCHANGED <<last, sent>>

Reply ==
  /\ at = "reply"
  /\ at' = "idle"
  /\ \/ text \in Silent \cup {NoText} /\ outcome' = "silent" /\ UNCHANGED <<last, sent>>
     \/ text \notin Silent \cup {NoText} /\ Repeats /\ outcome' = "repeated" /\ UNCHANGED <<last, sent>>
     \/ text \notin Silent \cup {NoText} /\ ~Repeats /\ outcome' = "said" /\ GiveOut
  /\ UNCHANGED <<turn, response, execution, context, turns, seen, effects, failures>>
-----------------------------------------------------------------------------
CallSeqs == UNION {[1..n -> Tool] : n \in 1..MaxCalls}

Ask ==
  \/ CompletionFails
  \/ \E t \in Text \cup {NoText} : Answer(t)
  \/ \E t \in Text \cup {NoText}, cs \in CallSeqs, low \in BOOLEAN :
       Stall(t, cs, low) \/ Skip(t, cs, low) \/ Call(t, cs, low)

(* The worker, and the goroutine that executes call k. *)
Worker == Ask \/ SkipExecutes \/ SkipEnds \/ Join \/ AllRan \/ Apply \/ Applied \/ Reply
Goroutine(k) == Start(k) \/ Finish(k)

Next == BeginTurn \/ Worker \/ \E k \in 1..MaxCalls : Goroutine(k)

Spec == Init /\ [][Next]_vars

(* Completions and tools return, with an error or not. *)
Fairness == WF_vars(Worker) /\ \A k \in 1..MaxCalls : WF_vars(Goroutine(k))
FairSpec == Spec /\ Fairness
-----------------------------------------------------------------------------
(* What a request is made of: buildIterMessages leaves out any number of the *)
(* oldest messages (trimMessagesToFit), ConvertMessages the results without  *)
(* a call, and the calls of a message that lacks a result.                  *)
Trimmed(n) == SubSeq(context, n + 1, Len(context))

Called(msgs) == UNION {msgs[p].calls : p \in DOMAIN msgs}
Answered(msgs) == {msgs[p].call : p \in {q \in DOMAIN msgs : msgs[q].role = "tool"}}

ConvertKeepsResults(msgs) ==
  LET Shown(m) == IF m.calls \subseteq Answered(msgs) THEN m ELSE [m EXCEPT !.calls = {}]
  IN  [p \in DOMAIN msgs |-> Shown(msgs[p])]
ConvertMessages(msgs) ==
  LET Kept(m) == m.role = "tool" => m.call \in Called(msgs)
      Shown(m) == IF m.calls \subseteq Answered(msgs) THEN m ELSE [m EXCEPT !.calls = {}]
      out[n \in 0..Len(msgs)] ==     \* after n messages
        IF n = 0 THEN <<>>
        ELSE IF Kept(msgs[n]) THEN Append(out[n - 1], Shown(msgs[n])) ELSE out[n - 1]
  IN  out[Len(msgs)]

Requests == {ConvertMessages(Trimmed(n)) : n \in 0..Len(context) - 1}
-----------------------------------------------------------------------------
TypeOK ==
  /\ at \in {"idle", "ask", "skip", "run", "apply", "reply"}
  /\ streamed \in BOOLEAN /\ channel \in BOOLEAN /\ iter \in 0..MaxIter - 1 /\ streak \in 0..Patience
  /\ streak = Patience => at \in {"reply", "idle"}
  /\ text \in Text \cup {NoText} /\ last \in Text \cup {NoText}
  /\ calls \in Seq(Tool) /\ Len(calls) <= MaxCalls /\ base \in Nat
  /\ slot \in Seq({"waiting", "running", "done", "failed"})
  /\ at \in {"run", "apply"} => DOMAIN slot = DOMAIN calls
  /\ next \in 1..MaxCalls + 1
  /\ context \in Seq(Message)
  /\ outcome \in {"none", "failed", "silent", "repeated", "said"}
  /\ turns \in 0..MaxTurns /\ seen \in Nat
  /\ sent \in Seq([text : Text \cup {Output}, how : {"posted", "spoken"}, delivered : BOOLEAN])
  /\ effects \in Seq(Nat) /\ failures \subseteq Nat

(* A tool with effects runs alone: when a call has begun, the calls before   *)
(* it are over, unless all from one to the other only read; and effects come *)
(* about in the order in which the LLM called for them, each once, on every  *)
(* way through the turn (executeToolCalls, execSideEffectsOnSkip).           *)
EffectsInOrder ==
  /\ at = "run" => \A i, j \in DOMAIN calls :
       i < j /\ slot[j] # "waiting" /\ (\E k \in i..j : ~ReadOnly(k)) => Finished(i)
  /\ \A i, j \in DOMAIN effects : i < j => effects[i] < effects[j]

(* Whenever the LLM is asked, every call of the turn has one result, after   *)
(* the message with the call, and results are in the order of their calls,   *)
(* whatever the order in which goroutines ended (applyToolResult).           *)
AnsweredInOrder ==
  LET IsResult(p) == context[p].role = "tool"
  IN  /\ \A p, q \in DOMAIN context :
           IsResult(p) /\ IsResult(q) /\ p < q => context[p].call < context[q].call
      /\ \A p \in DOMAIN context : IsResult(p) =>
           \E q \in 1..p : context[p].call \in context[q].calls
      /\ at = "ask" => \A p \in DOMAIN context : \A c \in context[p].calls :
           \E q \in p + 1..Len(context) : IsResult(q) /\ context[q].call = c

(* However much of the context is left out, a request has no result without  *)
(* its call before it and no call without its result after it               *)
(* (trimMessagesToFit, ConvertMessages).                                   *)
RequestsComplete ==
  at = "ask" => \A r \in Requests : \A p \in DOMAIN r :
    /\ r[p].role = "tool" => \E q \in 1..p : r[p].call \in r[q].calls
    /\ \A c \in r[p].calls : \E q \in p + 1..Len(r) : r[q].role = "tool" /\ r[q].call = c

(* The calls of a last response that offers silence. *)
BesideSkip == IF Offers(calls) THEN {Id(k) : k \in DOMAIN calls} ELSE {}

(* A turn that did not fail has shown every failure of a tool to the LLM: it *)
(* does not end for a tool that says so while another one failed, and no     *)
(* failure is passed over among the results.  Not so for calls beside        *)
(* skip_response, whose failures are only logged (skip_response.go:47-51).   *)
FailuresShown ==
  at = "idle" /\ outcome # "failed" =>
    \A id \in failures \ BesideSkip :
      \E p \in 1..seen : context[p].call = id /\ context[p].failed

IsAnswer(i) == sent[i].text # Output

(* Of the answers that pass in a channel, posted, or spoken in a streamed     *)
(* turn, none repeats the one that passed before it, whatever failed to      *)
(* arrive, was kept back or printed by a tool in between (filterResponse,    *)
(* isDuplicateResponse).  Not so for what is heard: a streamed answer was     *)
(* spoken before it is compared (RepeatedIsUnsaid).  Turns of a device or a  *)
(* web client have no channel and are not compared.                         *)
NeverRepeats ==
  \A i, j \in DOMAIN sent :
    i < j /\ IsAnswer(i) /\ IsAnswer(j) /\ (\A k \in i + 1..j - 1 : ~IsAnswer(k))
      => <<sent[i].text, sent[j].text>> \notin Similar

(* A turn ends, whatever the LLM answers and however tools end. *)
TurnEnds == (at # "idle") ~> (at = "idle")
-----------------------------------------------------------------------------
(* Not so: results follow their calls at once, as the providers' strict mode *)
(* wants (llmconv.go:27).  The images of a result stand between it and the   *)
(* next one.                                                               *)
ResultsFollowCalls ==
  at = "ask" => \A r \in Requests : \A p \in DOMAIN r :
    r[p].role = "tool" =>
      p > 1 /\ (r[p - 1].role = "tool" \/ r[p].call \in r[p - 1].calls)

(* Not so: what is said was added to the context (act.go:53).  The response  *)
(* that ends the loop for lack of progress was not.                         *)
SaidIsRemembered ==
  at = "idle" /\ outcome = "said" =>
    \E p \in DOMAIN context : context[p].role = "assistant" /\ context[p].text = text

(* Not so: who keeps an answer to himself as a repetition has given it       *)
(* before (agent.go:104).  It was noted before it was sent, which failed.    *)
RepeatedWasDelivered ==
  outcome = "repeated" =>
    \E i \in DOMAIN sent : sent[i].delivered /\ <<sent[i].text, text>> \in Similar

(* Not so: an answer that counts as a repetition is not given (agent.go:105,  *)
(* "to prevent successive duplicate answers").  A streamed one was spoken     *)
(* before it is compared.                                                   *)
RepeatedIsUnsaid == outcome = "repeated" => ~(streamed /\ iter = 0)
=============================================================================
