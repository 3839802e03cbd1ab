-------------------------- MODULE ContextCompaction --------------------------
(***************************************************************************)
(* The short-term memory of one conversation (one source key): the Context *)
(* of context.go, shared by                                                *)
(*   - the worker, which ingests a batch of events (perceive.go), may start *)
(*     a compaction, lets the LLM answer and use tools (act.go), and       *)
(*     reflects: logs the turn and saves a snapshot (reflect.go);          *)
(*   - a background compaction, one at a time by a mutex, which hands a    *)
(*     copy of the messages to long-term memory and then drops that many   *)
(*     messages from the front;                                            *)
(*   - ForceCompact, from the admin API or a model change, which takes no  *)
(*     mutex and drops everything;                                         *)
(*   - a crash, after which the saved snapshot is the conversation.        *)
(*                                                                         *)
(* The messages are a set of entries numbered in the order in which they   *)
(* were appended; the list of the code is that set in this order.  Every   *)
(* method of Context is one step (they hold its mutex), and whatever calls *)
(* two of them can be interrupted in between.  How many tokens a message   *)
(* takes is abstracted: any check of the usage ratio may go either way.    *)
(*                                                                         *)
(* An operator that stands before another and is used nowhere is that one   *)
(* with a mistake in it: the README says which property notices.            *)
(***************************************************************************)
EXTENDS Naturals, Sequences, FiniteSets

CONSTANTS
  Channel,        \* channels of the source
  HistoryLimit,   \* messages fetched to bootstrap a channel (10 in the code)
  MaxIter,        \* completions of one turn (10 in the code)
  MaxEvents,      \* bound: events ever published
  MaySelfPrompt,  \* the boredom task publishes self prompts
  MaxForced,      \* bound: calls of ForceCompact
  MayCrash        \* the process may crash and start again

ASSUME LimitAssumption ==
  HistoryLimit \in Nat /\ MaxIter \in Nat \ {0}
ASSUME BoundAssumption ==
  MaxEvents \in Nat /\ MaxForced \in Nat
ASSUME SwitchAssumption ==
  MaySelfPrompt \in BOOLEAN /\ MayCrash \in BOOLEAN

VARIABLES
  posted,     \* events in the order of publication: channel, self prompt or not
  ingested,   \* events up to this number were ingested (or lost in a crash)
  context,    \* Context.messages
  next,       \* the number the next entry gets
  pc,         \* where the worker is
  turn,       \* the worker's turn, see Turn
  recall,     \* messages fetched from the channel's history, to be injected
  saving,     \* the copy the worker is about to save
  compactor,  \* ["async", "forced" -> where the compaction is]
  forced,     \* calls of ForceCompact so far
  held,       \* ["async", "forced" -> the copy the compaction holds]
  db,         \* the row of context_snapshot
  handed      \* entries handed to long-term memory since the process started

vars == <<posted, ingested, context, next, pc, turn, recall, saving, compactor,
          forced, held, db, handed>>
stores == <<db, handed>>
compaction == <<compactor, forced, held>>
-----------------------------------------------------------------------------
Compactors == {"async", "forced"}

Event == [channel : Channel, self : BOOLEAN]

Kind == {"user", "assistant", "call", "result",  \* live
         "history", "memory"}                    \* Injected

(* ref is the MessageID (the number of its event) of a user or history      *)
(* entry, and the entry that called the tool for a result.                 *)
Entry == [n : Nat, kind : Kind, channel : Channel, ref : Nat]

Injected(e) == e.kind \in {"history", "memory"}
LiveAndInjected(S) == S
Live(S) == {e \in S : ~Injected(e)}

(* The first k messages. *)
Oldest(S, k) == {e \in S : Cardinality({f \in S : f.n <= e.n}) <= k}

HasMessagesForChannel(S, c) ==
  \E e \in S : e.channel = c /\ e.kind \in {"user", "assistant", "call", "history"}
RemoveChannelHistory(S, c) == {e \in S : ~(Injected(e) /\ e.channel = c)}

(* The last messages of a channel but the trigger, as its platform has them: *)
(* including those whose events still wait to be ingested.  The bot's own    *)
(* posts are left out: no event ever carries their MessageID.               *)
History(c, trigger) ==
  LET all == {i \in 1..Len(posted) : posted[i].channel = c /\ ~posted[i].self}
  IN  {i \in all : Cardinality({j \in all : j >= i}) <= HistoryLimit} \ {trigger}

(* end: last event of the batch; start: TurnStartIdx; iter: completions made; *)
(* logged: what the turn wrote to conversation_logs.  Only the properties    *)
(* look at added, the live entries the turn appended, and shrunk, whether    *)
(* messages were removed since the turn began.                              *)
Turn == [end : Nat, start : Nat, iter : Nat, logged : SUBSET Entry,
         added : SUBSET Entry, shrunk : BOOLEAN]
NoTurn == [end |-> 0, start |-> 0, iter |-> 0, logged |-> {},
           added |-> {}, shrunk |-> FALSE]
-----------------------------------------------------------------------------
Init ==
  /\ posted = <<>>
  /\ ingested = 0
  /\ context = {}
  /\ next = 1
  /\ pc = "idle"
  /\ turn = NoTurn
  /\ recall = {}
  /\ saving = {}
  /\ compactor = [j \in Compactors |-> "off"]
  /\ forced = 0
  /\ held = [j \in Compactors |-> {}]
  /\ db = {}
  /\ handed = {}

(* A message is posted in a channel, or the boredom task prompts the agent  *)
(* to speak there; the event waits for the worker.                          *)
Post(c, self) ==
  /\ Len(posted) < MaxEvents
  /\ self => MaySelfPrompt
  /\ posted' = Append(posted, [channel |-> c, self |-> self])
  /\ UNCHANGED <<ingested, context, next, pc, turn, recall, saving, compaction, stores>>

GotoForgetsTurn(l) == pc' = l /\ turn' = NoTurn
Goto(l) == pc' = l /\ turn' = IF l = "idle" THEN NoTurn ELSE turn

(* Context.Add by the worker. *)
Add(kind, c, ref) ==
  LET e == [n |-> next, kind |-> kind, channel |-> c, ref |-> ref]
  IN  /\ context' = context \cup {e}
      /\ next' = next + 1
      /\ turn' = IF Injected(e) THEN turn ELSE [turn EXCEPT !.added = @ \cup {e}]

(* Context.AddIfAbsent by the worker: a known MessageID is skipped. *)
AddIfAbsent(kind, c, ref) ==
  IF \E e \in context : e.kind \in {"user", "history"} /\ e.ref = ref
  THEN UNCHANGED <<context, next, turn>>
  ELSE Add(kind, c, ref)
-----------------------------------------------------------------------------
(* PerceiveWith. *)
TakeBatch(last) ==
  /\ pc = "idle"
  /\ last \in ingested + 1 .. Len(posted)
  /\ turn' = [NoTurn EXCEPT !.end = last, !.start = Cardinality(context)]
  /\ pc' = "gate"
  /\ UNCHANGED <<posted, ingested, context, next, recall, saving, compaction, stores>>

Trigger == ingested + 1
Here == posted[Trigger].channel

(* injectChannelHistoryWith: a channel with messages in the context needs no *)
(* bootstrap; else what is left of an older one makes room for a new one,   *)
(* from the channel's history or, if that has nothing or fails, from memory. *)
SkipHistory ==
  /\ pc = "gate"
  /\ HasMessagesForChannel(context, Here)
  /\ Goto("hear")
  /\ UNCHANGED <<posted, ingested, context, next, recall, saving, compaction, stores>>

FetchHistory ==
  /\ pc = "gate"
  /\ ~HasMessagesForChannel(context, Here)
  /\ context' = RemoveChannelHistory(context, Here)
  /\ turn' = [turn EXCEPT !.shrunk = @ \/ context' # context]
  /\ \E found \in {History(Here, Trigger), {}} :
        /\ recall' = found
        /\ pc' = IF found = {} THEN "memory" ELSE "recall"
  /\ UNCHANGED <<posted, ingested, next, saving, compaction, stores>>

RecallOne(m) ==
  /\ pc = "recall"
  /\ m \in recall /\ \A i \in recall : m <= i
  /\ AddIfAbsent("history", Here, m)
  /\ recall' = recall \ {m}
  /\ pc' = IF recall' = {} THEN "hear" ELSE "recall"
  /\ UNCHANGED <<posted, ingested, saving, compaction, stores>>

(* injectMemoryFallback: the search for recent memories may find none. *)
RecallMemories ==
  /\ pc = "memory"
  /\ \/ Add("memory", Here, 0)
     \/ UNCHANGED <<context, next, turn>>
  /\ pc' = "hear"
  /\ UNCHANGED <<posted, ingested, recall, saving, compaction, stores>>

(* The message itself; a self prompt stays out of the context. *)
Hear ==
  /\ pc = "hear"
  /\ IF posted[Trigger].self
     THEN UNCHANGED <<context, next, turn>>
     ELSE AddIfAbsent("user", Here, Trigger)
  /\ ingested' = Trigger
  /\ pc' = IF Trigger < turn.end THEN "gate" ELSE "perceived"
  /\ UNCHANGED <<posted, recall, saving, compaction, stores>>
-----------------------------------------------------------------------------
StartAsyncUnlocked ==
  /\ compactor' = [compactor EXCEPT !["async"] = "acquire"]
  /\ held' = [held EXCEPT !["async"] = context]
  /\ UNCHANGED forced

(* compactAsyncFor: one at a time; a copy of the messages goes with it. *)
StartAsync ==
  IF compactor["async"] = "off"
  THEN /\ compactor' = [compactor EXCEPT !["async"] = "acquire"]
       /\ held' = [held EXCEPT !["async"] = context]
       /\ UNCHANGED forced
  ELSE UNCHANGED compaction

(* ForceCompact, by the goroutine of an admin request. *)
ForceCompact ==
  /\ forced < MaxForced
  /\ forced' = forced + 1
  /\ compactor["forced"] = "off"
  /\ compactor' = [compactor EXCEPT !["forced"] = "acquire"]
  /\ held' = [held EXCEPT !["forced"] = context]
  /\ UNCHANGED <<posted, ingested, context, next, pc, turn, recall, saving, stores>>

(* doCompactWith.  Acquire gets the live messages; when it fails the        *)
(* messages are dropped all the same, so its outcome makes no difference.   *)
Acquire(j) ==
  /\ compactor[j] = "acquire"
  /\ handed' = handed \cup Live(held[j])
  /\ compactor' = [compactor EXCEPT ![j] = "replace"]
  /\ UNCHANGED <<posted, ingested, context, next, pc, turn, recall, saving, forced, held, db>>

CompactReplaceAll(S, k) == {}
CompactReplaceOneMore(S, k) == S \ Oldest(S, k + 1)
CompactReplace(S, k) == S \ Oldest(S, k)

Replace(j) ==
  /\ compactor[j] = "replace"
  /\ context' = IF j = "async"
                THEN CompactReplace(context, Cardinality(held[j]))
                ELSE {}
  /\ turn' = [turn EXCEPT !.shrunk = @ \/ context' # context]
  /\ compactor' = [compactor EXCEPT ![j] = "persist"]
  /\ UNCHANGED <<posted, ingested, next, pc, recall, saving, forced, held, stores>>

(* resetAndPersistWith: read what can be persisted, then write it. *)
ReadToPersist(j) ==
  /\ compactor[j] = "persist"
  /\ held' = [held EXCEPT ![j] = Live(context)]
  /\ compactor' = [compactor EXCEPT ![j] = "save"]
  /\ UNCHANGED <<posted, ingested, context, next, pc, turn, recall, saving, forced, stores>>

SaveAndUnlock(j) ==
  /\ compactor[j] = "save"
  /\ db' = held[j]
  /\ held' = [held EXCEPT ![j] = {}]
  /\ compactor' = [compactor EXCEPT ![j] = "off"]
  /\ UNCHANGED <<posted, ingested, context, next, pc, turn, recall, saving, forced, handed>>
-----------------------------------------------------------------------------
(* handleBatchWith after PerceiveWith: the compaction check, then listening *)
(* only (the snapshot is saved, nothing logged) or the first completion.    *)
Think ==
  /\ pc = "perceived"
  /\ StartAsync \/ UNCHANGED compaction
  /\ Goto("complete") \/ Goto("persist")
  /\ UNCHANGED <<posted, ingested, context, next, recall, saving, stores>>

(* A batch ingested by a catch-up pass: more events already wait. *)
CatchUp ==
  /\ pc = "perceived"
  /\ turn.end < Len(posted)
  /\ Goto("reflect")
  /\ UNCHANGED <<posted, ingested, context, next, recall, saving, compaction, stores>>

TurnChannel == posted[turn.end].channel

(* A completion (streamed or not) ends the turn with a message in the      *)
(* context, ends it without one (skip_response, no progress), fails, which  *)
(* skips Reflect, or calls tools.                                          *)
Answer ==
  /\ pc = "complete"
  /\ Add("assistant", TurnChannel, 0)
  /\ pc' = "reflect"
  /\ UNCHANGED <<posted, ingested, recall, saving, compaction, stores>>

SaySo(l) ==
  /\ pc = "complete"
  /\ Goto(l)
  /\ UNCHANGED <<posted, ingested, context, next, recall, saving, compaction, stores>>

Skip == SaySo("reflect")
Fail == SaySo("idle")

CallTools ==
  /\ pc = "complete"
  /\ Add("call", TurnChannel, 0)
  /\ pc' = "tools"
  /\ UNCHANGED <<posted, ingested, recall, saving, compaction, stores>>

(* The results of one message's calls count as one entry.  They end the    *)
(* turn if every tool says so; the loop gives up after MaxIter completions. *)
AddResults ==
  /\ pc = "tools"
  /\ LET e == [n |-> next, kind |-> "result", channel |-> TurnChannel, ref |-> next - 1]
         more == [turn EXCEPT !.added = @ \cup {e}, !.iter = @ + 1]
     IN  /\ context' = context \cup {e}
         /\ \/ pc' = "reflect" /\ turn' = more
            \/ more.iter < MaxIter /\ pc' = "loop" /\ turn' = more
            \/ more.iter = MaxIter /\ pc' = "idle" /\ turn' = NoTurn
  /\ next' = next + 1
  /\ UNCHANGED <<posted, ingested, recall, saving, compaction, stores>>

(* The next completion; a context near its limit is compacted (buildIterMessages). *)
Loop ==
  /\ pc = "loop"
  /\ StartAsync \/ UNCHANGED compaction
  /\ Goto("complete")
  /\ UNCHANGED <<posted, ingested, context, next, recall, saving, stores>>

(* ReflectWith: log the messages from TurnStartIdx on, then save. *)
ToLogInjected == context \ Oldest(context, turn.start)
ToLogOffByOne == Live(context \ Oldest(context, turn.start + 1))
ToLog == Live(context \ Oldest(context, turn.start))

LogTurn ==
  /\ pc = "reflect"
  /\ turn' = [turn EXCEPT !.logged = ToLog]
  /\ pc' = "persist"
  /\ UNCHANGED <<posted, ingested, context, next, recall, saving, compaction, stores>>

ReadTurn ==
  /\ pc = "persist"
  /\ saving' = Live(context)
  /\ Goto("save")
  /\ UNCHANGED <<posted, ingested, context, next, recall, compaction, stores>>

SaveTurn ==
  /\ pc = "save"
  /\ db' = saving
  /\ saving' = {}
  /\ Goto("idle")
  /\ UNCHANGED <<posted, ingested, context, next, recall, compaction, handed>>

(* A crash and a restart: the queues are gone, the snapshot comes back. *)
Restart ==
  /\ MayCrash
  /\ context' = db
  /\ ingested' = Len(posted)
  /\ pc' = "idle"
  /\ turn' = NoTurn
  /\ recall' = {}
  /\ saving' = {}
  /\ compactor' = [j \in Compactors |-> "off"]
  /\ held' = [j \in Compactors |-> {}]
  /\ handed' = {}
  /\ UNCHANGED <<posted, next, forced, db>>
-----------------------------------------------------------------------------
Perceive ==
  \/ \E last \in 1..MaxEvents : TakeBatch(last)
  \/ SkipHistory \/ FetchHistory \/ (\E m \in recall : RecallOne(m))
  \/ RecallMemories \/ Hear

Act == Think \/ CatchUp \/ Answer \/ Skip \/ Fail \/ CallTools \/ AddResults \/ Loop

Reflect == LogTurn \/ ReadTurn \/ SaveTurn

Compact(j) == Acquire(j) \/ Replace(j) \/ ReadToPersist(j) \/ SaveAndUnlock(j)

Next ==
  \/ \E c \in Channel, self \in BOOLEAN : Post(c, self)
  \/ Perceive
  \/ Act
  \/ Reflect
  \/ ForceCompact
  \/ \E j \in Compactors : Compact(j)
  \/ Restart

Spec == Init /\ [][Next]_vars
-----------------------------------------------------------------------------
TypeOK ==
  /\ posted \in Seq(Event) /\ Len(posted) <= MaxEvents
  /\ ingested \in 0..Len(posted)
  /\ context \subseteq Entry /\ IsFiniteSet(context)
  /\ next \in Nat \ {0}
  /\ pc \in {"idle", "gate", "recall", "memory", "hear", "perceived", "complete",
              "tools", "loop", "reflect", "persist", "save"}
  /\ turn \in Turn
  /\ pc \in {"gate", "recall", "memory", "hear"} => ingested < turn.end
  /\ pc # "idle" => turn.end \in 1..Len(posted)
  /\ recall \subseteq Nat
  /\ saving \subseteq Entry /\ IsFiniteSet(saving)
  /\ compactor \in [Compactors -> {"off", "acquire", "replace", "persist", "save"}]
  /\ forced \in 0..MaxForced
  /\ held \in [Compactors -> SUBSET Entry]
  /\ \A j \in Compactors : IsFiniteSet(held[j])
  /\ db \subseteq Entry /\ IsFiniteSet(db)
  /\ handed \subseteq Entry

(* A message leaves the conversation only after it was handed to long-term  *)
(* memory, whatever the worker does while a compaction runs (doCompactWith: *)
(* acquire, then drop as many messages as the copy had); only a crash may   *)
(* lose one.  For MaxForced = 0 and no self prompts: AppendedPreserved.     *)
ForgetsOnlyHanded ==
  [][Restart \/ \A e \in Live(context) : e \in context' \/ e \in handed]_vars

SameMessage(e, f) ==
  e = f \/ (e.ref = f.ref /\ e.kind # "result" /\ f.kind # "result" /\ e.ref # 0)

(* Until the process starts again no message is handed to long-term memory  *)
(* twice, neither by the next background compaction (compactAsyncFor: one   *)
(* at a time by its mutex, and what was handed over is dropped before the   *)
(* next copy is made) nor by the loop "compact, clear, fetch the history    *)
(* again, compact" that filterOutInjectedHistory is there to cut.  This is about background      *)
(* compactions, MaxForced = 0.  "Only one compaction runs at a time per     *)
(* source key" (reflect.go:57) is not so with ForceCompact: it takes no     *)
(* mutex, and what it and a background compaction both hold is handed twice. *)
ExtractsOnce ==
  \A j \in Compactors : compactor[j] = "acquire" =>
    \A e \in Live(held[j]), f \in handed : ~SameMessage(e, f)

(* Tool results stay with the message that called the tools, which LLM      *)
(* providers insist on: no background compaction, started before the turn   *)
(* or in the middle of its tool loop, removes a call and leaves its result, *)
(* and every completion sees the results of the turn's earlier calls.  This *)
(* too needs MaxForced = 0: a ForceCompact between call and result removes  *)
(* the call.                                                                *)
ChainsIntact ==
  /\ \A r \in context : r.kind = "result" =>
       \E c \in context : c.kind = "call" /\ c.n = r.ref
  /\ pc = "complete" =>
       \A c \in context \cap turn.added : c.kind = "call" =>
         \E r \in context : r.kind = "result" /\ r.ref = c.n

(* What Reflect logs was appended by this turn, and if no compaction came   *)
(* in between it is all of it: TurnStartIdx separates it from older turns.  *)
LogsThisTurn ==
  [][LogTurn => /\ turn'.logged \subseteq turn.added
                /\ ~turn.shrunk => turn'.logged = turn.added]_vars

(* The comment of CompactReplace (context.go:482-483): messages appended    *)
(* after the snapshot are preserved.  Not when something else shortened the *)
(* list in between: ForceCompact, or the removal of an old channel history. *)
AppendedPreserved ==
  [][compactor["async"] = "replace" /\ compactor'["async"] = "persist"
       => \A e \in Live(context) : e \in held["async"] \/ e \in context']_vars

(* "Logs all messages added during the current turn" (reflect.go:141): when *)
(* a compaction ends during the turn, TurnStartIdx points past them.        *)
EveryMessageLogged ==
  [][LogTurn => turn.added \subseteq turn'.logged]_vars

(* All messages are saved in the snapshot (docs/v1/01-pipeline.md:210): the  *)
(* messages just heard are in what is being saved, or were handed over.     *)
(* A message that was injected as history while its event waited stays      *)
(* marked Injected, and is never saved, logged or extracted.                *)
HeardIsSaved ==
  pc = "save" =>
    \A i \in 1..ingested : ~posted[i].self =>
      \E e \in saving \cup handed \cup held["async"] : e.kind = "user" /\ e.ref = i

(* The snapshot keeps the conversation across restarts (docs/v1/05-memory.md: *)
(* 164-172): a turn that ends while no compaction runs has saved what the   *)
(* conversation is.  The worker and a compaction both read the messages and  *)
(* then write them, so the copy written last may be the older one.          *)
SnapshotCurrent ==
  [][SaveTurn /\ (\A j \in Compactors : compactor[j] = "off")
       => db' = Live(context)]_vars
=============================================================================
