------------------------------ MODULE EventLoop ------------------------------
(***************************************************************************)
(* The path of an event from the bus to a conversation turn:               *)
(*                                                                         *)
(*   sources --Publish--> bus --dispatcher--> one channel per session key  *)
(*           --worker--> batch --handleBatchWith / PerceiveWith--> heard    *)
(*                                                                         *)
(* The bus (event.go) and the channels (agent_run.go) are bounded; a send  *)
(* on a full one blocks.  A worker collects a batch within the drain       *)
(* window, runs one turn on it, and then, for keys that do not skip it,    *)
(* catches up: batches that piled up meanwhile are only ingested, except   *)
(* the newest, which gets a turn.  Cancelling the context stops the loop.  *)
(*                                                                         *)
(* A timer is a step that may happen at any moment.  What a turn does with *)
(* the events belongs to ContextCompaction and to later modules: here the  *)
(* turn is the step that ends it, and an event is heard when the turn or   *)
(* the catch-up pass that ingests it is over.                              *)
(*                                                                         *)
(* An operator that stands before another and is used nowhere is that one   *)
(* with a mistake in it: the README says which property notices.            *)
(***************************************************************************)
EXTENDS Naturals, Sequences, Functions

CONSTANTS
  Source,       \* the values of Event.Source that are published
  Session,      \* session keys registered when Run starts
  BusCap,       \* capacity of the bus
  ChanCap,      \* capacity of each per-source channel
  TimedDrain,   \* drainWindow > 0 (FALSE: the non-blocking drain)
  MaxEvents,    \* bound: number of events ever published
  MayCancel     \* shutdown may be requested

ASSUME SourceAssumption ==
  Source \subseteq {"discord", "internal", "device", "web", "cli"}
ASSUME SessionAssumption ==
  Session \subseteq {"discord", "device", "web", "cli"} /\ "discord" \in Session
ASSUME CapAssumption == BusCap \in Nat \ {0} /\ ChanCap \in Nat \ {0}
ASSUME FlagAssumption == TimedDrain \in BOOLEAN /\ MayCancel \in BOOLEAN
ASSUME BoundAssumption == MaxEvents \in Nat

VARIABLES
  published,    \* number of events published so far
  bus,          \* the bus
  hand,         \* the event the dispatcher holds while it sends it, if any
  channels,     \* [Session -> the worker's channel]
  loop,         \* where the dispatcher is
  worker,       \* [Session -> where the worker is]
  batch,        \* [Session -> the batch (or "latest") the worker holds]
  heard,        \* [Session -> events ingested, in order]
  stale,        \* [Session -> ids ingested by a catch-up pass without a turn]
  cancelled     \* the context given to Run is done

vars == <<published, bus, hand, channels, loop, worker, batch, heard, stale,
          cancelled>>
-----------------------------------------------------------------------------
(* VAD-based sources (device, web) only publish voice events, the Discord  *)
(* source publishes text and, from a voice channel, voice.                 *)
MayBeVoice(s) == s \in {"discord", "device", "web"}
MustBeVoice(s) == s \in {"device", "web"}

Event ==
  {e \in [id : 1..MaxEvents, source : Source, voice : BOOLEAN] :
     /\ e.voice => MayBeVoice(e.source)
     /\ MustBeVoice(e.source) => e.voice}

SourceKeyForEvent(s) == IF s \in {"device", "web", "cli"} THEN s ELSE "discord"

(* An event whose key has no session goes to the discord worker. *)
KeyOf(e) ==
  IF SourceKeyForEvent(e.source) \in Session
  THEN SourceKeyForEvent(e.source)
  ELSE "discord"

SkipCatchUpStale(k) == k \in {"device", "web", "cli"}

HasVoice(b) == \E e \in Range(b) : e.voice

(* The window of a batch is fixed by its first event: one second if that is *)
(* voice, else the window of the session (always positive but in tests).    *)
Timed(k, b) == k # "discord" \/ TimedDrain \/ Head(b).voice
TimedCatchUp(k) == k # "discord" \/ TimedDrain
-----------------------------------------------------------------------------
Init ==
  /\ published = 0
  /\ bus = <<>>
  /\ hand = <<>>
  /\ channels = [k \in Session |-> <<>>]
  /\ loop = "select"
  /\ worker = [k \in Session |-> "select"]
  /\ batch = [k \in Session |-> <<>>]
  /\ heard = [k \in Session |-> <<>>]
  /\ stale = [k \in Session |-> {}]
  /\ cancelled = FALSE

(* Bus.Publish by any source: blocks while the bus is full. *)
Publish(s, v) ==
  LET e == [id |-> published + 1, source |-> s, voice |-> v]
  IN  /\ published < MaxEvents
      /\ e \in Event
      /\ Len(bus) < BusCap
      /\ bus' = Append(bus, e)
      /\ published' = published + 1
      /\ UNCHANGED <<hand, channels, loop, worker, batch, heard, stale, cancelled>>

Cancel ==
  /\ MayCancel
  /\ ~cancelled
  /\ cancelled' = TRUE
  /\ UNCHANGED <<published, bus, hand, channels, loop, worker, batch, heard, stale>>
-----------------------------------------------------------------------------
(* The dispatcher, the goroutine that called Run. *)
DispatchReceive ==
  /\ loop = "select"
  /\ bus # <<>>
  /\ hand' = <<Head(bus)>>
  /\ bus' = Tail(bus)
  /\ loop' = "send"
  /\ UNCHANGED <<published, channels, worker, batch, heard, stale, cancelled>>

RoomOffByOne(k) == Len(channels[k]) + 1 < ChanCap
RoomOverfull(k) == Len(channels[k]) <= ChanCap
Room(k) == Len(channels[k]) < ChanCap

(* The send does not watch the context. *)
DispatchSend ==
  /\ loop = "send"
  /\ LET k == KeyOf(Head(hand))
     IN  /\ Room(k)
         /\ channels' = [channels EXCEPT ![k] = Append(@, Head(hand))]
  /\ hand' = <<>>
  /\ loop' = "select"
  /\ UNCHANGED <<published, bus, worker, batch, heard, stale, cancelled>>

(* ctx.Done: close the channels, then wait for the workers. *)
DispatchStop ==
  /\ loop = "select"
  /\ cancelled
  /\ loop' = "wait"
  /\ UNCHANGED <<published, bus, hand, channels, worker, batch, heard, stale, cancelled>>

DispatchReturn ==
  /\ loop = "wait"
  /\ \A k \in Session : worker[k] = "done"
  /\ loop' = "returned"
  /\ UNCHANGED <<published, bus, hand, channels, worker, batch, heard, stale, cancelled>>

-----------------------------------------------------------------------------
(* A worker. *)
TakeFirst(k) ==
  /\ worker[k] = "select"
  /\ channels[k] # <<>>
  /\ batch' = [batch EXCEPT ![k] = <<Head(channels[k])>>]
  /\ channels' = [channels EXCEPT ![k] = Tail(@)]
  /\ worker' = [worker EXCEPT ![k] = "drain"]
  /\ UNCHANGED <<published, bus, hand, loop, heard, stale, cancelled>>

(* One more event joins the batch before the window closes. *)
DrainMore(k) ==
  /\ worker[k] \in {"drain", "catchUpDrain"}
  /\ channels[k] # <<>>
  /\ batch' = [batch EXCEPT ![k] = Append(@, Head(channels[k]))]
  /\ channels' = [channels EXCEPT ![k] = Tail(@)]
  /\ UNCHANGED <<published, bus, hand, loop, worker, heard, stale, cancelled>>

(* The window closes: the timer fires, or nothing is waiting (non-blocking *)
(* drain).  A closed channel also ends a drain; the timer covers it.       *)
DrainEnd(k) ==
  /\ \/ /\ worker[k] = "drain"
        /\ Timed(k, batch[k]) \/ channels[k] = <<>>
        /\ worker' = [worker EXCEPT ![k] = "turn"]
     \/ /\ worker[k] = "catchUpDrain"
        /\ worker' = [worker EXCEPT ![k] = "catchUp"]
  /\ UNCHANGED <<published, bus, hand, channels, loop, batch, heard, stale, cancelled>>

(* Shutdown during a timed drain: the worker returns and its batch is gone; *)
(* from a catch-up pass it goes back to its loop with nothing.              *)
DrainCancelled(k) ==
  /\ cancelled
  /\ \/ /\ worker[k] = "drain"
        /\ Timed(k, batch[k])
        /\ worker' = [worker EXCEPT ![k] = "done"]
     \/ /\ worker[k] = "catchUpDrain"
        /\ worker' = [worker EXCEPT ![k] = "select"]
  /\ batch' = [batch EXCEPT ![k] = <<>>]
  /\ UNCHANGED <<published, bus, hand, channels, loop, heard, stale, cancelled>>

HearNewestFirst(k) == heard' = [heard EXCEPT ![k] = batch[k] \o @]
HearTextOnly(k) ==
  heard' = [heard EXCEPT ![k] = @ \o SelectSeq(batch[k], LAMBDA e : ~e.voice)]
Hear(k) == heard' = [heard EXCEPT ![k] = @ \o batch[k]]

(* handleBatchWith returns; a batch without voice is followed by a catch-up *)
(* pass, unless the session skips it.                                       *)
FinishTurn(k) ==
  /\ worker[k] = "turn"
  /\ Hear(k)
  /\ worker' = [worker EXCEPT ![k] =
                  IF SkipCatchUpStale(k) \/ HasVoice(batch[k])
                  THEN "select" ELSE "catchUp"]
  /\ batch' = [batch EXCEPT ![k] = <<>>]
  /\ UNCHANGED <<published, bus, hand, channels, loop, stale, cancelled>>

(* catchUpStaleFor receives an event: the batch it held is ingested without *)
(* a turn, and the event starts a new one.                                  *)
CatchUpTake(k) ==
  /\ worker[k] = "catchUp"
  /\ channels[k] # <<>>
  /\ Hear(k)
  /\ stale' = [stale EXCEPT ![k] = @ \cup {e.id : e \in Range(batch[k])}]
  /\ batch' = [batch EXCEPT ![k] = <<Head(channels[k])>>]
  /\ channels' = [channels EXCEPT ![k] = Tail(@)]
  /\ worker' = [worker EXCEPT ![k] =
                  IF TimedCatchUp(k) THEN "catchUpDrain" ELSE "catchUp"]
  /\ UNCHANGED <<published, bus, hand, loop, cancelled>>

CatchUpForgets(k) ==
  /\ worker[k] = "catchUp"
  /\ channels[k] = <<>>
  /\ worker' = [worker EXCEPT ![k] = "select"]
  /\ batch' = [batch EXCEPT ![k] = <<>>]
  /\ UNCHANGED <<published, bus, hand, channels, loop, heard, stale, cancelled>>

(* Nothing is waiting: the newest batch, if any, gets a turn. *)
CatchUpDone(k) ==
  /\ worker[k] = "catchUp"
  /\ channels[k] = <<>>
  /\ worker' = [worker EXCEPT ![k] =
                  IF batch[k] = <<>> THEN "select" ELSE "latestTurn"]
  /\ UNCHANGED <<published, bus, hand, channels, loop, batch, heard, stale, cancelled>>

FinishLatestTurn(k) ==
  /\ worker[k] = "latestTurn"
  /\ Hear(k)
  /\ batch' = [batch EXCEPT ![k] = <<>>]
  /\ worker' = [worker EXCEPT ![k] = "select"]
  /\ UNCHANGED <<published, bus, hand, channels, loop, stale, cancelled>>

WorkerStopOnEvent(k) ==
  /\ worker[k] = "select"
  /\ cancelled
  /\ channels[k] # <<>>
  /\ worker' = [worker EXCEPT ![k] = "done"]
  /\ UNCHANGED <<published, bus, hand, channels, loop, batch, heard, stale, cancelled>>

(* ctx.Done; a closed channel is only read while the context is done too. *)
WorkerStop(k) ==
  /\ worker[k] = "select"
  /\ cancelled
  /\ worker' = [worker EXCEPT ![k] = "done"]
  /\ UNCHANGED <<published, bus, hand, channels, loop, batch, heard, stale, cancelled>>
-----------------------------------------------------------------------------
Dispatch == DispatchReceive \/ DispatchSend \/ DispatchStop \/ DispatchReturn

Worker(k) ==
  \/ TakeFirst(k) \/ DrainMore(k) \/ DrainEnd(k) \/ DrainCancelled(k)
  \/ FinishTurn(k) \/ CatchUpTake(k) \/ CatchUpDone(k) \/ FinishLatestTurn(k)
  \/ WorkerStop(k)

Next ==
  \/ \E s \in Source, v \in BOOLEAN : Publish(s, v)
  \/ Cancel
  \/ Dispatch
  \/ \E k \in Session : Worker(k)

(* The goroutines of Run keep being scheduled and every turn ends (LLM      *)
(* clients have timeouts); sources publish, and shutdown comes, or not.     *)
Fairness == WF_vars(Dispatch) /\ \A k \in Session : WF_vars(Worker(k))

Spec == Init /\ [][Next]_vars
FairSpec == Spec /\ Fairness
-----------------------------------------------------------------------------
TypeOK ==
  /\ published \in 0..MaxEvents
  /\ bus \in Seq(Event) /\ Len(bus) <= BusCap
  /\ hand \in Seq(Event) /\ Len(hand) = (IF loop = "send" THEN 1 ELSE 0)
  /\ channels \in [Session -> Seq(Event)]
  /\ \A k \in Session : Len(channels[k]) <= ChanCap
  /\ loop \in {"select", "send", "wait", "returned"}
  /\ worker \in [Session -> {"select", "drain", "turn", "catchUp",
                            "catchUpDrain", "latestTurn", "done"}]
  /\ batch \in [Session -> Seq(Event)]
  /\ heard \in [Session -> Seq(Event)]
  /\ stale \in [Session -> SUBSET (1..MaxEvents)]
  /\ cancelled \in BOOLEAN

(* A conversation hears its events in the order they were published, each  *)
(* once: the bus, the blocking dispatcher, the drains and the catch-up pass *)
(* (which already holds the next event when it ingests a batch) never      *)
(* reorder or repeat them.                                                 *)
InOrder ==
  \A k \in Session : \A i, j \in DOMAIN heard[k] :
    i < j => heard[k][i].id < heard[k][j].id

(* A message that was only ingested is never the last word: a newer message *)
(* of the same conversation got a turn, or is held for one.  Only shutdown  *)
(* can leave it without (catchUpStaleFor, lines 282-287).                   *)
StaleSuperseded ==
  \A k \in Session : \A e \in Range(heard[k]) :
    e.id \in stale[k] =>
      \/ cancelled
      \/ batch[k] # <<>>
      \/ \E f \in Range(heard[k]) : f.id > e.id /\ f.id \notin stale[k]

(* The events between Publish and a conversation. *)
InFlight ==
  Range(bus) \cup Range(hand)
    \cup UNION {Range(channels[k]) \cup Range(batch[k]) : k \in Session}

Abstract == INSTANCE OrderedDelivery WITH
  Key <- Session,
  accepted <- published,
  pending <- InFlight,
  delivered <- [k \in Session |-> Range(heard[k])],
  stopping <- cancelled

(* The loop delivers each event to the conversation its source belongs to, *)
(* oldest first, and drops events only during shutdown.                    *)
DeliversInOrder == Abstract!Spec

Heard(n) == \E k \in Session : \E e \in Range(heard[k]) : e.id = n

(* Every published event is heard unless shutdown comes first: a full       *)
(* channel blocks the dispatcher, and with it every source, only for a time.*)
EventuallyHeard ==
  \A n \in 1..MaxEvents : published >= n ~> (Heard(n) \/ cancelled)

(* After the context is done every worker returns, wherever it was. *)
WorkersStop == cancelled ~> \A k \in Session : worker[k] = "done"

(* Run "blocks until ctx is canceled" (agent_run.go:15): once it is, Run     *)
(* returns.  It does not when the dispatcher is sending to a full channel:  *)
(* the send does not watch the context, and the worker may already be gone. *)
RunReturns == cancelled ~> loop = "returned"

(* Voice events are not cut off by a catch-up pass as stale, they pile up   *)
(* and become one batch of the next round (agent_run.go:136-138).  The code *)
(* only looks at the batch just handled: voice that queued up behind a text *)
(* turn is ingested without a reply.                                        *)
VoiceNeverStale ==
  \A k \in Session : \A e \in Range(heard[k]) : e.voice => e.id \notin stale[k]
=============================================================================
