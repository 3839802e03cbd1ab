--------------------------- MODULE EventLoop_proof ---------------------------
(***************************************************************************)
(* Proofs about EventLoop, for every set of sessions, every capacity and   *)
(* every number of events: types, order, the refinement of OrderedDelivery, *)
(* and that the loop comes to rest, and rests only when all was heard.      *)
(***************************************************************************)
EXTENDS EventLoop, SequenceFacts, TLAPS

-----------------------------------------------------------------------------
(* Sequences of events ordered by id. *)
Sorted(s) == \A i, j \in DOMAIN s : i < j => s[i].id < s[j].id

Before(s, t) == \A e \in Range(s), f \in Range(t) : e.id < f.id

(* What a receive, a send and a delivery do to the order. *)
LEMMA SortedAppend ==
  ASSUME NEW s \in Seq(Event), NEW e \in Event, Sorted(s),
         \A f \in Range(s) : f.id < e.id
  PROVE  Sorted(Append(s, e))
<1>1. SUFFICES ASSUME NEW i \in DOMAIN Append(s, e),
                      NEW j \in DOMAIN Append(s, e), i < j
               PROVE  Append(s, e)[i].id < Append(s, e)[j].id
  BY DEF Sorted
<1>2. i \in DOMAIN s /\ Append(s, e)[i] = s[i]
  BY <1>1
<1>3. CASE j \in DOMAIN s
  BY <1>1, <1>2, <1>3 DEF Sorted
<1>4. CASE j = Len(s) + 1
  BY <1>1, <1>2, <1>4 DEF Range
<1>5. QED BY <1>1, <1>3, <1>4

LEMMA SortedTail ==
  ASSUME NEW s \in Seq(Event), s # <<>>, Sorted(s)
  PROVE  /\ Sorted(Tail(s))
         /\ \A f \in Range(Tail(s)) : Head(s).id < f.id
<1>1. \A i \in DOMAIN Tail(s) : i + 1 \in DOMAIN s /\ Tail(s)[i] = s[i + 1]
  OBVIOUS
<1>2. Sorted(Tail(s))
  BY <1>1 DEF Sorted
<1>3. 1 \in DOMAIN s /\ Head(s) = s[1]
  OBVIOUS
<1>4. ASSUME NEW f \in Range(Tail(s)) PROVE Head(s).id < f.id
  <2>1. PICK i \in DOMAIN Tail(s) : f = Tail(s)[i] BY <1>4 DEF Range
  <2>2. i + 1 \in DOMAIN s /\ f = s[i + 1] /\ 1 < i + 1 BY <2>1, <1>1
  <2>3. QED BY <2>2, <1>3 DEF Sorted
<1>5. QED BY <1>2, <1>4

LEMMA SortedConcat ==
  ASSUME NEW s \in Seq(Event), NEW t \in Seq(Event),
         Sorted(s), Sorted(t), Before(s, t)
  PROVE  Sorted(s \o t)
<1>1. SUFFICES ASSUME NEW i \in DOMAIN (s \o t), NEW j \in DOMAIN (s \o t), i < j
               PROVE  (s \o t)[i].id < (s \o t)[j].id
  BY DEF Sorted
<1>2. CASE j <= Len(s)
  BY <1>1, <1>2 DEF Sorted
<1>3. CASE i > Len(s)
  <2>1. /\ i - Len(s) \in DOMAIN t /\ (s \o t)[i] = t[i - Len(s)]
        /\ j - Len(s) \in DOMAIN t /\ (s \o t)[j] = t[j - Len(s)]
    BY <1>1, <1>3
  <2>2. QED BY <1>1, <2>1 DEF Sorted
<1>4. CASE i <= Len(s) /\ j > Len(s)
  <2>1. i \in DOMAIN s /\ (s \o t)[i] = s[i]
    BY <1>1, <1>4
  <2>2. j - Len(s) \in DOMAIN t /\ (s \o t)[j] = t[j - Len(s)]
    BY <1>1, <1>4
  <2>3. QED BY <2>1, <2>2 DEF Before, Range
<1>5. QED BY <1>1, <1>2, <1>3, <1>4
-----------------------------------------------------------------------------
(* An event always has a session to go to. *)
LEMMA KeyOfInSession == ASSUME NEW e \in Event PROVE KeyOf(e) \in Session
  BY SessionAssumption DEF KeyOf

(* Every value stays of its kind; in particular the buffers never exceed   *)
(* their capacity, and the dispatcher holds an event exactly while it sends.*)
LEMMA TypeInit == Init => TypeOK
<1> SUFFICES ASSUME Init PROVE TypeOK
  OBVIOUS
<1>1. <<>> \in Seq(Event) /\ Len(<<>>) = 0
  OBVIOUS
<1>2. [k \in Session |-> <<>>] \in [Session -> Seq(Event)]
  BY <1>1
<1>3. \A k \in Session : Len(channels[k]) <= ChanCap
  BY <1>1, CapAssumption DEF Init
<1>4. bus \in Seq(Event) /\ Len(bus) <= BusCap
  BY <1>1, CapAssumption DEF Init
<1>5. hand \in Seq(Event) /\ Len(hand) = (IF loop = "send" THEN 1 ELSE 0)
  BY <1>1 DEF Init
<1>6. published \in 0..MaxEvents
  BY BoundAssumption DEF Init
<1>7. /\ channels \in [Session -> Seq(Event)] /\ batch \in [Session -> Seq(Event)]
      /\ heard \in [Session -> Seq(Event)]
  BY <1>2 DEF Init
<1>8. /\ worker \in [Session -> {"select", "drain", "turn", "catchUp",
                              "catchUpDrain", "latestTurn", "done"}]
      /\ stale \in [Session -> SUBSET (1..MaxEvents)]
  BY DEF Init
<1>9. loop \in {"select", "send", "wait", "returned"} /\ cancelled \in BOOLEAN
  BY DEF Init
<1>10. QED BY <1>3, <1>4, <1>5, <1>6, <1>7, <1>8, <1>9 DEF TypeOK

LEMMA TypeStep == TypeOK /\ [Next]_vars => TypeOK'
<1> USE CapAssumption, BoundAssumption
<1> SUFFICES ASSUME TypeOK, [Next]_vars PROVE TypeOK'
  OBVIOUS
<1>0. \A k \in Session : channels[k] \in Seq(Event) /\ batch[k] \in Seq(Event)
                        /\ heard[k] \in Seq(Event)
  BY DEF TypeOK
<1>1. ASSUME NEW s \in Source, NEW v \in BOOLEAN, Publish(s, v) PROVE TypeOK'
  BY <1>1 DEF TypeOK, Publish
<1>2. CASE Cancel
  BY <1>2 DEF TypeOK, Cancel
<1>3. CASE DispatchReceive
  <2>1. Head(bus) \in Event /\ Tail(bus) \in Seq(Event) /\ Len(Tail(bus)) <= BusCap
    BY <1>3 DEF TypeOK, DispatchReceive
  <2>2. QED BY <1>3, <2>1 DEF TypeOK, DispatchReceive
<1>4. CASE DispatchSend
  <2>0. hand \in Seq(Event) /\ Len(hand) = 1
    BY <1>4 DEF TypeOK, DispatchSend
  <2>1. Head(hand) \in Event
    BY <2>0
  <2>2. KeyOf(Head(hand)) \in Session
    BY <2>1, KeyOfInSession
  <2> DEFINE k == KeyOf(Head(hand))
  <2>3. /\ channels' = [channels EXCEPT ![k] = Append(channels[k], Head(hand))]
        /\ Len(channels[k]) < ChanCap
    BY <1>4 DEF DispatchSend, Room
  <2>4. Append(channels[k], Head(hand)) \in Seq(Event)
    BY <2>1, <2>2, <1>0
  <2>5. Len(Append(channels[k], Head(hand))) <= ChanCap
    BY <2>1, <2>2, <2>3, <1>0
  <2> HIDE DEF k
  <2>6. channels' \in [Session -> Seq(Event)]
    BY <2>2, <2>3, <2>4 DEF TypeOK
  <2>7. \A m \in Session : Len(channels'[m]) <= ChanCap
    BY <2>2, <2>3, <2>5 DEF TypeOK
  <2>8. QED BY <1>4, <2>6, <2>7 DEF TypeOK, DispatchSend
<1>5. CASE DispatchStop
  BY <1>5 DEF TypeOK, DispatchStop
<1>6. CASE DispatchReturn
  BY <1>6 DEF TypeOK, DispatchReturn
<1>7. ASSUME NEW k \in Session, Worker(k) PROVE TypeOK'
  <2>0. ASSUME channels[k] # <<>>
        PROVE  /\ Head(channels[k]) \in Event
               /\ Tail(channels[k]) \in Seq(Event)
               /\ Len(Tail(channels[k])) <= ChanCap
    <3>1. channels[k] \in Seq(Event) /\ Len(channels[k]) <= ChanCap
      BY DEF TypeOK
    <3>2. QED BY <2>0, <3>1
  <2>1. CASE TakeFirst(k)
    <3>1. channels[k] # <<>> BY <2>1 DEF TakeFirst
    <3>2. QED BY <2>1, <3>1, <2>0 DEF TypeOK, TakeFirst
  <2>2. CASE DrainMore(k)
    <3>1. channels[k] # <<>> BY <2>2 DEF DrainMore
    <3>2. Append(batch[k], Head(channels[k])) \in Seq(Event)
      BY <3>1, <2>0, <1>0
    <3>3. QED BY <2>2, <3>1, <3>2, <2>0 DEF TypeOK, DrainMore
  <2>3. CASE DrainEnd(k)
    BY <2>3 DEF TypeOK, DrainEnd
  <2>4. CASE DrainCancelled(k)
    <3>1. <<>> \in Seq(Event)
      OBVIOUS
    <3>2. batch' \in [Session -> Seq(Event)]
      BY <2>4, <3>1 DEF TypeOK, DrainCancelled
    <3>3. QED BY <2>4, <3>2 DEF TypeOK, DrainCancelled
  <2>5. heard[k] \o batch[k] \in Seq(Event)
    BY <1>0
  <2>6. CASE FinishTurn(k)
    BY <2>6, <2>5 DEF TypeOK, FinishTurn, Hear
  <2>7. CASE CatchUpTake(k)
    <3>1. channels[k] # <<>> BY <2>7 DEF CatchUpTake
    <3>2. \A e \in Range(batch[k]) : e.id \in 1..MaxEvents
      <4>1. \A e \in Event : e.id \in 1..MaxEvents
        BY DEF Event
      <4>2. \A i \in DOMAIN batch[k] : batch[k][i] \in Event
        BY <1>0
      <4>3. QED BY <4>1, <4>2 DEF Range
    <3>3. stale[k] \cup {e.id : e \in Range(batch[k])} \in SUBSET (1..MaxEvents)
      BY <3>2 DEF TypeOK
    <3>4. stale' \in [Session -> SUBSET (1..MaxEvents)]
      BY <2>7, <3>3 DEF TypeOK, CatchUpTake
    <3>5. QED BY <2>7, <3>1, <3>4, <2>0, <2>5 DEF TypeOK, CatchUpTake, Hear
  <2>8. CASE CatchUpDone(k)
    BY <2>8 DEF TypeOK, CatchUpDone
  <2>9. CASE FinishLatestTurn(k)
    BY <2>9, <2>5 DEF TypeOK, FinishLatestTurn, Hear
  <2>10. CASE WorkerStop(k)
    BY <2>10 DEF TypeOK, WorkerStop
  <2>11. QED
    BY <1>7, <2>1, <2>2, <2>3, <2>4, <2>6, <2>7, <2>8, <2>9, <2>10 DEF Worker
<1>8. CASE UNCHANGED vars
  BY <1>8 DEF TypeOK, vars
<1>9. QED
  BY <1>1, <1>2, <1>3, <1>4, <1>5, <1>6, <1>7, <1>8 DEF Next, Dispatch

THEOREM TypeCorrect == Spec => []TypeOK
  BY TypeInit, TypeStep, PTL DEF Spec
-----------------------------------------------------------------------------
(* The inductive invariant.  Along the way of key k, from heard back to the *)
(* bus, ids only grow; everything on it belongs to k and was published; and *)
(* what catch-up passes ingested is older than all that is still to come.   *)
Path(k) == Range(heard[k]) \cup Range(batch[k]) \cup Range(channels[k])

Ahead(k) ==
  Range(batch[k]) \cup Range(channels[k]) \cup Range(hand) \cup Range(bus)

BusOrdered ==
  /\ Sorted(bus)
  /\ Before(hand, bus)
  /\ \A e \in Range(hand) \cup Range(bus) : e.id <= published

KeyOrdered(k) ==
  /\ Sorted(heard[k]) /\ Sorted(batch[k]) /\ Sorted(channels[k])
  /\ Before(heard[k], batch[k])
  /\ Before(heard[k], channels[k])
  /\ Before(batch[k], channels[k])
  /\ \A e \in Path(k) : e.id <= published /\ KeyOf(e) = k
  /\ \A e \in Path(k), f \in Range(hand) \cup Range(bus) : e.id < f.id
  /\ \A n \in stale[k] : n <= published /\ \A e \in Ahead(k) : n < e.id

HoldsBatch(k) ==
  /\ worker[k] \in {"drain", "turn", "catchUpDrain", "latestTurn"} => batch[k] # <<>>
  /\ worker[k] \in {"select", "done"} => batch[k] = <<>>

Superseded(k) ==
  \A e \in Range(heard[k]) : e.id \in stale[k] =>
    \/ cancelled
    \/ batch[k] # <<>>
    \/ \E f \in Range(heard[k]) : f.id > e.id /\ f.id \notin stale[k]

IInv ==
  /\ TypeOK
  /\ BusOrdered
  /\ \A k \in Session : KeyOrdered(k) /\ HoldsBatch(k) /\ Superseded(k)

LEMMA SetOfEvents ==
  ASSUME NEW s \in Seq(Event)
  PROVE  Range(s) \subseteq Event
  BY DEF Range

LEMMA EventId == ASSUME NEW e \in Event PROVE e.id \in Nat
  BY BoundAssumption DEF Event

(* The elements the queues hold are events, their numbers are naturals. *)
LEMMA ElementIds ==
  ASSUME TypeOK, NEW k \in Session
  PROVE  /\ Range(bus) \subseteq Event /\ Range(hand) \subseteq Event
         /\ Range(channels[k]) \subseteq Event /\ Range(batch[k]) \subseteq Event
         /\ Range(heard[k]) \subseteq Event
         /\ stale[k] \subseteq Nat
         /\ published \in Nat
  BY SetOfEvents, BoundAssumption DEF TypeOK

LEMMA OrderedInit ==
  ASSUME Init
  PROVE  BusOrdered /\ \A k \in Session : KeyOrdered(k) /\ HoldsBatch(k) /\ Superseded(k)
  BY RangeOfEmpty DEF Init, BusOrdered, KeyOrdered, HoldsBatch, Superseded, Path, Ahead,
                    Before, Sorted

(* A step that leaves the queues alone leaves their order alone. *)
LEMMA OrderedUnchanged ==
  ASSUME BusOrdered, \A k \in Session : KeyOrdered(k),
         UNCHANGED <<published, bus, hand, channels, batch, heard, stale>>
  PROVE  BusOrdered' /\ \A k \in Session : KeyOrdered(k)'
  BY DEF BusOrdered, KeyOrdered, Path, Ahead

LEMMA OrderedPublish ==
  ASSUME TypeOK, BusOrdered, \A k \in Session : KeyOrdered(k),
         NEW s \in Source, NEW v \in BOOLEAN, Publish(s, v)
  PROVE  BusOrdered' /\ \A k \in Session : KeyOrdered(k)'
<1> DEFINE e == [id |-> published + 1, source |-> s, voice |-> v]
<1>1. /\ e \in Event /\ e.id = published + 1
      /\ bus' = Append(bus, e) /\ published' = published + 1
      /\ UNCHANGED <<hand, channels, batch, heard, stale>>
  BY DEF Publish
<1> HIDE DEF e
<1>2. bus \in Seq(Event) /\ published \in Nat
  BY BoundAssumption DEF TypeOK
<1>3. Range(bus)' = Range(bus) \cup {e}
  BY <1>1, <1>2, RangeOfAppend
<1>4. \A f \in Range(bus) \cup Range(hand) : f \in Event /\ f.id \in Nat /\ f.id < e.id
  <2>1. Range(bus) \subseteq Event /\ Range(hand) \subseteq Event
    BY SetOfEvents DEF TypeOK
  <2>2. QED BY <1>1, <1>2, <2>1, EventId DEF BusOrdered
<1>5. Sorted(bus)'
  BY <1>1, <1>2, <1>4, SortedAppend DEF BusOrdered
<1>6. BusOrdered'
  BY <1>1, <1>2, <1>3, <1>4, <1>5 DEF BusOrdered, Before
<1>7. ASSUME NEW k \in Session PROVE KeyOrdered(k)'
  <2>1. KeyOrdered(k)
    OBVIOUS
  <2>2. /\ Range(channels[k]) \subseteq Event /\ Range(batch[k]) \subseteq Event
        /\ Range(heard[k]) \subseteq Event /\ stale[k] \subseteq Nat
    BY ElementIds
  <2>3. \A f \in Path(k) : f.id \in Nat /\ f.id < e.id /\ f.id <= published + 1
    BY <1>1, <1>2, <2>1, <2>2, EventId DEF KeyOrdered, Path
  <2>4. \A n \in stale[k] : n < e.id /\ n <= published + 1
    BY <1>1, <1>2, <2>1, <2>2 DEF KeyOrdered
  <2>5. Path(k)' = Path(k) /\ Ahead(k)' = Ahead(k) \cup {e}
    BY <1>1, <1>3 DEF Path, Ahead
  <2>6. QED
    BY <1>1, <1>3, <2>1, <2>3, <2>4, <2>5 DEF KeyOrdered
<1>8. QED BY <1>6, <1>7

(* The event moves from the head of the bus to the dispatcher's hand. *)
LEMMA OrderedReceive ==
  ASSUME TypeOK, BusOrdered, \A k \in Session : KeyOrdered(k), DispatchReceive
  PROVE  BusOrdered' /\ \A k \in Session : KeyOrdered(k)'
<1>1. /\ bus # <<>> /\ bus' = Tail(bus) /\ hand' = <<Head(bus)>>
      /\ UNCHANGED <<published, channels, batch, heard, stale>>
  BY DEF DispatchReceive
<1>2. bus \in Seq(Event)
  BY DEF TypeOK
<1>3. Range(bus) = {Head(bus)} \cup Range(bus)' /\ Range(hand)' = {Head(bus)}
  BY <1>1, <1>2, RangeOfTail, RangeOfSingle
<1>4. Sorted(bus)' /\ \A f \in Range(bus)' : Head(bus).id < f.id
  BY <1>1, <1>2, SortedTail DEF BusOrdered
<1>5. BusOrdered'
  BY <1>1, <1>3, <1>4 DEF BusOrdered, Before
<1>6. ASSUME NEW k \in Session PROVE KeyOrdered(k)'
  <2>1. KeyOrdered(k)
    OBVIOUS
  <2>2. /\ Path(k)' = Path(k) /\ Ahead(k)' \subseteq Ahead(k)
        /\ Range(hand)' \cup Range(bus)' \subseteq Range(bus)
    BY <1>1, <1>3 DEF Path, Ahead
  <2>3. QED
    BY <1>1, <2>1, <2>2 DEF KeyOrdered
<1>7. QED BY <1>5, <1>6

(* The event moves from the hand to the end of its key's channel. *)
LEMMA OrderedSend ==
  ASSUME TypeOK, BusOrdered, \A k \in Session : KeyOrdered(k), DispatchSend
  PROVE  BusOrdered' /\ \A k \in Session : KeyOrdered(k)'
<1>0. hand \in Seq(Event) /\ Len(hand) = 1
  BY DEF DispatchSend, TypeOK
<1>1. PICK e \in Event : e = Head(hand) /\ Range(hand) = {e}
  BY <1>0 DEF Range
<1>2. PICK m \in Session : m = KeyOf(e)
  BY KeyOfInSession
<1>3. /\ hand' = <<>>
      /\ channels' = [channels EXCEPT ![m] = Append(@, e)]
      /\ UNCHANGED <<published, bus, batch, heard, stale>>
  BY <1>1, <1>2 DEF DispatchSend
<1>5. Range(hand)' = {}
  BY <1>3, RangeOfEmpty
<1>6. /\ channels[m] \in Seq(Event) /\ channels'[m] = Append(channels[m], e)
      /\ \A k \in Session : k # m => channels'[k] = channels[k]
  BY <1>2, <1>3 DEF TypeOK
<1>7. Range(channels'[m]) = Range(channels[m]) \cup {e}
  BY <1>1, <1>6, RangeOfAppend
<1>8. BusOrdered'
  BY <1>3, <1>5 DEF BusOrdered, Before
<1>9. KeyOrdered(m)'
  <2>1. KeyOrdered(m)
    BY <1>2
  <2>2. \A f \in Path(m) : f.id < e.id
    BY <1>1, <2>1 DEF KeyOrdered
  <2>3. Sorted(channels'[m])
    BY <1>1, <1>6, <2>1, <2>2, SortedAppend DEF KeyOrdered, Path
  <2>4. e.id <= published /\ \A f \in Range(bus) : e.id < f.id
    BY <1>1 DEF BusOrdered, Before
  <2>5. Path(m)' = Path(m) \cup {e} /\ Ahead(m)' = Ahead(m)
    BY <1>1, <1>3, <1>5, <1>7, RangeOfEmpty DEF Path, Ahead
  <2>6. Before(heard[m], channels[m])' /\ Before(batch[m], channels[m])'
    BY <1>3, <1>7, <2>1, <2>2 DEF KeyOrdered, Before, Path
  <2>7. \A f \in Path(m)' : f.id <= published /\ KeyOf(f) = m
    BY <2>1, <2>4, <2>5, <1>2 DEF KeyOrdered
  <2>8. \A f \in Path(m)', g \in Range(bus) : f.id < g.id
    BY <2>1, <2>4, <2>5 DEF KeyOrdered
  <2>9. QED
    BY <1>3, <1>5, <2>1, <2>3, <2>5, <2>6, <2>7, <2>8 DEF KeyOrdered
<1>10. ASSUME NEW k \in Session, k # m PROVE KeyOrdered(k)'
  <2>1. KeyOrdered(k) /\ channels'[k] = channels[k]
    BY <1>6, <1>10
  <2>2. Path(k)' = Path(k) /\ Ahead(k)' \subseteq Ahead(k)
    BY <1>3, <1>5, <2>1 DEF Path, Ahead
  <2>3. QED
    BY <1>3, <1>5, <2>1, <2>2 DEF KeyOrdered
<1>11. QED BY <1>8, <1>9, <1>10

(* A worker's step only touches the queues of its own key. *)
LEMMA OrderedOther ==
  ASSUME BusOrdered, NEW m, KeyOrdered(m),
         UNCHANGED <<published, bus, hand>>,
         channels'[m] = channels[m], batch'[m] = batch[m],
         heard'[m] = heard[m], stale'[m] = stale[m]
  PROVE  BusOrdered' /\ KeyOrdered(m)'
  BY DEF BusOrdered, KeyOrdered, Path, Ahead

(* The head of the channel joins the batch. *)
LEMMA OrderedTake ==
  ASSUME TypeOK, BusOrdered, NEW k \in Session, KeyOrdered(k),
         channels[k] # <<>>,
         batch' = [batch EXCEPT ![k] = Append(@, Head(channels[k]))],
         channels' = [channels EXCEPT ![k] = Tail(@)],
         UNCHANGED <<published, bus, hand, heard, stale>>
  PROVE  KeyOrdered(k)'
<1>1. channels[k] \in Seq(Event) /\ batch[k] \in Seq(Event)
  BY DEF TypeOK
<1>2. PICK e \in Event : e = Head(channels[k])
  BY <1>1
<1>3. batch'[k] = Append(batch[k], e) /\ channels'[k] = Tail(channels[k])
  BY <1>2 DEF TypeOK
<1>4. /\ Range(channels[k]) = {e} \cup Range(channels'[k])
      /\ Range(batch'[k]) = Range(batch[k]) \cup {e}
  BY <1>1, <1>2, <1>3, RangeOfTail, RangeOfAppend
<1>5. Sorted(channels'[k]) /\ \A f \in Range(channels'[k]) : e.id < f.id
  BY <1>1, <1>2, <1>3, SortedTail DEF KeyOrdered
<1>6. \A f \in Range(batch[k]) \cup Range(heard[k]) : f.id < e.id
  BY <1>4 DEF KeyOrdered, Before
<1>7. Sorted(batch'[k])
  BY <1>1, <1>3, <1>6, SortedAppend DEF KeyOrdered
<1>8. Path(k)' = Path(k) /\ Ahead(k)' = Ahead(k)
  BY <1>4 DEF Path, Ahead
<1>9. /\ Before(heard[k], batch[k])' /\ Before(heard[k], channels[k])'
      /\ Before(batch[k], channels[k])'
  BY <1>4, <1>5, <1>6 DEF KeyOrdered, Before
<1>10. QED
  BY <1>5, <1>7, <1>8, <1>9 DEF KeyOrdered

(* The batch is heard. *)
LEMMA OrderedHear ==
  ASSUME TypeOK, BusOrdered, NEW k \in Session, KeyOrdered(k),
         Hear(k), batch' = [batch EXCEPT ![k] = <<>>],
         UNCHANGED <<published, bus, hand, channels, stale>>
  PROVE  KeyOrdered(k)'
<1>1. heard[k] \in Seq(Event) /\ batch[k] \in Seq(Event)
  BY DEF TypeOK
<1>2. heard'[k] = heard[k] \o batch[k] /\ batch'[k] = <<>>
  BY DEF TypeOK, Hear
<1>3. Range(heard'[k]) = Range(heard[k]) \cup Range(batch[k]) /\ Range(batch'[k]) = {}
  BY <1>1, <1>2, RangeOfConcat, RangeOfEmpty
<1>4. Sorted(heard'[k])
  BY <1>1, <1>2, SortedConcat DEF KeyOrdered
<1>5. Sorted(batch'[k])
  BY <1>2 DEF Sorted
<1>6. Path(k)' = Path(k) /\ Ahead(k)' \subseteq Ahead(k)
  BY <1>3 DEF Path, Ahead
<1>7. /\ Before(heard[k], batch[k])' /\ Before(heard[k], channels[k])'
      /\ Before(batch[k], channels[k])'
  BY <1>3 DEF KeyOrdered, Before
<1>8. QED
  BY <1>4, <1>5, <1>6, <1>7 DEF KeyOrdered

(* The batch is dropped. *)
LEMMA OrderedDrop ==
  ASSUME TypeOK, BusOrdered, NEW k \in Session, KeyOrdered(k),
         batch' = [batch EXCEPT ![k] = <<>>],
         UNCHANGED <<published, bus, hand, channels, heard, stale>>
  PROVE  KeyOrdered(k)'
<1>1. batch'[k] = <<>> /\ Range(batch'[k]) = {}
  BY RangeOfEmpty DEF TypeOK
<1>2. Path(k)' \subseteq Path(k) /\ Ahead(k)' \subseteq Ahead(k)
  BY <1>1 DEF Path, Ahead
<1>3. Sorted(batch[k])' /\ Before(heard[k], batch[k])' /\ Before(batch[k], channels[k])'
  BY <1>1 DEF Sorted, Before
<1>4. QED
  BY <1>2, <1>3 DEF KeyOrdered

(* The catch-up pass hears its batch as stale and holds the next event. *)
LEMMA OrderedCatchUp ==
  ASSUME TypeOK, BusOrdered, NEW k \in Session, KeyOrdered(k), CatchUpTake(k)
  PROVE  KeyOrdered(k)'
<1>1. /\ channels[k] # <<>> /\ heard[k] \in Seq(Event)
      /\ batch[k] \in Seq(Event) /\ channels[k] \in Seq(Event)
  BY DEF TypeOK, CatchUpTake
<1>2. PICK e \in Event : e = Head(channels[k])
  BY <1>1
<1>3. /\ heard'[k] = heard[k] \o batch[k]
      /\ batch'[k] = <<e>>
      /\ channels'[k] = Tail(channels[k])
      /\ stale'[k] = stale[k] \cup {f.id : f \in Range(batch[k])}
      /\ UNCHANGED <<published, bus, hand>>
  BY <1>2 DEF TypeOK, CatchUpTake, Hear
<1>4. /\ Range(heard'[k]) = Range(heard[k]) \cup Range(batch[k])
      /\ Range(batch'[k]) = {e}
      /\ Range(channels[k]) = {e} \cup Range(channels'[k])
  BY <1>1, <1>2, <1>3, RangeOfConcat, RangeOfTail, RangeOfSingle
<1>5. Sorted(heard'[k])
  BY <1>1, <1>3, SortedConcat DEF KeyOrdered
<1>6. Sorted(batch'[k])
  BY <1>3 DEF Sorted
<1>7. Sorted(channels'[k]) /\ \A f \in Range(channels'[k]) : e.id < f.id
  BY <1>1, <1>2, <1>3, SortedTail DEF KeyOrdered
<1>8. Path(k)' = Path(k) /\ Ahead(k)' \subseteq Ahead(k)
  BY <1>3, <1>4 DEF Path, Ahead
<1>9. /\ Before(heard[k], batch[k])' /\ Before(heard[k], channels[k])'
      /\ Before(batch[k], channels[k])'
  BY <1>4, <1>7 DEF KeyOrdered, Before
<1>10. ASSUME NEW f \in Range(batch[k])
       PROVE  f.id <= published /\ \A g \in Ahead(k)' : f.id < g.id
  <2>1. f \in Path(k)
    BY DEF Path
  <2>2. \A g \in Range(channels[k]) : f.id < g.id
    BY DEF KeyOrdered, Before
  <2>3. Ahead(k)' \subseteq Range(channels[k]) \cup Range(hand) \cup Range(bus)
    BY <1>3, <1>4 DEF Ahead
  <2>4. QED BY <2>1, <2>2, <2>3 DEF KeyOrdered
<1>11. \A n \in stale'[k] : n <= published /\ \A g \in Ahead(k)' : n < g.id
  BY <1>3, <1>8, <1>10 DEF KeyOrdered
<1>12. QED
  BY <1>3, <1>5, <1>6, <1>7, <1>8, <1>9, <1>11 DEF KeyOrdered

-----------------------------------------------------------------------------
(* The order is kept by every step. *)
LEMMA OrderedStep ==
  ASSUME IInv, Next
  PROVE  BusOrdered' /\ \A m \in Session : KeyOrdered(m)'
<1> USE DEF IInv
<1>1. ASSUME NEW s \in Source, NEW v \in BOOLEAN, Publish(s, v)
      PROVE  BusOrdered' /\ \A m \in Session : KeyOrdered(m)'
  BY <1>1, OrderedPublish
<1>2. CASE Cancel \/ DispatchStop \/ DispatchReturn
  BY <1>2, OrderedUnchanged DEF Cancel, DispatchStop, DispatchReturn
<1>3. CASE DispatchReceive
  BY <1>3, OrderedReceive
<1>4. CASE DispatchSend
  BY <1>4, OrderedSend
<1>5. ASSUME NEW k \in Session, Worker(k)
      PROVE  BusOrdered' /\ \A m \in Session : KeyOrdered(m)'
  <2>1. CASE DrainEnd(k) \/ CatchUpDone(k) \/ WorkerStop(k)
    BY <2>1, OrderedUnchanged DEF DrainEnd, CatchUpDone, WorkerStop
  <2>2. CASE ~(DrainEnd(k) \/ CatchUpDone(k) \/ WorkerStop(k))
    <3>1. /\ UNCHANGED <<published, bus, hand>>
          /\ \A m \in Session \ {k} :
               /\ channels'[m] = channels[m] /\ batch'[m] = batch[m]
               /\ heard'[m] = heard[m] /\ stale'[m] = stale[m]
      <4>1. CASE TakeFirst(k) \/ DrainMore(k)
        BY <4>1 DEF TakeFirst, DrainMore, TypeOK
      <4>2. CASE DrainCancelled(k)
        BY <4>2 DEF DrainCancelled, TypeOK
      <4>3. CASE FinishTurn(k) \/ FinishLatestTurn(k)
        BY <4>3 DEF FinishTurn, FinishLatestTurn, Hear, TypeOK
      <4>4. CASE CatchUpTake(k)
        BY <4>4 DEF CatchUpTake, Hear, TypeOK
      <4>5. QED BY <1>5, <2>2, <4>1, <4>2, <4>3, <4>4 DEF Worker
    <3>2. BusOrdered' /\ \A m \in Session \ {k} : KeyOrdered(m)'
      <4>1. BusOrdered'
        BY <3>1 DEF BusOrdered
      <4>2. QED BY <3>1, <4>1, OrderedOther
    <3>3. KeyOrdered(k)'
      <4>1. CASE TakeFirst(k)
        <5>1. batch[k] = <<>>
          BY <4>1 DEF TakeFirst, HoldsBatch
        <5>2. Append(batch[k], Head(channels[k])) = <<Head(channels[k])>>
          BY <5>1
        <5>3. batch' = [batch EXCEPT ![k] = Append(@, Head(channels[k]))]
          BY <4>1, <5>2 DEF TakeFirst
        <5>4. QED BY <4>1, <5>3, OrderedTake DEF TakeFirst
      <4>2. CASE DrainMore(k)
        BY <4>2, OrderedTake DEF DrainMore
      <4>3. CASE DrainCancelled(k)
        BY <4>3, OrderedDrop DEF DrainCancelled
      <4>4. CASE FinishTurn(k) \/ FinishLatestTurn(k)
        BY <4>4, OrderedHear DEF FinishTurn, FinishLatestTurn
      <4>5. CASE CatchUpTake(k)
        BY <4>5, OrderedCatchUp
      <4>6. QED BY <1>5, <2>2, <4>1, <4>2, <4>3, <4>4, <4>5 DEF Worker
    <3>4. QED BY <3>2, <3>3
  <2>3. QED BY <2>1, <2>2
<1>6. QED BY <1>1, <1>2, <1>3, <1>4, <1>5 DEF Next, Dispatch

(* A worker holds a batch exactly while it is about to give it a turn. *)
LEMMA HoldsBatchStep ==
  ASSUME IInv, Next, NEW m \in Session
  PROVE  HoldsBatch(m)'
<1> USE DEF IInv, HoldsBatch
<1>1. CASE UNCHANGED <<worker, batch>>
  BY <1>1
<1>2. ASSUME NEW k \in Session, Worker(k)
      PROVE  HoldsBatch(m)'
  <2>1. CASE k = m
    <3>1. worker \in [Session -> {"select", "drain", "turn", "catchUp", "catchUpDrain",
                                 "latestTurn", "done"}]
          /\ batch[k] \in Seq(Event) /\ channels[k] \in Seq(Event)
          /\ batch \in [Session -> Seq(Event)]
      BY DEF TypeOK
    <3>2. CASE TakeFirst(k)
      <4>1. batch'[k] = <<Head(channels[k])>> /\ worker'[k] = "drain"
        BY <3>1, <3>2 DEF TakeFirst
      <4>2. QED BY <4>1, <2>1
    <3>3. CASE DrainMore(k)
      <4>1. batch'[k] = Append(batch[k], Head(channels[k])) /\ worker' = worker
            /\ worker[k] \in {"drain", "catchUpDrain"}
            /\ Head(channels[k]) \in Event
        BY <3>1, <3>3 DEF DrainMore
      <4>2. batch'[k] # <<>>
        BY <3>1, <4>1, AppendNotEmpty
      <4>3. worker'[m] \in {"drain", "catchUpDrain"} /\ batch'[m] # <<>>
        BY <4>1, <4>2, <2>1
      <4>4. QED BY <4>3
    <3>4. CASE CatchUpTake(k)
      <4>1. batch'[k] = <<Head(channels[k])>> /\ worker'[k] \in {"catchUpDrain", "catchUp"}
        BY <3>1, <3>4 DEF CatchUpTake
      <4>2. QED BY <4>1, <2>1
    <3>5. CASE DrainEnd(k) \/ CatchUpDone(k) \/ WorkerStop(k)
      BY <2>1, <3>1, <3>5 DEF DrainEnd, CatchUpDone, WorkerStop
    <3>6. CASE DrainCancelled(k) \/ FinishTurn(k) \/ FinishLatestTurn(k)
      BY <2>1, <3>1, <3>6 DEF DrainCancelled, FinishTurn, FinishLatestTurn
    <3>7. QED BY <1>2, <3>2, <3>3, <3>4, <3>5, <3>6 DEF Worker
  <2>2. CASE k # m
    <3>1. worker'[m] = worker[m] /\ batch'[m] = batch[m]
      BY <1>2, <2>2 DEF TypeOK, Worker, TakeFirst, DrainMore, DrainEnd, DrainCancelled,
                        FinishTurn, CatchUpTake, CatchUpDone, FinishLatestTurn, WorkerStop
    <3>2. QED BY <3>1
  <2>3. QED BY <2>1, <2>2
<1>3. QED
  BY <1>1, <1>2 DEF Next, Dispatch, Publish, Cancel, DispatchReceive, DispatchSend,
                    DispatchStop, DispatchReturn

(* A message ingested without a turn stays superseded, or about to be. *)
LEMMA SupersededStep ==
  ASSUME IInv, Next, NEW m \in Session
  PROVE  Superseded(m)'
<1> USE DEF IInv
<1>1. CASE UNCHANGED <<batch, heard, stale>> /\ (cancelled => cancelled')
  BY <1>1 DEF Superseded
<1>2. ASSUME NEW k \in Session, Worker(k)
      PROVE  Superseded(m)'
  <2>1. CASE k # m
    <3>1. /\ batch'[m] = batch[m] /\ heard'[m] = heard[m] /\ stale'[m] = stale[m]
          /\ cancelled' = cancelled
      <4>1. CASE TakeFirst(k) \/ DrainMore(k) \/ DrainEnd(k) \/ DrainCancelled(k)
        BY <2>1, <4>1 DEF TakeFirst, DrainMore, DrainEnd, DrainCancelled, TypeOK
      <4>2. CASE FinishTurn(k) \/ FinishLatestTurn(k)
        BY <2>1, <4>2 DEF FinishTurn, FinishLatestTurn, Hear, TypeOK
      <4>3. CASE CatchUpTake(k)
        BY <2>1, <4>3 DEF CatchUpTake, Hear, TypeOK
      <4>4. CASE CatchUpDone(k) \/ WorkerStop(k)
        BY <4>4 DEF CatchUpDone, WorkerStop
      <4>5. QED BY <1>2, <4>1, <4>2, <4>3, <4>4 DEF Worker
    <3>2. QED BY <3>1 DEF Superseded
  <2>2. CASE k = m
    <3>1. CASE TakeFirst(k) \/ DrainMore(k) \/ CatchUpTake(k)
      <4>1. HoldsBatch(m)'
        BY HoldsBatchStep
      <4>2. CASE TakeFirst(k) \/ DrainMore(k)
        <5>1. worker'[m] \in {"drain", "catchUpDrain"}
          BY <2>2, <4>2 DEF TakeFirst, DrainMore, TypeOK
        <5>2. QED BY <4>1, <5>1 DEF HoldsBatch, Superseded
      <4>3. CASE CatchUpTake(k)
        <5>1. batch'[m] = <<Head(channels[m])>>
          BY <2>2, <4>3 DEF CatchUpTake, TypeOK
        <5>2. batch'[m] # <<>>
          BY <5>1
        <5>3. QED BY <5>2 DEF Superseded
      <4>4. QED BY <3>1, <4>2, <4>3
    <3>2. CASE DrainCancelled(k)
      BY <3>2 DEF DrainCancelled, Superseded
    <3>3. CASE DrainEnd(k) \/ CatchUpDone(k) \/ WorkerStop(k)
      BY <1>1, <3>3 DEF DrainEnd, CatchUpDone, WorkerStop
    <3>4. CASE FinishTurn(k) \/ FinishLatestTurn(k)
      <4>1. /\ heard'[m] = heard[m] \o batch[m] /\ stale' = stale
            /\ heard[m] \in Seq(Event) /\ batch[m] \in Seq(Event)
        BY <2>2, <3>4 DEF FinishTurn, FinishLatestTurn, Hear, TypeOK
      <4>2. batch[m] # <<>>
        BY <2>2, <3>4 DEF FinishTurn, FinishLatestTurn, HoldsBatch
      <4>3. Range(heard'[m]) = Range(heard[m]) \cup Range(batch[m])
        BY <4>1, RangeOfConcat
      <4>4. PICK f \in Range(batch[m]) : f = Head(batch[m])
        BY <4>1, <4>2, RangeOfTail
      <4>5. \A e \in Range(batch[m]) : e.id \in Nat /\ e.id \notin stale[m]
        <5>1. \A e \in Range(batch[m]) : e.id \in Nat
          BY ElementIds, EventId
        <5>2. \A e \in Range(batch[m]) : \A n \in stale[m] : n < e.id
          BY DEF KeyOrdered, Ahead
        <5>3. QED BY <5>1, <5>2
      <4>6. \A e \in Range(heard[m]) : e.id \in Nat /\ f.id > e.id
        <5>1. \A e \in Range(heard[m]) : e.id \in Nat
          BY ElementIds, EventId
        <5>2. \A e \in Range(heard[m]) : e.id < f.id
          BY <4>4 DEF KeyOrdered, Before
        <5>3. QED BY <5>1, <5>2, <4>5
      <4>7. QED BY <4>1, <4>3, <4>5, <4>6 DEF Superseded
    <3>5. QED BY <1>2, <3>1, <3>2, <3>3, <3>4 DEF Worker
  <2>3. QED BY <2>1, <2>2
<1>3. CASE ~ \E k \in Session : Worker(k)
  <2>1. \/ \E s \in Source, v \in BOOLEAN : Publish(s, v)
        \/ Cancel \/ DispatchReceive \/ DispatchSend \/ DispatchStop \/ DispatchReturn
    BY <1>3 DEF Next, Dispatch
  <2>2. UNCHANGED <<batch, heard, stale>>
    BY <2>1 DEF Publish, Cancel, DispatchReceive, DispatchSend, DispatchStop,
                DispatchReturn
  <2>3. CASE Cancel
    BY <2>2, <2>3, <1>1 DEF Cancel
  <2>4. CASE ~Cancel
    <3>1. UNCHANGED cancelled
      BY <2>1, <2>4 DEF Publish, DispatchReceive, DispatchSend, DispatchStop,
                        DispatchReturn
    <3>2. QED BY <1>1, <2>2, <3>1
  <2>5. QED BY <2>3, <2>4
<1>4. QED BY <1>2, <1>3

LEMMA Invariant == Spec => []IInv
<1>1. Init => IInv
  BY TypeInit, OrderedInit DEF IInv
<1>2. IInv /\ [Next]_vars => IInv'
  <2> SUFFICES ASSUME IInv, [Next]_vars PROVE IInv'
    OBVIOUS
  <2>1. CASE Next
    BY <2>1, TypeStep, OrderedStep, HoldsBatchStep, SupersededStep DEF IInv
  <2>2. CASE UNCHANGED vars
    <3>1. TypeOK'
      BY <2>2, TypeStep DEF IInv
    <3>2. BusOrdered' /\ \A k \in Session : KeyOrdered(k)'
      BY <2>2, OrderedUnchanged DEF IInv, vars
    <3>3. \A k \in Session : HoldsBatch(k)' /\ Superseded(k)'
      BY <2>2 DEF IInv, vars, HoldsBatch, Superseded
    <3>4. QED BY <3>1, <3>2, <3>3 DEF IInv
  <2>3. QED BY <2>1, <2>2
<1>3. QED BY <1>1, <1>2, PTL DEF Spec

(* Every conversation hears its events in publication order, each once. *)
THEOREM HeardInOrder == Spec => []InOrder
<1>1. IInv => InOrder
  BY DEF IInv, KeyOrdered, Sorted, InOrder
<1>2. QED BY <1>1, Invariant, PTL

(* Unless shutdown comes, a message ingested without a turn has a newer one *)
(* of its conversation that got a turn, or that the worker holds for one.   *)
THEOREM StaleIsSuperseded == Spec => []StaleSuperseded
<1>1. IInv => StaleSuperseded
  BY DEF IInv, Superseded, StaleSuperseded
<1>2. QED BY <1>1, Invariant, PTL
-----------------------------------------------------------------------------
(* The refinement.  Whatever queue an event is in, it is pending; it stops   *)
(* being pending when the batch of its worker is heard or dropped, and then  *)
(* that batch is the oldest of its key.                                     *)
LEMMA Pending ==
  ASSUME NEW e
  PROVE  e \in InFlight <=>
           \/ e \in Range(bus) \cup Range(hand)
           \/ \E k \in Session : e \in Range(channels[k]) \cup Range(batch[k])
  BY DEF InFlight

LEMMA PendingAfter ==
  ASSUME NEW e
  PROVE  e \in InFlight' <=>
           \/ e \in Range(bus)' \cup Range(hand)'
           \/ \E k \in Session : e \in Range(channels'[k]) \cup Range(batch'[k])
  BY DEF InFlight

(* An event of a batch is in no other queue. *)
LEMMA OnlyInBatch ==
  ASSUME IInv, NEW k \in Session, NEW e \in Range(batch[k])
  PROVE  /\ e \notin Range(bus) \cup Range(hand) \cup Range(channels[k])
         /\ \A j \in Session \ {k} : e \notin Range(channels[j]) \cup Range(batch[j])
<1>1. e \in Path(k) /\ e.id \in Nat /\ KeyOf(e) = k
  BY ElementIds, EventId DEF IInv, KeyOrdered, Path
<1>2. \A f \in Range(bus) \cup Range(hand) \cup Range(channels[k]) : e.id < f.id
  BY <1>1 DEF IInv, KeyOrdered, Before
<1>3. \A j \in Session : \A f \in Range(channels[j]) \cup Range(batch[j]) : KeyOf(f) = j
  BY DEF IInv, KeyOrdered, Path
<1>4. QED BY <1>1, <1>2, <1>3

(* The events of a batch may be delivered next. *)
LEMMA BatchIsOldest ==
  ASSUME IInv, NEW k \in Session, batch[k] # <<>>
  PROVE  /\ Range(batch[k]) \in SUBSET InFlight
         /\ Abstract!OldestOf(k, Range(batch[k]))
<1>1. Range(batch[k]) \in SUBSET InFlight
  BY Pending
<1>2. Range(batch[k]) # {}
  <2>1. batch[k] \in Seq(Event)
    BY DEF IInv, TypeOK
  <2>2. Range(batch[k]) = {Head(batch[k])} \cup Range(Tail(batch[k]))
    BY <2>1, RangeOfTail
  <2>3. QED BY <2>2
<1>3. \A e \in Range(batch[k]) : KeyOf(e) = k
  BY DEF IInv, KeyOrdered, Path
<1>4. ASSUME NEW e \in Range(batch[k]), NEW f \in InFlight \ Range(batch[k]), KeyOf(f) = k
      PROVE  e.id < f.id
  <2>1. CASE f \in Range(bus) \cup Range(hand)
    BY <2>1 DEF IInv, KeyOrdered, Path
  <2>2. CASE \E j \in Session : f \in Range(channels[j]) \cup Range(batch[j])
    <3>1. f \in Range(channels[k])
      BY <1>4, <2>2 DEF IInv, KeyOrdered, Path
    <3>2. QED BY <3>1 DEF IInv, KeyOrdered, Before
  <2>3. QED BY <1>4, <2>1, <2>2, Pending
<1>5. QED BY <1>1, <1>2, <1>3, <1>4 DEF Abstract!OldestOf

(* What is pending afterwards: the batch of k is replaced by the first       *)
(* events of its channel.                                                  *)
LEMMA BatchLeaves ==
  ASSUME IInv, NEW k \in Session, UNCHANGED <<bus, hand>>,
         \A j \in Session \ {k} : channels'[j] = channels[j] /\ batch'[j] = batch[j],
         Range(batch'[k]) \cup Range(channels'[k]) = Range(channels[k])
  PROVE  InFlight' = InFlight \ Range(batch[k])
<1>1. ASSUME NEW e PROVE e \in InFlight' <=> e \in InFlight \ Range(batch[k])
  <2>1. CASE e \in Range(batch[k])
    <3>1. e \notin Range(bus)' \cup Range(hand)'
      BY <2>1, OnlyInBatch
    <3>2. \A j \in Session : e \notin Range(channels'[j]) \cup Range(batch'[j])
      BY <2>1, OnlyInBatch
    <3>3. QED BY <2>1, <3>1, <3>2, PendingAfter
  <2>2. CASE e \notin Range(batch[k])
    <3>1. \A j \in Session : e \in Range(channels'[j]) \cup Range(batch'[j])
                               <=> e \in Range(channels[j]) \cup Range(batch[j])
      BY <2>2
    <3>2. QED BY <2>2, <3>1, Pending, PendingAfter
  <2>3. QED BY <2>1, <2>2
<1>2. QED BY <1>1

DeliveredTo == [k \in Session |-> Range(heard[k])]

LEMMA HeardBatch ==
  ASSUME IInv, NEW k \in Session, Hear(k)
  PROVE  DeliveredTo' = [DeliveredTo EXCEPT ![k] = @ \cup Range(batch[k])]
<1>1. /\ heard[k] \in Seq(Event) /\ batch[k] \in Seq(Event)
      /\ heard'[k] = heard[k] \o batch[k]
      /\ \A j \in Session \ {k} : heard'[j] = heard[j]
  BY DEF IInv, TypeOK, Hear
<1>2. Range(heard'[k]) = Range(heard[k]) \cup Range(batch[k])
  BY <1>1, RangeOfConcat
<1>3. QED BY <1>1, <1>2 DEF DeliveredTo

(* A batch that is heard is delivered, or there was none. *)
LEMMA HearDelivers ==
  ASSUME IInv, NEW k \in Session, Hear(k), UNCHANGED <<published, cancelled>>,
         InFlight' = InFlight \ Range(batch[k])
  PROVE  [Abstract!Next]_Abstract!vars
<1>1. CASE batch[k] = <<>>
  <2>1. Range(batch[k]) = {}
    BY <1>1, RangeOfEmpty
  <2>2. InFlight' = InFlight
    BY <2>1
  <2>3. DeliveredTo' = DeliveredTo
    BY <2>1, HeardBatch DEF DeliveredTo
  <2>4. QED BY <2>2, <2>3 DEF Abstract!vars, DeliveredTo
<1>2. CASE batch[k] # <<>>
  <2>1. Abstract!Deliver(k, Range(batch[k]))
    BY <1>2, BatchIsOldest, HeardBatch DEF Abstract!Deliver, DeliveredTo
  <2>2. QED BY <1>2, <2>1, BatchIsOldest DEF Abstract!Next
<1>3. QED BY <1>1, <1>2

(* A batch that shutdown drops is discarded, or there was none. *)
LEMMA DropDiscards ==
  ASSUME IInv, NEW k \in Session, DrainCancelled(k)
  PROVE  [Abstract!Next]_Abstract!vars
<1>1. /\ cancelled /\ UNCHANGED <<published, bus, hand, channels, heard, cancelled>>
      /\ batch'[k] = <<>> /\ \A j \in Session \ {k} : batch'[j] = batch[j]
  BY DEF DrainCancelled, IInv, TypeOK
<1>2. Range(batch'[k]) = {}
  BY <1>1, RangeOfEmpty
<1>3. InFlight' = InFlight \ Range(batch[k])
  BY <1>1, <1>2, BatchLeaves
<1>4. CASE batch[k] = <<>>
  <2>1. Range(batch[k]) = {}
    BY <1>4, RangeOfEmpty
  <2>2. InFlight' = InFlight
    BY <1>3, <2>1
  <2>3. QED BY <1>1, <2>2 DEF Abstract!vars
<1>5. CASE batch[k] # <<>>
  <2>1. Abstract!Discard(k, Range(batch[k]))
    BY <1>1, <1>3, <1>5, BatchIsOldest DEF Abstract!Discard
  <2>2. QED BY <1>5, <2>1, BatchIsOldest DEF Abstract!Next
<1>6. QED BY <1>4, <1>5

(* An event is accepted when it is published. *)
LEMMA PublishAccepts ==
  ASSUME IInv, NEW s \in Source, NEW v \in BOOLEAN, Publish(s, v)
  PROVE  [Abstract!Next]_Abstract!vars
<1>1. PICK e \in Event : /\ e.id = published + 1 /\ bus' = Append(bus, e)
                         /\ published' = published + 1
                         /\ UNCHANGED <<hand, channels, batch, heard, cancelled>>
  BY DEF Publish
<1>2. Range(bus)' = Range(bus) \cup {e}
  BY <1>1, RangeOfAppend DEF IInv, TypeOK
<1>3. InFlight' = InFlight \cup {e}
  <2>1. ASSUME NEW x PROVE x \in InFlight' <=> x \in InFlight \cup {e}
    BY <1>1, <1>2, Pending, PendingAfter
  <2>2. QED BY <2>1
<1>4. Abstract!Accept(e)
  BY <1>1, <1>3 DEF Abstract!Accept
<1>5. QED BY <1>4 DEF Abstract!Next

(* The dispatcher only moves events. *)
LEMMA DispatchMoves ==
  ASSUME IInv, Dispatch
  PROVE  InFlight' = InFlight /\ UNCHANGED <<published, heard, cancelled>>
<1>1. CASE DispatchReceive
  <2>1. /\ bus # <<>> /\ bus \in Seq(Event) /\ hand \in Seq(Event) /\ Len(hand) = 0
        /\ bus' = Tail(bus) /\ hand' = <<Head(bus)>>
        /\ UNCHANGED <<published, channels, batch, heard, cancelled>>
    BY <1>1 DEF DispatchReceive, IInv, TypeOK
  <2>2. Range(hand) = {} /\ Range(hand)' = {Head(bus)}
    BY <2>1, RangeOfSingle DEF Range
  <2>3. Range(bus) = {Head(bus)} \cup Range(bus)'
    BY <2>1, RangeOfTail
  <2>4. ASSUME NEW x PROVE x \in InFlight' <=> x \in InFlight
    BY <2>1, <2>2, <2>3, Pending, PendingAfter
  <2>5. QED BY <2>1, <2>4
<1>2. CASE DispatchSend
  <2>1. hand \in Seq(Event) /\ Len(hand) = 1
    BY <1>2 DEF DispatchSend, IInv, TypeOK
  <2>2. PICK e \in Event : e = Head(hand) /\ Range(hand) = {e}
    BY <2>1 DEF Range
  <2>3. PICK m \in Session : m = KeyOf(e)
    BY KeyOfInSession
  <2>4. /\ hand' = <<>>
        /\ channels' = [channels EXCEPT ![m] = Append(@, e)]
        /\ UNCHANGED <<published, bus, batch, heard, cancelled>>
    BY <1>2, <2>2, <2>3 DEF DispatchSend
  <2>5. /\ channels[m] \in Seq(Event) /\ channels'[m] = Append(channels[m], e)
        /\ \A k \in Session : k # m => channels'[k] = channels[k]
    BY <2>4 DEF IInv, TypeOK
  <2>6. Range(channels'[m]) = Range(channels[m]) \cup {e}
    BY <2>5, RangeOfAppend
  <2>7. Range(hand)' = {}
    BY <2>4, RangeOfEmpty
  <2>8. ASSUME NEW x PROVE x \in InFlight' <=> x \in InFlight
    <3>1. (\E k \in Session : x \in Range(channels'[k]) \cup Range(batch'[k]))
            <=> x = e \/ \E k \in Session : x \in Range(channels[k]) \cup Range(batch[k])
      BY <2>4, <2>5, <2>6
    <3>2. x \in Range(bus)' \cup Range(hand)' <=> x \in Range(bus)
      BY <2>4, <2>7
    <3>3. QED BY <2>2, <3>1, <3>2, Pending, PendingAfter
  <2>9. QED BY <2>4, <2>8
<1>3. CASE DispatchStop \/ DispatchReturn
  BY <1>3 DEF DispatchStop, DispatchReturn, InFlight
<1>4. QED BY <1>1, <1>2, <1>3 DEF Dispatch

(* So does a worker that fills its batch. *)
LEMMA TakeMoves ==
  ASSUME IInv, NEW k \in Session, TakeFirst(k) \/ DrainMore(k)
  PROVE  InFlight' = InFlight /\ UNCHANGED <<published, heard, cancelled>>
<1>1. /\ channels[k] # <<>> /\ channels[k] \in Seq(Event) /\ batch[k] \in Seq(Event)
      /\ channels'[k] = Tail(channels[k])
      /\ \A j \in Session \ {k} : channels'[j] = channels[j] /\ batch'[j] = batch[j]
      /\ UNCHANGED <<published, bus, hand, heard, cancelled>>
  BY DEF TakeFirst, DrainMore, IInv, TypeOK
<1>2. Head(channels[k]) \in Event
      /\ Range(channels[k]) = {Head(channels[k])} \cup Range(channels'[k])
  BY <1>1, RangeOfTail
<1>3. Range(batch'[k]) = Range(batch[k]) \cup {Head(channels[k])}
  <2>1. CASE TakeFirst(k)
    <3>1. batch[k] = <<>> /\ batch'[k] = <<Head(channels[k])>>
      BY <2>1 DEF TakeFirst, IInv, TypeOK, HoldsBatch
    <3>2. QED BY <3>1, RangeOfEmpty, RangeOfSingle
  <2>2. CASE DrainMore(k)
    <3>1. batch'[k] = Append(batch[k], Head(channels[k]))
      BY <2>2 DEF DrainMore, IInv, TypeOK
    <3>2. QED BY <1>1, <1>2, <3>1, RangeOfAppend
  <2>3. QED BY <2>1, <2>2
<1>4. \A j \in Session : Range(channels'[j]) \cup Range(batch'[j])
                           = Range(channels[j]) \cup Range(batch[j])
  <2>1. Range(channels'[k]) \cup Range(batch'[k]) = Range(channels[k]) \cup Range(batch[k])
    BY <1>2, <1>3
  <2>2. QED BY <1>1, <2>1
<1>5. ASSUME NEW x PROVE x \in InFlight' <=> x \in InFlight
  BY <1>1, <1>4, Pending, PendingAfter
<1>6. QED BY <1>1, <1>5

LEMMA WorkerRefines ==
  ASSUME IInv, NEW k \in Session, Worker(k)
  PROVE  [Abstract!Next]_Abstract!vars
<1>1. CASE TakeFirst(k) \/ DrainMore(k)
  BY <1>1, TakeMoves DEF Abstract!vars
<1>2. CASE DrainEnd(k) \/ CatchUpDone(k) \/ WorkerStop(k)
  BY <1>2 DEF DrainEnd, CatchUpDone, WorkerStop, Abstract!vars, InFlight
<1>3. CASE DrainCancelled(k)
  BY <1>3, DropDiscards
<1>4. CASE FinishTurn(k) \/ FinishLatestTurn(k)
  <2>1. /\ Hear(k) /\ UNCHANGED <<published, bus, hand, channels, cancelled>>
        /\ batch'[k] = <<>> /\ \A j \in Session \ {k} : batch'[j] = batch[j]
    BY <1>4 DEF FinishTurn, FinishLatestTurn, IInv, TypeOK
  <2>2. InFlight' = InFlight \ Range(batch[k])
    BY <2>1, RangeOfEmpty, BatchLeaves
  <2>3. QED BY <2>1, <2>2, HearDelivers
<1>5. CASE CatchUpTake(k)
  <2>1. /\ Hear(k) /\ UNCHANGED <<published, bus, hand, cancelled>>
        /\ channels[k] # <<>> /\ channels[k] \in Seq(Event)
        /\ batch'[k] = <<Head(channels[k])>> /\ channels'[k] = Tail(channels[k])
        /\ \A j \in Session \ {k} : channels'[j] = channels[j] /\ batch'[j] = batch[j]
    BY <1>5 DEF CatchUpTake, IInv, TypeOK
  <2>2. Range(batch'[k]) \cup Range(channels'[k]) = Range(channels[k])
    BY <2>1, RangeOfTail, RangeOfSingle
  <2>3. InFlight' = InFlight \ Range(batch[k])
    BY <2>1, <2>2, BatchLeaves
  <2>4. QED BY <2>1, <2>3, HearDelivers
<1>6. QED BY <1>1, <1>2, <1>3, <1>4, <1>5 DEF Worker

LEMMA StepRefines == IInv /\ [Next]_vars => [Abstract!Next]_Abstract!vars
<1> SUFFICES ASSUME IInv, [Next]_vars PROVE [Abstract!Next]_Abstract!vars
OBVIOUS
<1>1. ASSUME NEW s \in Source, NEW v \in BOOLEAN, Publish(s, v)
      PROVE  [Abstract!Next]_Abstract!vars
  BY <1>1, PublishAccepts
<1>2. CASE Cancel
  <2>1. Abstract!Stop
    BY <1>2 DEF Cancel, Abstract!Stop, InFlight
  <2>2. QED BY <2>1 DEF Abstract!Next
<1>3. CASE Dispatch
  BY <1>3, DispatchMoves DEF Abstract!vars
<1>4. ASSUME NEW k \in Session, Worker(k) PROVE [Abstract!Next]_Abstract!vars
  BY <1>4, WorkerRefines
<1>5. CASE UNCHANGED vars
  BY <1>5 DEF vars, Abstract!vars, InFlight
<1>6. QED BY <1>1, <1>2, <1>3, <1>4, <1>5 DEF Next

(* From bus to conversation, the loop keeps the promise of OrderedDelivery:  *)
(* a conversation is given its oldest events, none left out, each once, and  *)
(* events are dropped only once shutdown was requested.                     *)
THEOREM ImplementsOrderedDelivery == Spec => DeliversInOrder
<1>1. Init => Abstract!Init
  <2> SUFFICES ASSUME Init PROVE Abstract!Init
    OBVIOUS
  <2>1. Range(<<>>) = {}
    BY RangeOfEmpty
  <2>2. \A e : e \notin InFlight
    BY <2>1, Pending DEF Init
  <2>3. QED BY <2>1, <2>2 DEF Init, Abstract!Init
<1>2. IInv /\ [Next]_vars => [Abstract!Next]_Abstract!vars
  BY StepRefines
<1>3. QED BY <1>1, <1>2, Invariant, PTL DEF Spec, DeliversInOrder, Abstract!Spec
-----------------------------------------------------------------------------
(* What is left to do: every event on its way counts for the steps it still  *)
(* makes the loop take, every goroutine for the states it can go through     *)
(* without one.                                                             *)
Rank(state) ==
  IF state = "drain" THEN 6 ELSE IF state = "turn" THEN 5
  ELSE IF state = "catchUpDrain" THEN 4 ELSE IF state = "catchUp" THEN 3
  ELSE IF state = "latestTurn" THEN 2 ELSE IF state = "select" THEN 1 ELSE 0
WorkerLeft(k) ==
  IF k \in Session THEN 6 * Len(channels[k]) + Rank(worker[k]) ELSE 0
WorkersLeft ==
  WorkerLeft("discord") + WorkerLeft("device") + WorkerLeft("web") + WorkerLeft("cli")
DispatchLeft ==
  9 * Len(bus) + 8 * Len(hand)
    + (IF loop \in {"select", "send"} THEN 2 ELSE IF loop = "wait" THEN 1 ELSE 0)
Backlog == DispatchLeft + WorkersLeft

BacklogShrinks == [][UNCHANGED <<published, cancelled>> => Backlog' < Backlog]_vars

(* Who can go on: the guards of the actions. *)
DispatchCan ==
  \/ loop = "select" /\ (bus # <<>> \/ cancelled)
  \/ loop = "send" /\ Room(KeyOf(Head(hand)))
  \/ loop = "wait" /\ \A k \in Session : worker[k] = "done"
WorkerCan(k) ==
  /\ worker[k] # "done"
  /\ worker[k] = "select" => channels[k] # <<>> \/ cancelled
Quiet == ~DispatchCan /\ \A k \in Session : ~WorkerCan(k)

QuietMeansHeard == Quiet /\ ~cancelled => \A n \in 1..published : Heard(n)
QuietMeansOver ==
  Quiet /\ cancelled =>
    /\ \A k \in Session : worker[k] = "done"
    /\ \/ loop = "returned"
       \/ loop = "send" /\ ~Room(KeyOf(Head(hand)))

LEMMA RankRange == \A state : Rank(state) \in 0..6
BY DEF Rank

(* The steps of one worker. *)
LEMMA WorkerLeftNat ==
  ASSUME TypeOK, NEW k
  PROVE  WorkerLeft(k) \in Nat
<1>1. CASE k \in Session
  <2>1. Len(channels[k]) \in Nat
    <3>1. channels[k] \in Seq(Event) BY <1>1 DEF TypeOK
    <3>2. QED BY <3>1
  <2>2. Rank(worker[k]) \in Nat BY RankRange
  <2>3. QED BY <1>1, <2>1, <2>2 DEF WorkerLeft
<1>2. CASE k \notin Session BY <1>2 DEF WorkerLeft
<1>3. QED BY <1>1, <1>2

LEMMA LeftNat ==
  TypeOK => /\ WorkersLeft \in Nat /\ DispatchLeft \in Nat
            /\ WorkerLeft("discord") \in Nat /\ WorkerLeft("device") \in Nat
            /\ WorkerLeft("web") \in Nat /\ WorkerLeft("cli") \in Nat
<1> SUFFICES ASSUME TypeOK
             PROVE  /\ WorkersLeft \in Nat /\ DispatchLeft \in Nat
                    /\ WorkerLeft("discord") \in Nat /\ WorkerLeft("device") \in Nat
                    /\ WorkerLeft("web") \in Nat /\ WorkerLeft("cli") \in Nat
  OBVIOUS
<1>1. /\ WorkerLeft("discord") \in Nat /\ WorkerLeft("device") \in Nat
      /\ WorkerLeft("web") \in Nat /\ WorkerLeft("cli") \in Nat
  BY WorkerLeftNat
<1>2. Len(bus) \in Nat /\ Len(hand) \in Nat BY DEF TypeOK
<1>3. QED BY <1>1, <1>2 DEF WorkersLeft, DispatchLeft

LEMMA BacklogNat == TypeOK => Backlog \in Nat
BY LeftNat DEF Backlog

(* What one worker does counts for all of them. *)
LEMMA OneWorker ==
  ASSUME TypeOK, TypeOK', NEW k \in Session, NEW d \in Int,
         WorkerLeft(k)' = WorkerLeft(k) + d,
         \A j \in Session \ {k} : WorkerLeft(j)' = WorkerLeft(j)
  PROVE  WorkersLeft' = WorkersLeft + d
<1>1. /\ WorkerLeft("discord") \in Nat /\ WorkerLeft("device") \in Nat
      /\ WorkerLeft("web") \in Nat /\ WorkerLeft("cli") \in Nat
  BY LeftNat
<1>2. k \in {"discord", "device", "web", "cli"} BY SessionAssumption
<1>3. \A j : j # k => WorkerLeft(j)' = WorkerLeft(j)
  <2>1. SUFFICES ASSUME NEW j, j # k PROVE WorkerLeft(j)' = WorkerLeft(j) OBVIOUS
  <2>2. CASE j \in Session BY <2>1, <2>2
  <2>3. CASE j \notin Session BY <2>3 DEF WorkerLeft
  <2>4. QED BY <2>2, <2>3
<1>4. CASE k = "discord"
  BY <1>1, <1>3, <1>4 DEF WorkersLeft
<1>5. CASE k = "device"
  BY <1>1, <1>3, <1>5 DEF WorkersLeft
<1>6. CASE k = "web"
  BY <1>1, <1>3, <1>6 DEF WorkersLeft
<1>7. CASE k = "cli"
  BY <1>1, <1>3, <1>7 DEF WorkersLeft
<1>8. QED BY <1>2, <1>4, <1>5, <1>6, <1>7

LEMMA WorkersSame ==
  ASSUME UNCHANGED <<channels, worker>>
  PROVE  WorkersLeft' = WorkersLeft
BY DEF WorkersLeft, WorkerLeft

LEMMA ChannelReceive ==
  ASSUME TypeOK, NEW k \in Session, channels[k] # <<>>
  PROVE  Len(channels[k]) \in Nat /\ Len(Tail(channels[k])) = Len(channels[k]) - 1
<1>1. channels[k] \in Seq(Event) BY DEF TypeOK
<1>2. QED BY <1>1

LEMMA WorkerCosts ==
  ASSUME TypeOK, TypeOK', NEW k \in Session, Worker(k)
  PROVE  Backlog' < Backlog
<1>0. channels \in [Session -> Seq(Event)] /\ DOMAIN worker = Session /\ Len(channels[k]) \in Nat
  BY DEF TypeOK
<1>1. \E d \in Int : d < 0 /\ WorkerLeft(k)' = WorkerLeft(k) + d
  <2>1. CASE TakeFirst(k) \/ DrainMore(k) \/ CatchUpTake(k)
    <3>1. channels[k] # <<>> /\ channels'[k] = Tail(channels[k])
      BY <1>0, <2>1 DEF TakeFirst, DrainMore, CatchUpTake
    <3>2. Len(channels'[k]) = Len(channels[k]) - 1
      BY <3>1, ChannelReceive
    <3>3. CASE TakeFirst(k)
      <4>1. worker[k] = "select" /\ worker'[k] = "drain" BY <1>0, <3>3 DEF TakeFirst
      <4>2. WorkerLeft(k)' = WorkerLeft(k) + (-1) BY <1>0, <3>2, <4>1, RankRange DEF WorkerLeft, Rank
      <4>3. QED BY <4>2
    <3>4. CASE DrainMore(k)
      <4>1. worker'[k] = worker[k] BY <3>4 DEF DrainMore
      <4>2. WorkerLeft(k)' = WorkerLeft(k) + (-6) BY <1>0, <3>2, <4>1, RankRange DEF WorkerLeft
      <4>3. QED BY <4>2
    <3>5. CASE CatchUpTake(k)
      <4>1. worker[k] = "catchUp" /\ worker'[k] \in {"catchUpDrain", "catchUp"}
        BY <1>0, <3>5 DEF CatchUpTake
      <4>2. CASE worker'[k] = "catchUpDrain"
        <5>1. WorkerLeft(k)' = WorkerLeft(k) + (-5) BY <1>0, <3>2, <4>1, <4>2, RankRange DEF WorkerLeft, Rank
        <5>2. QED BY <5>1
      <4>3. CASE worker'[k] = "catchUp"
        <5>1. WorkerLeft(k)' = WorkerLeft(k) + (-6) BY <1>0, <3>2, <4>1, <4>3, RankRange DEF WorkerLeft
        <5>2. QED BY <5>1
      <4>4. QED BY <4>1, <4>2, <4>3
    <3>6. QED BY <2>1, <3>3, <3>4, <3>5
  <2>2. CASE ~(TakeFirst(k) \/ DrainMore(k) \/ CatchUpTake(k))
    <3>1. /\ channels' = channels
          /\ \/ worker[k] = "drain" /\ worker'[k] \in {"turn", "done"}
             \/ worker[k] = "catchUpDrain" /\ worker'[k] \in {"catchUp", "select"}
             \/ worker[k] = "turn" /\ worker'[k] \in {"select", "catchUp"}
             \/ worker[k] = "catchUp" /\ worker'[k] \in {"select", "latestTurn"}
             \/ worker[k] = "latestTurn" /\ worker'[k] = "select"
             \/ worker[k] = "select" /\ worker'[k] = "done"
      <4>1. CASE DrainEnd(k) BY <1>0, <4>1 DEF DrainEnd
      <4>2. CASE DrainCancelled(k) BY <1>0, <4>2 DEF DrainCancelled
      <4>3. CASE FinishTurn(k) BY <1>0, <4>3 DEF FinishTurn
      <4>4. CASE CatchUpDone(k) BY <1>0, <4>4 DEF CatchUpDone
      <4>5. CASE FinishLatestTurn(k) BY <1>0, <4>5 DEF FinishLatestTurn
      <4>6. CASE WorkerStop(k) BY <1>0, <4>6 DEF WorkerStop
      <4>7. QED BY <2>2, <4>1, <4>2, <4>3, <4>4, <4>5, <4>6 DEF Worker
    <3>2. Rank(worker'[k]) < Rank(worker[k])
      BY <3>1 DEF Rank
    <3>6. Rank(worker'[k]) \in Nat /\ Rank(worker[k]) \in Nat BY RankRange
    <3>7. WorkerLeft(k)' = 6 * Len(channels[k]) + Rank(worker'[k])
          /\ WorkerLeft(k) = 6 * Len(channels[k]) + Rank(worker[k])
      BY <3>1 DEF WorkerLeft
    <3>8. WorkerLeft(k)' < WorkerLeft(k)
      BY <1>0, <3>2, <3>6, <3>7
    <3>3. WorkerLeft(k)' \in Nat /\ WorkerLeft(k) \in Nat
      BY <1>0, <3>6, <3>7
    <3>4. /\ WorkerLeft(k)' - WorkerLeft(k) \in Int
          /\ WorkerLeft(k)' = WorkerLeft(k) + (WorkerLeft(k)' - WorkerLeft(k))
          /\ WorkerLeft(k)' - WorkerLeft(k) < 0
      BY <3>8, <3>3
    <3>5. QED BY <3>4
  <2>3. QED BY <2>1, <2>2
<1>2. PICK d \in Int : d < 0 /\ WorkerLeft(k)' = WorkerLeft(k) + d BY <1>1
<1>3. ASSUME NEW j \in Session \ {k} PROVE WorkerLeft(j)' = WorkerLeft(j)
  <2>1. channels'[j] = channels[j] /\ worker'[j] = worker[j]
    BY <1>0 DEF Worker, TakeFirst, DrainMore, DrainEnd, DrainCancelled, FinishTurn,
       CatchUpTake, CatchUpDone, FinishLatestTurn, WorkerStop
  <2>2. QED BY <2>1 DEF WorkerLeft
<1>4. WorkersLeft' = WorkersLeft + d BY <1>2, <1>3, OneWorker
<1>5. DispatchLeft' = DispatchLeft
  BY DEF Worker, TakeFirst, DrainMore, DrainEnd, DrainCancelled, FinishTurn,
     CatchUpTake, CatchUpDone, FinishLatestTurn, WorkerStop, DispatchLeft
<1>6. QED BY <1>2, <1>4, <1>5, LeftNat DEF Backlog

LEMMA DispatchCosts ==
  ASSUME TypeOK, TypeOK', Dispatch
  PROVE  Backlog' < Backlog
<1>0. Len(bus) \in Nat /\ Len(hand) \in Nat /\ WorkersLeft \in Nat /\ bus \in Seq(Event)
  BY LeftNat DEF TypeOK
<1>1. CASE DispatchReceive
  <2>1. bus # <<>> /\ bus' = Tail(bus) /\ hand' = <<Head(bus)>>
        /\ loop = "select" /\ loop' = "send" /\ UNCHANGED <<channels, worker>>
    BY <1>1 DEF DispatchReceive
  <2>2. Len(bus') = Len(bus) - 1 /\ Len(hand') = 1 BY <1>0, <2>1
  <2>3. Len(hand) = 0 BY <2>1 DEF TypeOK
  <2>4. DispatchLeft' = DispatchLeft - 1 BY <1>0, <2>1, <2>2, <2>3 DEF DispatchLeft
  <2>5. QED BY <2>1, <2>4, WorkersSame, LeftNat DEF Backlog
<1>2. CASE DispatchSend
  <2>1. hand \in Seq(Event) /\ Len(hand) = 1 BY <1>2 DEF DispatchSend, TypeOK
  <2>2. Head(hand) \in Event BY <2>1
  <2>3. PICK k \in Session : k = KeyOf(Head(hand)) BY <2>2, KeyOfInSession
  <2>4. /\ channels' = [channels EXCEPT ![k] = Append(@, Head(hand))]
        /\ hand' = <<>> /\ loop = "send" /\ loop' = "select" /\ UNCHANGED <<bus, worker>>
    BY <1>2, <2>3 DEF DispatchSend
  <2>5. /\ channels \in [Session -> Seq(Event)]
        /\ channels'[k] = Append(channels[k], Head(hand))
        /\ \A j \in Session \ {k} : channels'[j] = channels[j]
    BY <2>4 DEF TypeOK
  <2>6. Len(channels[k]) \in Nat /\ Len(channels'[k]) = Len(channels[k]) + 1
    BY <2>2, <2>5
  <2>7. WorkerLeft(k)' = WorkerLeft(k) + 6
    <3>1. Rank(worker[k]) \in Nat BY RankRange
    <3>2. WorkerLeft(k)' = 6 * Len(channels'[k]) + Rank(worker[k])
          /\ WorkerLeft(k) = 6 * Len(channels[k]) + Rank(worker[k])
      BY <2>4 DEF WorkerLeft
    <3>3. QED BY <2>6, <3>1, <3>2
  <2>8. \A j \in Session \ {k} : WorkerLeft(j)' = WorkerLeft(j)
    BY <2>4, <2>5 DEF WorkerLeft
  <2>9. WorkersLeft' = WorkersLeft + 6 BY <2>7, <2>8, OneWorker
  <2>10. Len(hand') = 0 BY <2>4
  <2>11. DispatchLeft' = DispatchLeft - 8 BY <1>0, <2>1, <2>4, <2>10 DEF DispatchLeft
  <2>12. QED BY <2>9, <2>11, LeftNat DEF Backlog
<1>3. CASE DispatchStop \/ DispatchReturn
  <2>1. /\ UNCHANGED <<bus, hand, channels, worker>>
        /\ \/ loop = "select" /\ loop' = "wait"
           \/ loop = "wait" /\ loop' = "returned"
    BY <1>3 DEF DispatchStop, DispatchReturn
  <2>2. DispatchLeft' = DispatchLeft - 1 BY <1>0, <2>1 DEF DispatchLeft
  <2>3. QED BY <2>1, <2>2, WorkersSame, LeftNat DEF Backlog
<1>4. QED BY <1>1, <1>2, <1>3 DEF Dispatch

(* Every step of the loop makes what is left to do smaller: between two       *)
(* events it comes to rest, the restarting drain window and the catch-up     *)
(* pass go round only as long as events arrive.                             *)
THEOREM LoopRunsOut == Spec => BacklogShrinks
<1>1. TypeOK /\ TypeOK' /\ [Next]_vars
        => [UNCHANGED <<published, cancelled>> => Backlog' < Backlog]_vars
  <2>1. SUFFICES ASSUME TypeOK, TypeOK', Next, UNCHANGED <<published, cancelled>>
                 PROVE  Backlog' < Backlog
    OBVIOUS
  <2>2. published \in Nat BY <2>1, BoundAssumption DEF TypeOK
  <2>3. ~Cancel /\ \A s \in Source, v \in BOOLEAN : ~Publish(s, v)
    BY <2>1, <2>2 DEF Cancel, Publish
  <2>4. QED BY <2>1, <2>3, DispatchCosts, WorkerCosts DEF Next
<1>2. QED BY <1>1, TypeCorrect, PTL DEF Spec, BacklogShrinks

(* An event costs the loop at most nine steps more. *)
THEOREM BacklogBounded == Spec => [](Backlog \in 0..(9 * published + 6))
<1> DEFINE Bounded == Backlog \in 0..(9 * published + 6)
<1>1. Init => Bounded
  <2>1. SUFFICES ASSUME Init PROVE Bounded OBVIOUS
  <2>2. ASSUME NEW k PROVE WorkerLeft(k) \in {0, 1}
    <3>1. CASE k \in Session
      <4>1. channels[k] = <<>> /\ worker[k] = "select" BY <2>1, <3>1 DEF Init
      <4>2. Rank(worker[k]) = 1 BY <4>1 DEF Rank
      <4>3. Len(channels[k]) = 0 BY <4>1
      <4>4. QED BY <3>1, <4>2, <4>3 DEF WorkerLeft
    <3>2. QED BY <3>1 DEF WorkerLeft
  <2>3. WorkersLeft \in 0..4 BY <2>2 DEF WorkersLeft
  <2>4. DispatchLeft = 2 BY <2>1 DEF Init, DispatchLeft
  <2>5. published = 0 BY <2>1 DEF Init
  <2>6. QED BY <2>3, <2>4, <2>5 DEF Backlog
<1>2. TypeOK /\ TypeOK' /\ Bounded /\ [Next]_vars => Bounded'
  <2>1. SUFFICES ASSUME TypeOK, TypeOK', Bounded, [Next]_vars PROVE Bounded' OBVIOUS
  <2>2. (Backlog \in Nat)' BY <2>1, BacklogNat, PTL
  <2>3. Backlog' \in Nat BY <2>2
  <2>4. published \in Nat BY <2>1, BoundAssumption DEF TypeOK
  <2>5. CASE Dispatch \/ \E k \in Session : Worker(k)
    <3>1. Backlog' < Backlog BY <2>1, <2>5, DispatchCosts, WorkerCosts
    <3>2. published' = published
      BY <2>5 DEF Dispatch, DispatchReceive, DispatchSend, DispatchStop, DispatchReturn,
         Worker, TakeFirst, DrainMore, DrainEnd, DrainCancelled, FinishTurn,
         CatchUpTake, CatchUpDone, FinishLatestTurn, WorkerStop
    <3>3. QED BY <2>1, <2>3, <2>4, <3>1, <3>2
  <2>6. ASSUME NEW s \in Source, NEW v \in BOOLEAN, Publish(s, v) PROVE Bounded'
    <3>1. /\ \E e \in Event : bus' = Append(bus, e)
          /\ published' = published + 1 /\ UNCHANGED <<hand, loop, channels, worker>>
      BY <2>6 DEF Publish
    <3>2. Len(bus') = Len(bus) + 1 /\ Len(bus) \in Nat /\ Len(hand) \in Nat
      BY <2>1, <3>1 DEF TypeOK
    <3>3. DispatchLeft' = DispatchLeft + 9 BY <3>1, <3>2 DEF DispatchLeft
    <3>4. WorkersLeft' = WorkersLeft BY <3>1, WorkersSame
    <3>5. Backlog' = Backlog + 9 BY <2>1, <3>3, <3>4, LeftNat DEF Backlog
    <3>6. QED BY <2>1, <2>3, <2>4, <3>1, <3>5
  <2>7. CASE Cancel \/ UNCHANGED vars
    <3>1. UNCHANGED <<published, bus, hand, loop, channels, worker>>
      BY <2>7 DEF Cancel, vars
    <3>2. Backlog' = Backlog BY <3>1, WorkersSame DEF Backlog, DispatchLeft
    <3>3. QED BY <2>1, <3>1, <3>2
  <2>8. QED BY <2>1, <2>5, <2>6, <2>7 DEF Next
<1>3. QED BY <1>1, <1>2, TypeCorrect, PTL DEF Spec
-----------------------------------------------------------------------------
(* Nothing is lost: until shutdown every event is on its way or heard.  It is *)
(* so for OrderedDelivery, and so for whatever implements it.               *)
Accounted ==
  ~cancelled => \A n \in 1..published : Heard(n) \/ \E e \in InFlight : e.id = n

LEMMA AccountedStep ==
  ASSUME TypeOK, Accounted, [Abstract!Next]_Abstract!vars
  PROVE  Accounted'
<1> DEFINE Got == UNION {DeliveredTo[k] : k \in Session}
<1>0. published \in Nat BY BoundAssumption DEF TypeOK
<1>1. /\ \A n : Heard(n) <=> \E k \in Session : \E e \in DeliveredTo[k] : e.id = n
      /\ \A n : Heard(n)' <=> \E k \in Session : \E e \in DeliveredTo'[k] : e.id = n
  BY DEF Heard, DeliveredTo
<1>2. ASSUME NEW e \in Event, Abstract!Accept(e) PROVE Accounted'
  <2>1. /\ e.id = published + 1 /\ published' = published + 1
        /\ InFlight' = InFlight \cup {e} /\ DeliveredTo' = DeliveredTo /\ cancelled' = cancelled
    BY <1>2 DEF Abstract!Accept, DeliveredTo
  <2>2. \A n \in 1..published' : n \in 1..published \/ n = e.id BY <1>0, <2>1
  <2>3. QED BY <1>1, <2>1, <2>2 DEF Accounted
<1>3. ASSUME NEW k \in Session, NEW B \in SUBSET InFlight, Abstract!Deliver(k, B) PROVE Accounted'
  <2>1. /\ published' = published /\ cancelled' = cancelled
        /\ InFlight' = InFlight \ B
        /\ DeliveredTo' = [DeliveredTo EXCEPT ![k] = @ \cup B]
    BY <1>3 DEF Abstract!Deliver, DeliveredTo
  <2>2. /\ DeliveredTo'[k] = DeliveredTo[k] \cup B
        /\ \A j \in Session \ {k} : DeliveredTo'[j] = DeliveredTo[j]
    BY <2>1 DEF DeliveredTo
  <2>3. ASSUME NEW n, Heard(n) PROVE Heard(n)'
    BY <1>1, <2>2, <2>3
  <2>4. ASSUME NEW e \in InFlight PROVE e \in InFlight' \/ Heard(e.id)'
    BY <1>1, <2>1, <2>2
  <2>5. QED BY <2>1, <2>3, <2>4 DEF Accounted
<1>4. CASE Abstract!Stop
  BY <1>4 DEF Abstract!Stop, Accounted
<1>5. ASSUME NEW k \in Session, NEW B \in SUBSET InFlight, Abstract!Discard(k, B) PROVE Accounted'
  BY <1>5 DEF Abstract!Discard, Accounted
<1>6. CASE UNCHANGED Abstract!vars
  <2>1. /\ published' = published /\ cancelled' = cancelled /\ InFlight' = InFlight
        /\ DeliveredTo' = DeliveredTo
    BY <1>6 DEF Abstract!vars, DeliveredTo
  <2>2. QED BY <1>1, <2>1 DEF Accounted
<1>7. QED BY <1>2, <1>3, <1>4, <1>5, <1>6 DEF Abstract!Next

(* Only shutdown ends a worker or the loop. *)
EndsOnShutdown ==
  /\ loop \in {"wait", "returned"} => cancelled
  /\ \A k \in Session : worker[k] = "done" => cancelled

LEMMA EndsOnShutdownStep == TypeOK /\ EndsOnShutdown /\ [Next]_vars => EndsOnShutdown'
<1> SUFFICES ASSUME TypeOK, EndsOnShutdown, [Next]_vars PROVE EndsOnShutdown'
  OBVIOUS
<1>1. ASSUME NEW k \in Session, Worker(k) PROVE EndsOnShutdown'
  <2>1. UNCHANGED <<loop, cancelled>> /\ (worker'[k] = "done" => cancelled)
        /\ \A j \in Session \ {k} : worker'[j] = worker[j]
    BY <1>1 DEF TypeOK, Worker, TakeFirst, DrainMore, DrainEnd, DrainCancelled, FinishTurn,
       CatchUpTake, CatchUpDone, FinishLatestTurn, WorkerStop, EndsOnShutdown
  <2>2. QED BY <2>1 DEF EndsOnShutdown
<1>2. CASE Dispatch
  BY <1>2 DEF Dispatch, DispatchReceive, DispatchSend, DispatchStop, DispatchReturn, EndsOnShutdown
<1>3. ASSUME NEW s \in Source, NEW v \in BOOLEAN, Publish(s, v) PROVE EndsOnShutdown'
  BY <1>3 DEF Publish, EndsOnShutdown
<1>4. CASE Cancel \/ UNCHANGED vars
  BY <1>4 DEF Cancel, vars, EndsOnShutdown
<1>5. QED BY <1>1, <1>2, <1>3, <1>4 DEF Next

LEMMA RestInvariant == Spec => [](IInv /\ Accounted /\ EndsOnShutdown)
<1>1. Init => IInv /\ Accounted /\ EndsOnShutdown
  <2>1. Init => IInv BY TypeInit, OrderedInit DEF IInv
  <2>2. Init => Accounted /\ EndsOnShutdown BY DEF Init, Accounted, EndsOnShutdown
  <2>3. QED BY <2>1, <2>2
<1>2. IInv => TypeOK BY DEF IInv
<1>3. IInv /\ Accounted /\ EndsOnShutdown /\ [Next]_vars => (Accounted /\ EndsOnShutdown)'
  BY <1>2, StepRefines, AccountedStep, EndsOnShutdownStep
<1>4. QED BY <1>1, <1>3, Invariant, PTL DEF Spec

(* When the loop has come to rest and shutdown did not come, every event      *)
(* published so far was heard: nobody waits for a full channel that nobody   *)
(* empties.  With LoopRunsOut this is EventuallyHeard but for the scheduler. *)
THEOREM RestMeansHeard == Spec => []QuietMeansHeard
<1>1. IInv /\ Accounted /\ EndsOnShutdown => QuietMeansHeard
  <2>1. SUFFICES ASSUME IInv, Accounted, EndsOnShutdown, Quiet, ~cancelled
                 PROVE  \A n \in 1..published : Heard(n)
    BY DEF QuietMeansHeard
  <2>0. TypeOK BY <2>1 DEF IInv
  <2>2. \A k \in Session : worker[k] = "select" /\ channels[k] = <<>>
    BY <2>1 DEF Quiet, WorkerCan, EndsOnShutdown
  <2>3. \A k \in Session : batch[k] = <<>>
    BY <2>1, <2>2 DEF IInv, HoldsBatch
  <2>4. loop # "send"
    <3>1. SUFFICES ASSUME loop = "send" PROVE FALSE OBVIOUS
    <3>6. hand \in Seq(Event) /\ Len(hand) = 1 BY <2>0, <3>1 DEF TypeOK
    <3>2. Head(hand) \in Event BY <3>6
    <3>3. KeyOf(Head(hand)) \in Session BY <3>2, KeyOfInSession
    <3>4. Room(KeyOf(Head(hand))) BY <2>2, <3>3, CapAssumption DEF Room
    <3>5. QED BY <2>1, <3>1, <3>4 DEF Quiet, DispatchCan
  <2>5. loop = "select" BY <2>0, <2>1, <2>4 DEF TypeOK, EndsOnShutdown
  <2>6. bus = <<>> /\ hand = <<>>
    <3>1. bus = <<>> BY <2>1, <2>5 DEF Quiet, DispatchCan
    <3>2. hand \in Seq(Event) /\ Len(hand) = 0 BY <2>0, <2>5 DEF TypeOK
    <3>3. QED BY <3>1, <3>2
  <2>7. \A e : e \notin InFlight BY <2>2, <2>3, <2>6, RangeOfEmpty, Pending
  <2>8. QED BY <2>1, <2>7 DEF Accounted
<1>2. QED BY <1>1, RestInvariant, PTL

(* After shutdown the loop comes to rest with every worker returned, and Run  *)
(* itself returned too, unless the dispatcher was caught sending to a full    *)
(* channel: the one way in which Run stays behind.                          *)
THEOREM RestMeansOver == Spec => []QuietMeansOver
<1>1. IInv => QuietMeansOver
  <2>1. SUFFICES ASSUME IInv, Quiet, cancelled
                 PROVE  /\ \A k \in Session : worker[k] = "done"
                        /\ \/ loop = "returned"
                           \/ loop = "send" /\ ~Room(KeyOf(Head(hand)))
    BY DEF QuietMeansOver
  <2>2. \A k \in Session : worker[k] = "done" BY <2>1 DEF Quiet, WorkerCan
  <2>3. loop \in {"select", "send", "wait", "returned"} BY <2>1 DEF IInv, TypeOK
  <2>4. QED BY <2>1, <2>2, <2>3 DEF Quiet, DispatchCan
<1>2. QED BY <1>1, Invariant, PTL
=============================================================================
