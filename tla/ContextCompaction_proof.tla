----------------------- MODULE ContextCompaction_proof -----------------------
(***************************************************************************)
(* Theorems about ContextCompaction, for any channels, bounds and numbers  *)
(* of events: its type invariant; that Reflect logs its own turn only; and, *)
(* with the background compaction as the only one (no ForceCompact) and no  *)
(* self prompts, that a message is only forgotten after it was handed to    *)
(* long-term memory, that it is handed over once, and that tool results     *)
(* stay with their calls.                                                   *)
(***************************************************************************)
EXTENDS ContextCompaction, FiniteSetTheorems, SequenceTheorems, TLAPS

USE LimitAssumption, BoundAssumption, SwitchAssumption

(* The oldest messages, as many as a prefix has, are that prefix. *)
LEMMA OldestIsPrefix ==
  ASSUME NEW S \in SUBSET Entry, IsFiniteSet(S), NEW T \in SUBSET S,
         \A t \in T, f \in S \ T : t.n < f.n
  PROVE  Oldest(S, Cardinality(T)) = T
<1> DEFINE UpTo(e) == {f \in S : f.n <= e.n}
<1>1. IsFiniteSet(T) /\ Cardinality(T) \in Nat
  BY FS_Subset, FS_CardinalityType
<1>2. ASSUME NEW e \in T PROVE Cardinality(UpTo(e)) <= Cardinality(T)
  <2>1. \A f \in UpTo(e) : f \in T
    BY <1>2 DEF Entry
  <2>2. UpTo(e) \in SUBSET T
    BY <2>1
  <2> QED BY <2>2, <1>1, FS_Subset
<1>3. ASSUME NEW e \in S \ T PROVE ~(Cardinality(UpTo(e)) <= Cardinality(T))
  <2>1. T \cup {e} \in SUBSET UpTo(e)
    BY <1>3 DEF Entry
  <2>2. IsFiniteSet(UpTo(e))
    BY FS_Subset
  <2>3. Cardinality(T \cup {e}) <= Cardinality(UpTo(e))
    BY <2>1, <2>2, FS_Subset
  <2>4. Cardinality(T \cup {e}) = Cardinality(T) + 1
    BY <1>1, <1>3, FS_AddElement
  <2>5. Cardinality(UpTo(e)) \in Nat
    BY <2>2, FS_CardinalityType
  <2> QED BY <1>1, <2>3, <2>4, <2>5
<1> QED BY <1>2, <1>3 DEF Oldest

LEMMA LiveFinite ==
  ASSUME NEW S \in SUBSET Entry, IsFiniteSet(S)
  PROVE  Live(S) \in SUBSET Entry /\ IsFiniteSet(Live(S))
BY FS_Subset DEF Live
-----------------------------------------------------------------------------
(* Type correctness. *)

LEMMA TypeInit == Init => TypeOK
<1> SUFFICES ASSUME Init PROVE TypeOK
  OBVIOUS
<1>1. NoTurn \in Turn
  BY DEF NoTurn, Turn
<1>2. <<>> \in Seq(Event)
  OBVIOUS
<1> QED BY <1>1, <1>2, FS_EmptySet DEF Init, TypeOK

LEMMA AddType ==
  ASSUME TypeOK, NEW kind \in Kind, NEW c \in Channel, NEW ref \in Nat,
         Add(kind, c, ref)
  PROVE  /\ context' \subseteq Entry /\ IsFiniteSet(context')
         /\ next' \in Nat \ {0}
         /\ turn' \in Turn /\ turn'.end = turn.end
<1> DEFINE e == [n |-> next, kind |-> kind, channel |-> c, ref |-> ref]
<1>1. e \in Entry
  BY DEF TypeOK, Entry
<1>2. context' = context \cup {e} /\ next' = next + 1
  BY DEF Add
<1>3. turn' = turn \/ turn' = [turn EXCEPT !.added = @ \cup {e}]
  BY DEF Add
<1> HIDE DEF e
<1>4. turn' \in Turn /\ turn'.end = turn.end
  BY <1>1, <1>3 DEF TypeOK, Turn
<1> QED BY <1>1, <1>2, <1>4, FS_AddElement DEF TypeOK

LEMMA AddIfAbsentType ==
  ASSUME TypeOK, NEW kind \in Kind, NEW c \in Channel, NEW ref \in Nat,
         AddIfAbsent(kind, c, ref)
  PROVE  /\ context' \subseteq Entry /\ IsFiniteSet(context')
         /\ next' \in Nat \ {0}
         /\ turn' \in Turn /\ turn'.end = turn.end
<1>1. CASE Add(kind, c, ref)
  BY <1>1, AddType
<1>2. CASE UNCHANGED <<context, next, turn>>
  BY <1>2 DEF TypeOK
<1> QED BY <1>1, <1>2 DEF AddIfAbsent

LEMMA TypeStep == TypeOK /\ [Next]_vars => TypeOK'
<1> SUFFICES ASSUME TypeOK, [Next]_vars PROVE TypeOK'
  OBVIOUS
<1> USE DEF compaction, stores
<1>t. NoTurn \in Turn
  BY DEF NoTurn, Turn
<1>1. ASSUME NEW c \in Channel, NEW self \in BOOLEAN, Post(c, self) PROVE TypeOK'
  <2>1. [channel |-> c, self |-> self] \in Event
    BY DEF Event
  <2>2. posted' \in Seq(Event) /\ Len(posted') = Len(posted) + 1 /\ Len(posted') <= MaxEvents
    BY <1>1, <2>1 DEF Post, TypeOK
  <2> QED BY <1>1, <2>2 DEF Post, TypeOK
<1>2. ASSUME NEW last \in 1..MaxEvents, TakeBatch(last) PROVE TypeOK'
  <2>1. Cardinality(context) \in Nat
    BY FS_CardinalityType DEF TypeOK
  <2>2. turn' \in Turn /\ turn'.end = last
    <3>1. turn' = [NoTurn EXCEPT !.end = last, !.start = Cardinality(context)]
      BY <1>2 DEF TakeBatch
    <3>2. last \in Nat
      BY BoundAssumption
    <3> QED BY <3>1, <3>2, <2>1 DEF NoTurn, Turn
  <2> QED BY <1>2, <2>2 DEF TakeBatch, TypeOK
<1>3. ASSUME SkipHistory PROVE TypeOK'
  BY <1>3 DEF SkipHistory, Goto, TypeOK
<1>4. ASSUME FetchHistory PROVE TypeOK'
  <2>1. context' \subseteq context /\ IsFiniteSet(context')
    BY <1>4, FS_Subset DEF FetchHistory, RemoveChannelHistory, TypeOK
  <2>2. turn' \in Turn /\ turn'.end = turn.end
    BY <1>4 DEF FetchHistory, TypeOK, Turn
  <2>3. recall' \subseteq Nat
    <3>1. History(Here, Trigger) \subseteq Nat
      BY DEF History
    <3> QED BY <1>4, <3>1 DEF FetchHistory
  <2>4. pc' \in {"memory", "recall"} /\ pc = "gate"
    BY <1>4 DEF FetchHistory
  <2> QED BY <1>4, <2>1, <2>2, <2>3, <2>4 DEF FetchHistory, TypeOK
<1>here. pc \in {"gate", "recall", "memory", "hear"} =>
           Here \in Channel /\ Trigger \in Nat /\ Trigger <= turn.end /\ Trigger \in 1..Len(posted)
  <2>1. SUFFICES ASSUME pc \in {"gate", "recall", "memory", "hear"}
                 PROVE  Here \in Channel /\ Trigger \in Nat /\ Trigger <= turn.end
                        /\ Trigger \in 1..Len(posted)
    OBVIOUS
  <2>2. turn.end \in 1..Len(posted) /\ ingested < turn.end /\ ingested \in Nat /\ Len(posted) \in Nat
    BY <2>1 DEF TypeOK
  <2>3. Trigger \in Nat /\ Trigger <= turn.end /\ Trigger \in 1..Len(posted)
    BY <2>2 DEF Trigger
  <2>4. posted[Trigger] \in Event
    BY <2>3 DEF TypeOK
  <2> QED BY <2>3, <2>4 DEF Here, Event
<1>5. ASSUME NEW m \in recall, RecallOne(m) PROVE TypeOK'
  <2>1. AddIfAbsent("history", Here, m) /\ m \in Nat /\ Here \in Channel /\ "history" \in Kind
    BY <1>5, <1>here DEF RecallOne, TypeOK, Kind
  <2>2. /\ context' \subseteq Entry /\ IsFiniteSet(context')
        /\ next' \in Nat \ {0}
        /\ turn' \in Turn /\ turn'.end = turn.end
    BY <2>1, AddIfAbsentType
  <2> QED BY <1>5, <2>2 DEF RecallOne, TypeOK
<1>6. ASSUME RecallMemories PROVE TypeOK'
  <2>1. Here \in Channel /\ "memory" \in Kind /\ 0 \in Nat
    BY <1>6, <1>here DEF RecallMemories, Kind
  <2>2. /\ context' \subseteq Entry /\ IsFiniteSet(context')
        /\ next' \in Nat \ {0}
        /\ turn' \in Turn /\ turn'.end = turn.end
    <3>1. CASE Add("memory", Here, 0)
      BY <2>1, <3>1, AddType
    <3>2. CASE UNCHANGED <<context, next, turn>>
      BY <3>2 DEF TypeOK
    <3> QED BY <1>6, <3>1, <3>2 DEF RecallMemories
  <2> QED BY <1>6, <2>2 DEF RecallMemories, TypeOK
<1>7. ASSUME Hear PROVE TypeOK'
  <2>1. Here \in Channel /\ "user" \in Kind /\ Trigger \in Nat /\ Trigger \in 1..Len(posted)
    BY <1>7, <1>here DEF Hear, Kind
  <2>2. /\ context' \subseteq Entry /\ IsFiniteSet(context')
        /\ next' \in Nat \ {0}
        /\ turn' \in Turn /\ turn'.end = turn.end
    <3>1. CASE AddIfAbsent("user", Here, Trigger)
      BY <2>1, <3>1, AddIfAbsentType
    <3>2. CASE UNCHANGED <<context, next, turn>>
      BY <3>2 DEF TypeOK
    <3> QED BY <1>7, <3>1, <3>2 DEF Hear
  <2>3. pc' = (IF ingested' < turn'.end THEN "gate" ELSE "perceived")
    BY <1>7, <2>2 DEF Hear
  <2> QED BY <1>7, <2>1, <2>2, <2>3 DEF Hear, TypeOK

<1>8. ASSUME Think PROVE TypeOK'
  <2>1. held' \in [Compactors -> SUBSET Entry] /\ \A j \in Compactors : IsFiniteSet(held'[j])
    BY <1>8 DEF Think, StartAsync, TypeOK
  <2>2. compactor' \in [Compactors -> {"off", "acquire", "replace", "persist", "save"}]
    BY <1>8 DEF Think, StartAsync, TypeOK
  <2>3. forced' = forced /\ pc' \in {"complete", "persist"} /\ turn' = turn /\ pc = "perceived"
    BY <1>8 DEF Think, StartAsync, Goto
  <2> QED BY <1>8, <2>1, <2>2, <2>3 DEF Think, TypeOK
<1>9. ASSUME CatchUp PROVE TypeOK'
  BY <1>9 DEF CatchUp, Goto, TypeOK
<1>there. pc # "idle" => TurnChannel \in Channel
  <2>1. SUFFICES ASSUME pc # "idle" PROVE TurnChannel \in Channel
    OBVIOUS
  <2>2. posted[turn.end] \in Event
    BY <2>1 DEF TypeOK
  <2> QED BY <2>2 DEF TurnChannel, Event
<1>10. ASSUME Answer PROVE TypeOK'
  <2>1. TurnChannel \in Channel /\ "assistant" \in Kind /\ 0 \in Nat
    BY <1>10, <1>there DEF Answer, Kind
  <2>2. /\ context' \subseteq Entry /\ IsFiniteSet(context')
        /\ next' \in Nat \ {0}
        /\ turn' \in Turn /\ turn'.end = turn.end
    BY <1>10, <2>1, AddType DEF Answer
  <2> QED BY <1>10, <2>2 DEF Answer, TypeOK
<1>11. ASSUME Skip PROVE TypeOK'
  BY <1>11 DEF Skip, SaySo, Goto, TypeOK
<1>12. ASSUME Fail PROVE TypeOK'
  BY <1>12, <1>t DEF Fail, SaySo, Goto, TypeOK
<1>13. ASSUME CallTools PROVE TypeOK'
  <2>1. TurnChannel \in Channel /\ "call" \in Kind /\ 0 \in Nat
    BY <1>13, <1>there DEF CallTools, Kind
  <2>2. /\ context' \subseteq Entry /\ IsFiniteSet(context')
        /\ next' \in Nat \ {0}
        /\ turn' \in Turn /\ turn'.end = turn.end
    BY <1>13, <2>1, AddType DEF CallTools
  <2> QED BY <1>13, <2>2 DEF CallTools, TypeOK
<1>14. ASSUME AddResults PROVE TypeOK'
  <2> DEFINE e == [n |-> next, kind |-> "result", channel |-> TurnChannel, ref |-> next - 1]
             more == [turn EXCEPT !.added = @ \cup {e}, !.iter = @ + 1]
  <2>1. e \in Entry
    BY <1>14, <1>there DEF AddResults, TypeOK, Entry, Kind
  <2>2. context' = context \cup {e} /\ next' = next + 1
    BY <1>14 DEF AddResults
  <2>3. /\ pc = "tools" /\ pc' \in {"reflect", "loop", "idle"}
        /\ turn' = (IF pc' = "idle" THEN NoTurn ELSE more)
    BY <1>14 DEF AddResults
  <2> HIDE DEF e
  <2>4. more \in Turn /\ more.end = turn.end
    <3>1. turn.iter + 1 \in Nat /\ turn.added \cup {e} \in SUBSET Entry
      BY <2>1 DEF TypeOK, Turn
    <3> QED BY <3>1 DEF TypeOK, Turn
  <2> HIDE DEF more
  <2>5. turn' \in Turn /\ (pc' # "idle" => turn'.end = turn.end)
    BY <2>3, <2>4, <1>t
  <2>6. context' \subseteq Entry /\ IsFiniteSet(context')
    BY <2>1, <2>2, FS_AddElement DEF TypeOK
  <2> QED BY <1>14, <2>2, <2>3, <2>5, <2>6 DEF AddResults, TypeOK
<1>15. ASSUME Loop PROVE TypeOK'
  <2>1. held' \in [Compactors -> SUBSET Entry] /\ \A j \in Compactors : IsFiniteSet(held'[j])
    BY <1>15 DEF Loop, StartAsync, TypeOK
  <2>2. compactor' \in [Compactors -> {"off", "acquire", "replace", "persist", "save"}]
    BY <1>15 DEF Loop, StartAsync, TypeOK
  <2>3. forced' = forced /\ pc' = "complete" /\ turn' = turn /\ pc = "loop"
    BY <1>15 DEF Loop, StartAsync, Goto
  <2> QED BY <1>15, <2>1, <2>2, <2>3 DEF Loop, TypeOK
<1>16. ASSUME LogTurn PROVE TypeOK'
  <2>1. ToLog \subseteq Entry
    BY DEF ToLog, Live, TypeOK
  <2>2. turn' \in Turn /\ turn'.end = turn.end
    BY <1>16, <2>1 DEF LogTurn, TypeOK, Turn
  <2> QED BY <1>16, <2>2 DEF LogTurn, TypeOK
<1>17. ASSUME ReadTurn PROVE TypeOK'
  <2>1. saving' \subseteq Entry /\ IsFiniteSet(saving')
    BY <1>17, LiveFinite DEF ReadTurn, TypeOK
  <2> QED BY <1>17, <2>1 DEF ReadTurn, Goto, TypeOK
<1>18. ASSUME SaveTurn PROVE TypeOK'
  BY <1>18, <1>t, FS_EmptySet DEF SaveTurn, Goto, TypeOK
<1>19. ASSUME ForceCompact PROVE TypeOK'
  <2>1. held' \in [Compactors -> SUBSET Entry] /\ \A j \in Compactors : IsFiniteSet(held'[j])
    BY <1>19 DEF ForceCompact, TypeOK
  <2>2. compactor' \in [Compactors -> {"off", "acquire", "replace", "persist", "save"}]
    BY <1>19 DEF ForceCompact, TypeOK
  <2>3. forced' \in 0..MaxForced
    BY <1>19 DEF ForceCompact, TypeOK
  <2> QED BY <1>19, <2>1, <2>2, <2>3 DEF ForceCompact, TypeOK
<1>20. ASSUME NEW j \in Compactors, Acquire(j) PROVE TypeOK'
  <2>1. handed' \subseteq Entry
    BY <1>20 DEF Acquire, Live, TypeOK
  <2>2. compactor' \in [Compactors -> {"off", "acquire", "replace", "persist", "save"}]
    BY <1>20 DEF Acquire, TypeOK
  <2> QED BY <1>20, <2>1, <2>2 DEF Acquire, TypeOK
<1>21. ASSUME NEW j \in Compactors, Replace(j) PROVE TypeOK'
  <2>1. context' \in SUBSET context
    BY <1>21 DEF Replace, CompactReplace
  <2>2. context' \subseteq Entry /\ IsFiniteSet(context')
    BY <2>1, FS_Subset DEF TypeOK
  <2>3. turn' \in Turn /\ turn'.end = turn.end
    BY <1>21 DEF Replace, TypeOK, Turn
  <2>4. compactor' \in [Compactors -> {"off", "acquire", "replace", "persist", "save"}]
    BY <1>21 DEF Replace, TypeOK
  <2> QED BY <1>21, <2>2, <2>3, <2>4 DEF Replace, TypeOK
<1>22. ASSUME NEW j \in Compactors, ReadToPersist(j) PROVE TypeOK'
  <2>1. Live(context) \in SUBSET Entry /\ IsFiniteSet(Live(context))
    BY LiveFinite DEF TypeOK
  <2>2. held' \in [Compactors -> SUBSET Entry] /\ \A i \in Compactors : IsFiniteSet(held'[i])
    BY <1>22, <2>1 DEF ReadToPersist, TypeOK
  <2>3. compactor' \in [Compactors -> {"off", "acquire", "replace", "persist", "save"}]
    BY <1>22 DEF ReadToPersist, TypeOK
  <2> QED BY <1>22, <2>2, <2>3 DEF ReadToPersist, TypeOK
<1>23. ASSUME NEW j \in Compactors, SaveAndUnlock(j) PROVE TypeOK'
  <2>1. held' \in [Compactors -> SUBSET Entry] /\ \A i \in Compactors : IsFiniteSet(held'[i])
    BY <1>23, FS_EmptySet DEF SaveAndUnlock, TypeOK
  <2>2. compactor' \in [Compactors -> {"off", "acquire", "replace", "persist", "save"}]
    BY <1>23 DEF SaveAndUnlock, TypeOK
  <2>3. db' \subseteq Entry /\ IsFiniteSet(db')
    BY <1>23 DEF SaveAndUnlock, TypeOK
  <2> QED BY <1>23, <2>1, <2>2, <2>3 DEF SaveAndUnlock, TypeOK
<1>24. ASSUME Restart PROVE TypeOK'
  BY <1>24, <1>t, FS_EmptySet DEF Restart, TypeOK
<1>25. CASE UNCHANGED vars
  BY <1>25 DEF vars, TypeOK
<1> QED
  BY <1>1, <1>2, <1>3, <1>4, <1>5, <1>6, <1>7, <1>8, <1>9, <1>10, <1>11, <1>12,
     <1>13, <1>14, <1>15, <1>16, <1>17, <1>18, <1>19, <1>20, <1>21, <1>22, <1>23,
     <1>24, <1>25 DEF Next, Perceive, Act, Reflect, Compact

(* The types of all variables, and with them that a worker past "idle" is   *)
(* in a batch of published events and that every set of messages is finite, *)
(* in every state of the program.                                           *)
THEOREM TypeCorrect == Spec => []TypeOK
BY TypeInit, TypeStep, PTL DEF Spec
-----------------------------------------------------------------------------
(* Without ForceCompact and self prompts a message is forgotten only after  *)
(* it was handed over.  The inductive invariant says why: the copy a        *)
(* compaction works on is a prefix of the messages until they are replaced, *)
(* since everything else only appends.  In particular the bootstrap of a    *)
(* channel never finds an older one to remove: a block of memories is       *)
(* always followed by the message that it was fetched for.                  *)

Mode == MaxForced = 0 /\ MaySelfPrompt = FALSE

Spoken == {"user", "assistant", "call", "history"}

(* Entries are older than the next one and refer to events of their channel. *)
Genuine(e) ==
  /\ e.n < next
  /\ e.kind \in {"user", "history"} =>
       e.ref \in 1..Len(posted) /\ posted[e.ref].channel = e.channel

AllGenuine ==
  /\ \A e \in context : Genuine(e)
  /\ \A e \in db : Genuine(e) /\ ~Injected(e)
  /\ \A e \in saving : Genuine(e) /\ ~Injected(e)
  /\ compactor["async"] = "save" =>
       \A e \in held["async"] : Genuine(e) /\ ~Injected(e)

OnlyAsync ==
  /\ compactor["forced"] = "off"
  /\ \A i \in 1..Len(posted) : posted[i].self = FALSE

CopyIsPrefix ==
  compactor["async"] \in {"acquire", "replace"} =>
    /\ held["async"] \subseteq context
    /\ \A t \in held["async"], f \in context \ held["async"] : t.n < f.n

CopyHanded ==
  compactor["async"] = "replace" => Live(held["async"]) \subseteq handed

RecallOfChannel ==
  pc = "recall" =>
    \A m \in recall : m \in 1..Len(posted) /\ posted[m].channel = Here

MemoryAnswered ==
  /\ pc = "memory" => ~HasMessagesForChannel(context, Here)
  /\ \A e \in context : e.kind = "memory" =>
       \/ \E f \in context : f.channel = e.channel /\ f.kind \in Spoken /\ e.n < f.n
       \/ pc = "hear" /\ e.channel = Here /\ ~HasMessagesForChannel(context, Here)

IInv ==
  /\ TypeOK
  /\ AllGenuine
  /\ OnlyAsync
  /\ CopyIsPrefix
  /\ CopyHanded
  /\ RecallOfChannel
  /\ MemoryAnswered

LEMMA InvInit == ASSUME Mode PROVE Init => IInv
<1> SUFFICES ASSUME Init PROVE IInv
  OBVIOUS
<1>1. TypeOK
  BY TypeInit
<1>2. AllGenuine /\ CopyIsPrefix /\ CopyHanded /\ RecallOfChannel /\ MemoryAnswered
  BY DEF Init, AllGenuine, CopyIsPrefix, CopyHanded, RecallOfChannel, MemoryAnswered, Compactors
<1>3. OnlyAsync
  BY DEF Init, OnlyAsync, Compactors
<1> QED BY <1>1, <1>2, <1>3 DEF IInv

LEMMA FetchRemovesNothing ==
  ASSUME IInv, FetchHistory
  PROVE  context' = context
<1>1. pc = "gate" /\ ~HasMessagesForChannel(context, Here)
  BY DEF FetchHistory
<1>2. ASSUME NEW e \in context, Injected(e), e.channel = Here PROVE FALSE
  <2>1. CASE e.kind = "history"
    BY <1>1, <1>2, <2>1 DEF HasMessagesForChannel
  <2>2. CASE e.kind = "memory"
    <3>1. PICK f \in context : f.channel = e.channel /\ f.kind \in Spoken
      BY <1>1, <2>2 DEF IInv, MemoryAnswered
    <3> QED BY <1>1, <1>2, <3>1 DEF HasMessagesForChannel, Spoken
  <2> QED BY <1>2, <2>1, <2>2 DEF Injected
<1> QED BY <1>2 DEF FetchHistory, RemoveChannelHistory

LEMMA ReplaceDropsCopy ==
  ASSUME IInv, Replace("async")
  PROVE  context' = context \ held["async"]
<1>1. /\ compactor["async"] = "replace"
      /\ context' = context \ Oldest(context, Cardinality(held["async"]))
  BY DEF Replace, CompactReplace
<1>2. /\ context \in SUBSET Entry /\ IsFiniteSet(context)
      /\ held["async"] \in SUBSET context
      /\ \A t \in held["async"], f \in context \ held["async"] : t.n < f.n
  BY <1>1 DEF IInv, TypeOK, CopyIsPrefix
<1>3. Oldest(context, Cardinality(held["async"])) = held["async"]
  BY <1>2, OldestIsPrefix
<1> QED BY <1>1, <1>3

(* The ways in which a step changes the list of messages. *)
Appended(e) == e.n = next /\ next' = next + 1 /\ context' = context \cup {e}

Untouched == context' = context /\ next' = next

LEMMA AddAppends ==
  ASSUME TypeOK, NEW kind \in Kind, NEW c \in Channel, NEW ref \in Nat,
         Add(kind, c, ref)
  PROVE  \E e \in Entry : Appended(e) /\ e.kind = kind /\ e.channel = c /\ e.ref = ref
<1> DEFINE e == [n |-> next, kind |-> kind, channel |-> c, ref |-> ref]
<1>1. e \in Entry
  BY DEF TypeOK, Entry
<1>2. Appended(e)
  BY DEF Add, Appended
<1> QED BY <1>1, <1>2

LEMMA HereInChannel ==
  ASSUME TypeOK, pc \in {"gate", "recall", "memory", "hear"}
  PROVE  Here \in Channel /\ Trigger \in 1..Len(posted)
<1>1. turn.end \in 1..Len(posted) /\ ingested < turn.end /\ ingested \in Nat /\ Len(posted) \in Nat
  BY DEF TypeOK
<1>2. Trigger \in 1..Len(posted)
  BY <1>1 DEF Trigger
<1>3. posted[Trigger] \in Event
  BY <1>2 DEF TypeOK
<1> QED BY <1>2, <1>3 DEF Here, Event

LEMMA TurnInChannel ==
  ASSUME TypeOK, pc # "idle"
  PROVE  TurnChannel \in Channel
<1>1. posted[turn.end] \in Event
  BY DEF TypeOK
<1> QED BY <1>1 DEF TurnChannel, Event

LEMMA RecallAppends ==
  ASSUME IInv, NEW m \in recall, RecallOne(m)
  PROVE  \/ Untouched
         \/ \E e \in Entry : Appended(e) /\ e.kind = "history" /\ e.channel = Here /\ e.ref = m
<1>1. m \in Nat /\ Here \in Channel /\ "history" \in Kind /\ TypeOK
  BY HereInChannel DEF RecallOne, IInv, TypeOK, Kind
<1>2. CASE Add("history", Here, m)
  BY <1>1, <1>2, AddAppends
<1>3. CASE UNCHANGED <<context, next, turn>>
  BY <1>3 DEF Untouched
<1> QED BY <1>2, <1>3 DEF RecallOne, AddIfAbsent

LEMMA MemoryAppends ==
  ASSUME IInv, RecallMemories
  PROVE  \/ Untouched
         \/ \E e \in Entry : Appended(e) /\ e.kind = "memory" /\ e.channel = Here
<1>1. 0 \in Nat /\ Here \in Channel /\ "memory" \in Kind /\ TypeOK
  BY HereInChannel DEF RecallMemories, IInv, Kind
<1>2. CASE Add("memory", Here, 0)
  BY <1>1, <1>2, AddAppends
<1>3. CASE UNCHANGED <<context, next, turn>>
  BY <1>3 DEF Untouched
<1> QED BY <1>2, <1>3 DEF RecallMemories

(* The message of an event is skipped only if the channel already has it. *)
LEMMA HearAppends ==
  ASSUME IInv, Hear
  PROVE  \/ Untouched /\ HasMessagesForChannel(context, Here)
         \/ \E e \in Entry : Appended(e) /\ e.kind = "user" /\ e.channel = Here /\ e.ref = Trigger
<1>1. /\ Trigger \in Nat /\ Trigger \in 1..Len(posted)
      /\ Here \in Channel /\ "user" \in Kind /\ TypeOK
  BY HereInChannel DEF Hear, IInv, Kind
<1>2. AddIfAbsent("user", Here, Trigger)
  BY <1>1 DEF Hear, IInv, OnlyAsync
<1>3. CASE \E e \in context : e.kind \in {"user", "history"} /\ e.ref = Trigger
  <2>1. PICK e \in context : e.kind \in {"user", "history"} /\ e.ref = Trigger
    BY <1>3
  <2>2. e.channel = Here
    BY <2>1 DEF IInv, AllGenuine, Genuine, Here
  <2>3. Untouched
    BY <1>2, <1>3 DEF AddIfAbsent, Untouched
  <2> QED BY <2>1, <2>2, <2>3 DEF HasMessagesForChannel
<1>4. CASE Add("user", Here, Trigger)
  BY <1>1, <1>4, AddAppends
<1> QED BY <1>2, <1>3, <1>4 DEF AddIfAbsent

(* Whatever the worker adds to a turn is no "user" and no "history" entry. *)
LEMMA ActAppends ==
  ASSUME IInv, Answer \/ CallTools \/ AddResults
  PROVE  \E e \in Entry :
           /\ Appended(e) /\ e.kind \in {"assistant", "call", "result"}
           /\ e.kind # "result" => e.ref = 0
<1>1. TypeOK /\ pc # "idle" /\ 0 \in Nat
  BY DEF Answer, CallTools, AddResults, IInv
<1>2. TurnChannel \in Channel
  BY <1>1, TurnInChannel
<1>3. CASE Answer
  BY <1>1, <1>2, <1>3, AddAppends DEF Answer, Kind
<1>4. CASE CallTools
  BY <1>1, <1>2, <1>4, AddAppends DEF CallTools, Kind
<1>5. CASE AddResults
  <2> DEFINE e == [n |-> next, kind |-> "result", channel |-> TurnChannel, ref |-> next - 1]
  <2>1. e \in Entry
    BY <1>1, <1>2 DEF TypeOK, Entry, Kind
  <2>2. Appended(e)
    BY <1>5 DEF AddResults, Appended
  <2> QED BY <2>1, <2>2
<1> QED BY <1>3, <1>4, <1>5

(* The steps of the next-state relation that the mode leaves. *)
LEMMA StepCases ==
  ASSUME Mode, IInv, [Next]_vars
  PROVE  \/ \E c \in Channel, self \in BOOLEAN : Post(c, self)
         \/ \E last \in 1..MaxEvents : TakeBatch(last)
         \/ SkipHistory \/ FetchHistory \/ RecallMemories \/ Hear
         \/ \E m \in recall : RecallOne(m)
         \/ Think \/ Loop \/ CatchUp \/ Skip \/ Fail
         \/ Answer \/ CallTools \/ AddResults
         \/ LogTurn \/ ReadTurn \/ SaveTurn
         \/ Acquire("async") \/ Replace("async") \/ ReadToPersist("async")
         \/ SaveAndUnlock("async")
         \/ Restart
         \/ UNCHANGED vars
<1>1. ~ForceCompact
  BY DEF Mode, IInv, TypeOK, ForceCompact
<1>2. ~Compact("forced")
  BY DEF IInv, OnlyAsync, Compact, Acquire, Replace, ReadToPersist, SaveAndUnlock
<1>3. (\E j \in Compactors : Compact(j)) => Compact("async")
  BY <1>2 DEF Compactors
<1> QED BY <1>1, <1>3 DEF Next, Perceive, Act, Reflect, Compact

LEMMA Growth ==
  ASSUME Mode, IInv, [Next]_vars
  PROVE  /\ next' \in Nat /\ next <= next'
         /\ Len(posted) <= Len(posted')
         /\ \A i \in 1..Len(posted) : posted'[i] = posted[i]
<1> USE DEF compaction, stores
<1>t. next \in Nat /\ Len(posted) \in Nat /\ posted \in Seq(Event)
  BY DEF IInv, TypeOK
<1>u. (next' = next \/ next' = next + 1) => next' \in Nat /\ next <= next'
  BY <1>t
<1>1. ASSUME NEW c \in Channel, NEW self \in BOOLEAN, Post(c, self)
      PROVE  /\ Len(posted) <= Len(posted')
             /\ \A i \in 1..Len(posted) : posted'[i] = posted[i]
             /\ next' = next
  <2>1. [channel |-> c, self |-> self] \in Event
    BY DEF Event
  <2> QED BY <1>1, <1>t, <2>1 DEF Post
<1>2. \/ (\E c \in Channel, self \in BOOLEAN : Post(c, self))
      \/ posted' = posted
  <2> SUFFICES ASSUME ~(\E c \in Channel, self \in BOOLEAN : Post(c, self))
               PROVE  posted' = posted
    OBVIOUS
  <2> QED
    BY StepCases
    DEF TakeBatch, SkipHistory, FetchHistory, RecallMemories, Hear, RecallOne, Think,
        Loop, CatchUp, Skip, Fail, SaySo, Answer, CallTools, AddResults, LogTurn, ReadTurn,
        SaveTurn, Acquire, Replace, ReadToPersist, SaveAndUnlock, Restart, vars
<1>3. next' = next \/ next' = next + 1
  BY StepCases
  DEF Post, TakeBatch, SkipHistory, FetchHistory, RecallMemories, Hear, RecallOne, Think,
      Loop, CatchUp, Skip, Fail, SaySo, Answer, CallTools, AddResults, LogTurn, ReadTurn,
      SaveTurn, Acquire, Replace, ReadToPersist, SaveAndUnlock, Restart, vars, Add, AddIfAbsent
<1> QED BY <1>1, <1>2, <1>3, <1>u, <1>t

LEMMA GenuineStays ==
  ASSUME Mode, IInv, [Next]_vars, NEW e \in Entry, Genuine(e)
  PROVE  e.n < next' /\ (e.kind \in {"user", "history"} =>
           e.ref \in 1..Len(posted') /\ posted'[e.ref].channel = e.channel)
<1>1. e.n \in Nat /\ next \in Nat /\ Len(posted) \in Nat /\ Len(posted') \in Nat
  <2>1. TypeOK /\ TypeOK'
    BY TypeStep DEF IInv
  <2> QED BY <2>1 DEF TypeOK, Entry
<1>2. e.n < next'
  BY <1>1, Growth DEF Genuine
<1> QED BY <1>1, <1>2, Growth DEF Genuine

(* How a step changes the messages. *)
LEMMA Changes ==
  ASSUME Mode, IInv, [Next]_vars
  PROVE  \/ Untouched
         \/ \E e \in Entry : Appended(e)
         \/ Replace("async")
         \/ Restart
<1> USE DEF compaction, stores
<1>1. CASE FetchHistory
  BY <1>1, FetchRemovesNothing DEF FetchHistory, Untouched
<1>2. CASE RecallMemories
  BY <1>2, MemoryAppends
<1>3. CASE Hear
  BY <1>3, HearAppends
<1>4. ASSUME NEW m \in recall, RecallOne(m)
      PROVE  Untouched \/ \E e \in Entry : Appended(e)
  BY <1>4, RecallAppends
<1>5. CASE Answer \/ CallTools \/ AddResults
  BY <1>5, ActAppends
<1>6. CASE \/ \E c \in Channel, self \in BOOLEAN : Post(c, self)
           \/ \E last \in 1..MaxEvents : TakeBatch(last)
           \/ SkipHistory \/ Think \/ Loop \/ CatchUp \/ Skip \/ Fail
           \/ LogTurn \/ ReadTurn \/ SaveTurn
           \/ Acquire("async") \/ ReadToPersist("async") \/ SaveAndUnlock("async")
           \/ UNCHANGED vars
  BY <1>6
  DEF Untouched, Post, TakeBatch, SkipHistory, Think, Loop, CatchUp, Skip, Fail, SaySo,
      LogTurn, ReadTurn, SaveTurn, Acquire, ReadToPersist, SaveAndUnlock, vars
<1> QED BY <1>1, <1>2, <1>3, <1>4, <1>5, <1>6, StepCases

LEMMA GenuineStep ==
  ASSUME Mode, IInv, [Next]_vars
  PROVE  AllGenuine'
<1> USE DEF compaction, stores
<1>t. /\ TypeOK /\ TypeOK' /\ AllGenuine
      /\ context \subseteq Entry /\ db \subseteq Entry /\ saving \subseteq Entry
      /\ held["async"] \subseteq Entry
  BY TypeStep DEF IInv, TypeOK, Compactors
<1>s. ASSUME NEW e \in Entry, Genuine(e) PROVE Genuine(e)'
  BY <1>s, GenuineStays DEF Genuine
<1>1. \A e \in context : Genuine(e)'
  BY <1>t, <1>s DEF AllGenuine
<1>2. ASSUME NEW e \in Entry, Appended(e),
             e.kind \in {"user", "history"} =>
               e.ref \in 1..Len(posted) /\ posted[e.ref].channel = e.channel
      PROVE  \A f \in context' : Genuine(f)'
  <2>1. e.n < next' /\ Len(posted) \in Nat /\ Len(posted') \in Nat
    BY <1>2, <1>t DEF Appended, TypeOK
  <2>2. Genuine(e)'
    BY <1>2, <2>1, Growth DEF Genuine
  <2> QED BY <1>1, <1>2, <2>2 DEF Appended
<1>3. \A e \in context' : Genuine(e)'
  <2>1. CASE Untouched
    BY <1>1, <2>1 DEF Untouched
  <2>2. CASE Replace("async")
    BY <1>1, <2>2 DEF Replace, CompactReplace
  <2>3. CASE Restart
    BY <1>t, <1>s, <2>3 DEF Restart, AllGenuine
  <2>4. CASE RecallMemories
    BY <1>2, <2>1, <2>4, MemoryAppends
  <2>5. CASE Hear
    <3>1. Trigger \in 1..Len(posted) /\ posted[Trigger].channel = Here
      BY <2>5, <1>t, HereInChannel DEF Hear, Here
    <3> QED BY <1>2, <2>1, <2>5, <3>1, HearAppends
  <2>6. ASSUME NEW m \in recall, RecallOne(m)
        PROVE  \A e \in context' : Genuine(e)'
    <3>1. m \in 1..Len(posted) /\ posted[m].channel = Here
      BY <2>6 DEF RecallOne, IInv, RecallOfChannel
    <3> QED BY <1>2, <2>1, <2>6, <3>1, RecallAppends
  <2>7. CASE Answer \/ CallTools \/ AddResults
    BY <1>2, <2>7, ActAppends
  <2>8. CASE FetchHistory
    BY <1>1, <2>8, FetchRemovesNothing
  <2>9. CASE \/ \E c \in Channel, self \in BOOLEAN : Post(c, self)
             \/ \E last \in 1..MaxEvents : TakeBatch(last)
             \/ SkipHistory \/ Think \/ Loop \/ CatchUp \/ Skip \/ Fail
             \/ LogTurn \/ ReadTurn \/ SaveTurn
             \/ Acquire("async") \/ ReadToPersist("async") \/ SaveAndUnlock("async")
             \/ UNCHANGED vars
    <3>1. context' = context
      BY <2>9
      DEF Post, TakeBatch, SkipHistory, Think, Loop, CatchUp, Skip, Fail, SaySo,
          LogTurn, ReadTurn, SaveTurn, Acquire, ReadToPersist, SaveAndUnlock, vars
    <3> QED BY <1>1, <3>1
  <2> QED BY <2>2, <2>3, <2>4, <2>5, <2>6, <2>7, <2>8, <2>9, StepCases
<1>4. \A e \in Live(context) : Genuine(e)' /\ ~Injected(e)
  BY <1>1 DEF Live
<1>5. ASSUME NEW e \in db \cup saving PROVE Genuine(e)' /\ ~Injected(e)
  BY <1>5, <1>t, <1>s DEF AllGenuine
<1>6. ASSUME compactor["async"] = "save", NEW e \in held["async"]
      PROVE  Genuine(e)' /\ ~Injected(e)
  BY <1>6, <1>t, <1>s DEF AllGenuine
<1>7. \A e \in saving' : Genuine(e)' /\ ~Injected(e)
  <2>1. saving' = saving \/ saving' = {} \/ saving' = Live(context)
    BY StepCases
    DEF Post, TakeBatch, SkipHistory, FetchHistory, RecallMemories, Hear, RecallOne, Think,
        Loop, CatchUp, Skip, Fail, SaySo, Answer, CallTools, AddResults, LogTurn, ReadTurn,
        SaveTurn, Acquire, Replace, ReadToPersist, SaveAndUnlock, Restart, vars
  <2> QED BY <1>4, <1>5, <2>1
<1>8. \A e \in db' : Genuine(e)' /\ ~Injected(e)
  <2>1. \/ db' = db \/ db' = saving
        \/ compactor["async"] = "save" /\ db' = held["async"]
    BY StepCases
    DEF Post, TakeBatch, SkipHistory, FetchHistory, RecallMemories, Hear, RecallOne, Think,
        Loop, CatchUp, Skip, Fail, SaySo, Answer, CallTools, AddResults, LogTurn, ReadTurn,
        SaveTurn, Acquire, Replace, ReadToPersist, SaveAndUnlock, Restart, vars
  <2> QED BY <1>5, <1>6, <2>1
<1>9. compactor'["async"] = "save" => \A e \in held'["async"] : Genuine(e)' /\ ~Injected(e)
  <2>1. \/ compactor'["async"] # "save"
        \/ compactor["async"] = "save" /\ held' = held
        \/ held'["async"] = Live(context)
    <3>1. /\ compactor \in [Compactors -> {"off", "acquire", "replace", "persist", "save"}]
          /\ held \in [Compactors -> SUBSET Entry]
      BY <1>t DEF TypeOK
    <3> QED
      BY StepCases, <3>1
      DEF Post, TakeBatch, SkipHistory, FetchHistory, RecallMemories, Hear, RecallOne, Think,
          Loop, CatchUp, Skip, Fail, SaySo, Answer, CallTools, AddResults, LogTurn, ReadTurn,
          SaveTurn, Acquire, Replace, ReadToPersist, SaveAndUnlock, Restart, vars, StartAsync,
          Compactors
  <2> QED BY <1>4, <1>6, <2>1
<1> QED BY <1>3, <1>7, <1>8, <1>9 DEF AllGenuine

LEMMA OnlyAsyncStep ==
  ASSUME Mode, IInv, [Next]_vars
  PROVE  OnlyAsync'
<1> USE DEF compaction, stores
<1>t. /\ TypeOK /\ OnlyAsync
      /\ compactor \in [Compactors -> {"off", "acquire", "replace", "persist", "save"}]
  BY DEF IInv, TypeOK
<1>1. compactor'["forced"] = "off"
  BY StepCases, <1>t
  DEF OnlyAsync, Post, TakeBatch, SkipHistory, FetchHistory, RecallMemories, Hear, RecallOne,
      Think, Loop, CatchUp, Skip, Fail, SaySo, Answer, CallTools, AddResults, LogTurn,
      ReadTurn, SaveTurn, Acquire, Replace, ReadToPersist, SaveAndUnlock, Restart, vars,
      StartAsync, Compactors
<1>2. ASSUME NEW c \in Channel, NEW self \in BOOLEAN, Post(c, self)
      PROVE  \A i \in 1..Len(posted') : posted'[i].self = FALSE
  <2>1. self = FALSE
    BY <1>2 DEF Post, Mode
  <2>2. [channel |-> c, self |-> self] \in Event /\ posted \in Seq(Event)
    BY <1>t DEF Event, TypeOK
  <2>3. /\ Len(posted') = Len(posted) + 1 /\ Len(posted) \in Nat
        /\ posted'[Len(posted) + 1] = [channel |-> c, self |-> self]
        /\ \A i \in 1..Len(posted) : posted'[i] = posted[i]
    BY <1>2, <2>2 DEF Post
  <2> QED BY <1>t, <2>1, <2>3 DEF OnlyAsync
<1>3. CASE posted' = posted
  BY <1>1, <1>3, <1>t DEF OnlyAsync
<1>4. (\E c \in Channel, self \in BOOLEAN : Post(c, self)) \/ posted' = posted
  <2> SUFFICES ASSUME ~(\E c \in Channel, self \in BOOLEAN : Post(c, self))
               PROVE  posted' = posted
    OBVIOUS
  <2> QED
    BY StepCases
    DEF TakeBatch, SkipHistory, FetchHistory, RecallMemories, Hear, RecallOne, Think,
        Loop, CatchUp, Skip, Fail, SaySo, Answer, CallTools, AddResults, LogTurn, ReadTurn,
        SaveTurn, Acquire, Replace, ReadToPersist, SaveAndUnlock, Restart, vars
<1> QED BY <1>1, <1>2, <1>3, <1>4 DEF OnlyAsync

(* Only the steps of a compaction and the two checks that start one change  *)
(* what a compaction holds, and they leave the messages alone.              *)
LEMMA CopyStep ==
  ASSUME Mode, IInv, [Next]_vars
  PROVE  CopyIsPrefix' /\ CopyHanded'
<1> USE DEF compaction, stores
<1>t. /\ TypeOK /\ CopyIsPrefix /\ CopyHanded /\ AllGenuine
      /\ compactor \in [Compactors -> {"off", "acquire", "replace", "persist", "save"}]
      /\ held \in [Compactors -> SUBSET Entry]
      /\ context \subseteq Entry /\ next \in Nat
  BY DEF IInv, TypeOK
<1>1. CASE Think \/ Loop
  <2>1. context' = context /\ handed' = handed
    BY <1>1 DEF Think, Loop
  <2>2. CASE UNCHANGED compaction
    BY <2>1, <2>2, <1>t DEF CopyIsPrefix, CopyHanded
  <2>3. CASE /\ compactor' = [compactor EXCEPT !["async"] = "acquire"]
             /\ held' = [held EXCEPT !["async"] = context]
    <3>1. compactor'["async"] = "acquire" /\ held'["async"] = context
      BY <2>3, <1>t DEF Compactors
    <3> QED BY <2>1, <3>1 DEF CopyIsPrefix, CopyHanded
  <2> QED BY <1>1, <2>2, <2>3 DEF Think, Loop, StartAsync
<1>2. CASE Acquire("async")
  <2>1. /\ compactor'["async"] = "replace" /\ compactor["async"] = "acquire"
        /\ held' = held /\ context' = context
        /\ handed' = handed \cup Live(held["async"])
    BY <1>2, <1>t DEF Acquire, Compactors
  <2> QED BY <2>1, <1>t DEF CopyIsPrefix, CopyHanded
<1>3. CASE Replace("async") \/ ReadToPersist("async") \/ SaveAndUnlock("async") \/ Restart
  <2>1. compactor'["async"] \in {"persist", "save", "off"}
    BY <1>3, <1>t DEF Replace, ReadToPersist, SaveAndUnlock, Restart, Compactors
  <2> QED BY <2>1 DEF CopyIsPrefix, CopyHanded
<1>4. CASE \/ \E c \in Channel, self \in BOOLEAN : Post(c, self)
           \/ \E last \in 1..MaxEvents : TakeBatch(last)
           \/ SkipHistory \/ FetchHistory \/ RecallMemories \/ Hear
           \/ \E m \in recall : RecallOne(m)
           \/ CatchUp \/ Skip \/ Fail \/ Answer \/ CallTools \/ AddResults
           \/ LogTurn \/ ReadTurn \/ SaveTurn \/ UNCHANGED vars
  <2>1. compactor' = compactor /\ held' = held /\ handed' = handed
    BY <1>4
    DEF Post, TakeBatch, SkipHistory, FetchHistory, RecallMemories, Hear, RecallOne,
        CatchUp, Skip, Fail, SaySo, Answer, CallTools, AddResults, LogTurn, ReadTurn,
        SaveTurn, vars
  <2>2. CopyHanded'
    BY <2>1, <1>t DEF CopyHanded
  <2>3. CASE Untouched
    BY <2>1, <2>2, <2>3, <1>t DEF CopyIsPrefix, Untouched
  <2>4. ASSUME NEW e \in Entry, Appended(e) PROVE CopyIsPrefix'
    <3>1. \A t \in context : t.n < e.n
      BY <2>4, <1>t DEF Appended, AllGenuine, Genuine
    <3> QED BY <2>1, <2>4, <3>1, <1>t DEF CopyIsPrefix, Appended
  <2>5. CASE Replace("async") \/ Restart
    BY <1>3, <2>5
  <2> QED BY <2>2, <2>3, <2>4, <2>5, Changes
<1> QED BY <1>1, <1>2, <1>3, <1>4, StepCases

(* A block of memories is always followed by the message it was fetched for, *)
(* and a compaction that drops this message drops the older block too.       *)
LEMMA MemoryStep ==
  ASSUME Mode, IInv, [Next]_vars
  PROVE  RecallOfChannel' /\ MemoryAnswered'
<1> USE DEF compaction, stores
<1>t. /\ TypeOK /\ RecallOfChannel /\ MemoryAnswered /\ AllGenuine
      /\ context \subseteq Entry /\ next \in Nat
  BY DEF IInv, TypeOK
<1>h. pc \in {"gate", "recall", "memory", "hear"} => Trigger \in 1..Len(posted)
  BY <1>t, HereInChannel
<1>n. \A e \in context : e.n < next
  BY <1>t DEF AllGenuine, Genuine
<1>s. ASSUME NEW S, HasMessagesForChannel(S, Here)
      PROVE  \E f \in S : f.channel = Here /\ f.kind \in Spoken
  BY <1>s DEF HasMessagesForChannel, Spoken
(* Every memory block has its answer in the context. *)
<1> DEFINE Answered(S) == \A e \in S : e.kind = "memory" =>
               \E f \in S : f.channel = e.channel /\ f.kind \in Spoken /\ e.n < f.n
<1>a. pc # "hear" => Answered(context)
  BY <1>t DEF MemoryAnswered
<1>b. ASSUME NEW e \in Entry, Appended(e), Answered(context), e.kind # "memory"
      PROVE  Answered(context)'
  <2>1. context' = context \cup {e}
    BY <1>b DEF Appended
  <2>2. ASSUME NEW x \in context', x.kind = "memory"
        PROVE  \E f \in context' : f.channel = x.channel /\ f.kind \in Spoken /\ x.n < f.n
    <3>1. x \in context
      BY <1>b, <2>1, <2>2
    <3>2. PICK f \in context : f.channel = x.channel /\ f.kind \in Spoken /\ x.n < f.n
      BY <1>b, <2>2, <3>1
    <3> QED BY <2>1, <3>2
  <2> QED BY <2>2
<1>c. ASSUME Answered(context)', pc' \notin {"recall", "memory"}
      PROVE  RecallOfChannel' /\ MemoryAnswered'
  BY <1>c DEF RecallOfChannel, MemoryAnswered
<1>1. ASSUME NEW c \in Channel, NEW self \in BOOLEAN, Post(c, self)
      PROVE  RecallOfChannel' /\ MemoryAnswered'
  <2>1. /\ context' = context /\ pc' = pc /\ recall' = recall /\ Trigger' = Trigger
    BY <1>1 DEF Post, Trigger
  <2>2. pc \in {"gate", "recall", "memory", "hear"} => Here' = Here
    BY <1>h, <2>1, Growth DEF Here
  <2>3. RecallOfChannel'
    <3>1. SUFFICES ASSUME pc = "recall", NEW m \in recall
                   PROVE  m \in 1..Len(posted') /\ posted'[m].channel = Here'
      BY <2>1 DEF RecallOfChannel
    <3>2. m \in 1..Len(posted) /\ posted[m].channel = Here
      BY <3>1, <1>t DEF RecallOfChannel
    <3>3. Len(posted) \in Nat /\ Len(posted') \in Nat
      BY <1>t, TypeStep DEF TypeOK
    <3> QED BY <3>1, <3>2, <3>3, <2>2, Growth
  <2>4. MemoryAnswered'
    BY <2>1, <2>2, <1>t DEF MemoryAnswered
  <2> QED BY <2>3, <2>4
<1>2. CASE FetchHistory
  <2>1. context' = context /\ pc = "gate" /\ ingested' = ingested /\ posted' = posted
    BY <1>2, FetchRemovesNothing DEF FetchHistory
  <2>2. Here' = Here /\ ~HasMessagesForChannel(context', Here')
    BY <1>2, <2>1 DEF FetchHistory, Here, Trigger
  <2>3. \/ recall' = {} /\ pc' = "memory"
        \/ recall' = History(Here, Trigger) /\ pc' = "recall"
        \/ recall' = {} /\ pc' = "recall"
    BY <1>2 DEF FetchHistory
  <2>4. \A m \in History(Here, Trigger) : m \in 1..Len(posted) /\ posted[m].channel = Here
    BY DEF History
  <2>5. RecallOfChannel'
    BY <2>1, <2>2, <2>3, <2>4 DEF RecallOfChannel
  <2>6. Answered(context)
    BY <1>a, <2>1
  <2>7. MemoryAnswered'
    BY <2>1, <2>2, <2>6 DEF MemoryAnswered
  <2> QED BY <2>5, <2>7
<1>3. ASSUME NEW m \in recall, RecallOne(m)
      PROVE  RecallOfChannel' /\ MemoryAnswered'
  <2>1. /\ pc = "recall" /\ pc' \in {"recall", "hear"} /\ recall' \subseteq recall
        /\ ingested' = ingested /\ posted' = posted
    BY <1>3 DEF RecallOne
  <2>2. Here' = Here
    BY <2>1 DEF Here, Trigger
  <2>3. RecallOfChannel'
    BY <2>1, <2>2, <1>t DEF RecallOfChannel
  <2>4. Answered(context)'
    <3>1. CASE Untouched
      BY <1>a, <2>1, <3>1 DEF Untouched
    <3>2. ASSUME NEW e \in Entry, Appended(e), e.kind = "history" PROVE Answered(context)'
      BY <1>a, <1>b, <2>1, <3>2
    <3> QED BY <1>3, <3>1, <3>2, RecallAppends
  <2>5. MemoryAnswered'
    BY <2>1, <2>4 DEF MemoryAnswered
  <2> QED BY <2>3, <2>5
<1>4. CASE RecallMemories
  <2>1. /\ pc = "memory" /\ pc' = "hear" /\ ingested' = ingested /\ posted' = posted
    BY <1>4 DEF RecallMemories
  <2>2. Here' = Here /\ ~HasMessagesForChannel(context, Here)
    BY <2>1, <1>t DEF Here, Trigger, MemoryAnswered
  <2>3. CASE Untouched
    BY <1>a, <1>c, <2>1, <2>3 DEF Untouched
  <2>4. ASSUME NEW e \in Entry, Appended(e), e.kind = "memory", e.channel = Here
        PROVE  RecallOfChannel' /\ MemoryAnswered'
    <3>1. context' = context \cup {e}
      BY <2>4 DEF Appended
    <3>2. ~HasMessagesForChannel(context', Here')
      BY <2>2, <2>4, <3>1 DEF HasMessagesForChannel
    <3>3. ASSUME NEW x \in context', x.kind = "memory"
          PROVE  \/ \E f \in context' : f.channel = x.channel /\ f.kind \in Spoken /\ x.n < f.n
                 \/ x.channel = Here'
      <4>1. CASE x = e
        BY <2>2, <2>4, <4>1
      <4>2. CASE x \in context
        BY <1>a, <2>1, <3>1, <3>3, <4>2
      <4> QED BY <3>1, <4>1, <4>2
    <3> QED BY <2>1, <3>2, <3>3 DEF RecallOfChannel, MemoryAnswered
  <2> QED BY <1>4, <2>3, <2>4, MemoryAppends
<1>5. CASE Hear
  <2>1. pc = "hear" /\ pc' \in {"gate", "perceived"}
    BY <1>5 DEF Hear
  <2>2. CASE Untouched /\ HasMessagesForChannel(context, Here)
    BY <1>c, <1>t, <2>1, <2>2 DEF Untouched, MemoryAnswered
  <2>3. ASSUME NEW e \in Entry, Appended(e), e.kind = "user", e.channel = Here
        PROVE  Answered(context)'
    <3>1. context' = context \cup {e} /\ e.n = next
      BY <2>3 DEF Appended
    <3>2. ASSUME NEW x \in context', x.kind = "memory"
          PROVE  \E f \in context' : f.channel = x.channel /\ f.kind \in Spoken /\ x.n < f.n
      <4>1. x \in context /\ x.n < e.n
        BY <2>3, <3>1, <3>2, <1>n
      <4>2. \/ \E f \in context : f.channel = x.channel /\ f.kind \in Spoken /\ x.n < f.n
            \/ x.channel = Here
        BY <1>t, <3>2, <4>1 DEF MemoryAnswered
      <4> QED BY <2>3, <3>1, <4>1, <4>2 DEF Spoken
    <3> QED BY <3>2
  <2> QED BY <1>5, <1>c, <2>1, <2>2, <2>3, HearAppends
<1>6. CASE Answer \/ CallTools \/ AddResults
  <2>1. pc # "hear" /\ pc' \notin {"recall", "memory"}
    BY <1>6 DEF Answer, CallTools, AddResults
  <2>2. PICK e \in Entry : Appended(e) /\ e.kind # "memory"
    BY <1>6, ActAppends
  <2> QED BY <1>a, <1>b, <1>c, <2>1, <2>2
<1>7. CASE Replace("async")
  <2>1. /\ context' = context \ held["async"] /\ compactor["async"] = "replace"
        /\ pc' = pc /\ recall' = recall /\ ingested' = ingested /\ posted' = posted
    BY <1>7, ReplaceDropsCopy DEF Replace
  <2>2. Here' = Here
    BY <2>1 DEF Here, Trigger
  <2>3. \A t \in held["async"], f \in context \ held["async"] : t.n < f.n
    BY <2>1 DEF IInv, CopyIsPrefix
  <2>4. ASSUME NEW c, ~HasMessagesForChannel(context, c)
        PROVE  ~HasMessagesForChannel(context', c)
    BY <2>1, <2>4 DEF HasMessagesForChannel
  <2>5. ASSUME NEW x \in context', NEW f \in context, x.n < f.n PROVE f \in context'
    <3>1. x \in Entry /\ f \in Entry
      BY <1>t, <2>1
    <3>2. ~(f.n < x.n)
      BY <2>5, <3>1 DEF Entry
    <3> QED BY <2>1, <2>3, <2>5, <3>2
  <2>6. RecallOfChannel'
    BY <1>t, <2>1, <2>2 DEF RecallOfChannel
  <2>7. ASSUME NEW x \in context', x.kind = "memory"
        PROVE  \/ \E f \in context' : f.channel = x.channel /\ f.kind \in Spoken /\ x.n < f.n
               \/ pc' = "hear" /\ x.channel = Here' /\ ~HasMessagesForChannel(context', Here')
    <3>1. x \in context
      BY <2>1
    <3>2. CASE \E f \in context : f.channel = x.channel /\ f.kind \in Spoken /\ x.n < f.n
      BY <2>5, <3>2
    <3>3. CASE pc = "hear" /\ x.channel = Here /\ ~HasMessagesForChannel(context, Here)
      BY <2>1, <2>2, <2>4, <3>3
    <3> QED BY <1>t, <2>7, <3>1, <3>2, <3>3 DEF MemoryAnswered
  <2>8. MemoryAnswered'
    BY <1>t, <2>1, <2>2, <2>4, <2>7 DEF MemoryAnswered
  <2> QED BY <2>6, <2>8
<1>8. CASE Restart
  <2>1. context' = db /\ pc' = "idle"
    BY <1>8 DEF Restart
  <2>2. \A e \in context' : e.kind # "memory"
    BY <1>t, <2>1 DEF AllGenuine, Injected
  <2> QED BY <2>1, <2>2 DEF RecallOfChannel, MemoryAnswered
<1>9. CASE \/ \E last \in 1..MaxEvents : TakeBatch(last)
           \/ Think \/ Loop \/ CatchUp \/ Skip \/ Fail
           \/ LogTurn \/ ReadTurn \/ SaveTurn
  <2>1. context' = context /\ pc # "hear" /\ pc' \notin {"recall", "memory"}
    BY <1>9
    DEF TakeBatch, Think, Loop, CatchUp, Skip, Fail, SaySo, LogTurn, ReadTurn, SaveTurn, Goto
  <2> QED BY <1>a, <1>c, <2>1
<1>10. CASE SkipHistory
  <2>1. context' = context /\ pc = "gate" /\ pc' = "hear"
    BY <1>10 DEF SkipHistory, Goto
  <2> QED BY <1>a, <1>c, <2>1
<1>11. CASE Acquire("async") \/ ReadToPersist("async") \/ SaveAndUnlock("async") \/ UNCHANGED vars
  <2>1. /\ context' = context /\ pc' = pc /\ recall' = recall
        /\ ingested' = ingested /\ posted' = posted
    BY <1>11 DEF Acquire, ReadToPersist, SaveAndUnlock, vars
  <2>2. Here' = Here
    BY <2>1 DEF Here, Trigger
  <2> QED BY <1>t, <2>1, <2>2 DEF RecallOfChannel, MemoryAnswered
<1> QED
  BY <1>1, <1>2, <1>3, <1>4, <1>5, <1>6, <1>7, <1>8, <1>9, <1>10, <1>11, StepCases

LEMMA InvStep == Mode /\ IInv /\ [Next]_vars => IInv'
BY TypeStep, GenuineStep, OnlyAsyncStep, CopyStep, MemoryStep DEF IInv

(* The replacement is the only step, but for a restart, that removes a      *)
(* message, and what it removes is the copy that was handed over.           *)
LEMMA ForgetStep ==
  Mode /\ IInv /\ [Next]_vars
    => Restart \/ \A e \in Live(context) : e \in context' \/ e \in handed
<1> SUFFICES ASSUME Mode, IInv, [Next]_vars, ~Restart, NEW e \in Live(context)
             PROVE  e \in context' \/ e \in handed
  OBVIOUS
<1>1. e \in context
  BY DEF Live
<1>2. CASE Untouched \/ \E f \in Entry : Appended(f)
  BY <1>1, <1>2 DEF Untouched, Appended
<1>3. CASE Replace("async")
  <2>1. compactor["async"] = "replace" /\ context' = context \ held["async"]
    BY <1>3, ReplaceDropsCopy DEF Replace
  <2>2. Live(held["async"]) \subseteq handed
    BY <2>1 DEF IInv, CopyHanded
  <2>3. CASE e \in held["async"]
    BY <2>2, <2>3 DEF Live
  <2> QED BY <1>1, <2>1, <2>3
<1> QED BY <1>2, <1>3, Changes

(* The strengthening holds in every state of the mode. *)
LEMMA Invariant == ASSUME Mode PROVE Spec => []IInv
<1>1. Init => IInv
  BY InvInit
<1>2. IInv /\ [Next]_vars => IInv'
  BY InvStep
<1> QED BY <1>1, <1>2, PTL DEF Spec

(* A message leaves the conversation only after long-term memory got it, or *)
(* in a crash, however the worker and the background compaction interleave. *)
THEOREM ForgetsHanded ==
  ASSUME MaxForced = 0, MaySelfPrompt = FALSE
  PROVE  Spec => ForgetsOnlyHanded
<1>1. Mode
  BY DEF Mode
<1>2. Spec => []IInv
  BY <1>1, Invariant
<1>3. IInv /\ [Next]_vars
        => [Restart \/ \A e \in Live(context) : e \in context' \/ e \in handed]_vars
  BY <1>1, ForgetStep
<1> QED BY <1>2, <1>3, PTL DEF Spec, ForgetsOnlyHanded
-----------------------------------------------------------------------------
(* What Reflect logs, whatever else removes messages.  The number k that the  *)
(* next entry had when the turn began separates what is older: of that no     *)
(* more than start entries are left, and as many when nothing was removed.   *)

Numbered ==
  /\ \A e \in context \cup db \cup saving : e.n < next
  /\ \A j \in Compactors : \A e \in held[j] : e.n < next

Before(k) == {e \in context : e.n < k}

Separates(k) ==
  /\ k <= next
  /\ Cardinality(Before(k)) <= turn.start
  /\ \A e \in Live(context) : e.n >= k => e \in turn.added
  /\ ~turn.shrunk =>
       /\ Cardinality(Before(k)) = turn.start
       /\ \A e \in turn.added : e \in Live(context) /\ e.n >= k

Separated == pc # "idle" => \E k \in Nat : Separates(k)

LInv == TypeOK /\ Numbered /\ Separated

(* How a step within a turn changes the messages and what the turn knows.   *)
Same == context' = context /\ turn'.added = turn.added /\ turn'.shrunk = turn.shrunk

Grown ==
  \E e \in Entry :
    /\ e.n = next /\ next' = next + 1 /\ context' = context \cup {e}
    /\ turn'.added = IF Injected(e) THEN turn.added ELSE turn.added \cup {e}
    /\ turn'.shrunk = turn.shrunk

Shrunk ==
  /\ context' \subseteq context
  /\ turn'.added = turn.added
  /\ turn'.shrunk <=> turn.shrunk \/ context' # context

LEMMA AddGrows ==
  ASSUME TypeOK, NEW kind \in Kind, NEW c \in Channel, NEW ref \in Nat,
         Add(kind, c, ref)
  PROVE  Grown /\ turn'.start = turn.start
<1> DEFINE e == [n |-> next, kind |-> kind, channel |-> c, ref |-> ref]
<1>1. e \in Entry /\ e.n = next
  BY DEF TypeOK, Entry
<1>2. /\ context' = context \cup {e} /\ next' = next + 1
      /\ turn' = IF Injected(e) THEN turn ELSE [turn EXCEPT !.added = @ \cup {e}]
  BY DEF Add
<1> HIDE DEF e
<1>3. turn \in Turn
  BY DEF TypeOK
<1>4. /\ turn'.added = IF Injected(e) THEN turn.added ELSE turn.added \cup {e}
      /\ turn'.shrunk = turn.shrunk /\ turn'.start = turn.start
  BY <1>2, <1>3 DEF Turn
<1> QED BY <1>1, <1>2, <1>4 DEF Grown

LEMMA AddIfAbsentGrows ==
  ASSUME TypeOK, NEW kind \in Kind, NEW c \in Channel, NEW ref \in Nat,
         AddIfAbsent(kind, c, ref)
  PROVE  /\ turn'.start = turn.start
         /\ Grown \/ (Same /\ next' = next)
<1>1. CASE Add(kind, c, ref)
  BY <1>1, AddGrows
<1>2. CASE UNCHANGED <<context, next, turn>>
  BY <1>2 DEF Same
<1> QED BY <1>1, <1>2 DEF AddIfAbsent

LEMMA TurnChanges ==
  ASSUME TypeOK, [Next]_vars, pc' # "idle", ~ \E last \in 1..MaxEvents : TakeBatch(last)
  PROVE  /\ pc # "idle" /\ turn'.start = turn.start
         /\ Grown \/ ((Same \/ Shrunk) /\ next' = next)
<1> USE DEF compaction, stores
<1> DEFINE Goal == /\ pc # "idle" /\ turn'.start = turn.start
                   /\ Grown \/ ((Same \/ Shrunk) /\ next' = next)
<1>t. turn \in Turn
  BY DEF TypeOK
<1>1. CASE \/ \E c \in Channel, self \in BOOLEAN : Post(c, self)
           \/ ForceCompact
           \/ \E j \in Compactors : Acquire(j) \/ ReadToPersist(j) \/ SaveAndUnlock(j)
           \/ UNCHANGED vars
  BY <1>1 DEF Post, ForceCompact, Acquire, ReadToPersist, SaveAndUnlock, vars, Same
<1>2. CASE SkipHistory \/ Think \/ CatchUp \/ Skip \/ Loop \/ ReadTurn
  BY <1>2 DEF SkipHistory, Think, CatchUp, Skip, SaySo, Loop, ReadTurn, Goto, Same
<1>3. CASE LogTurn
  BY <1>3, <1>t DEF LogTurn, Same, Turn
<1>4. CASE FetchHistory
  <2>1. /\ turn' = [turn EXCEPT !.shrunk = @ \/ context' # context]
        /\ context' \subseteq context /\ next' = next /\ pc # "idle"
    BY <1>4 DEF FetchHistory, RemoveChannelHistory
  <2> QED BY <2>1, <1>t DEF Shrunk, Turn
<1>5. ASSUME NEW j \in Compactors, Replace(j) PROVE Goal
  <2>1. /\ turn' = [turn EXCEPT !.shrunk = @ \/ context' # context]
        /\ context' \subseteq context /\ next' = next /\ pc' = pc
    BY <1>5 DEF Replace, CompactReplace
  <2> QED BY <2>1, <1>t DEF Shrunk, Turn
<1>6. ASSUME NEW m \in recall, RecallOne(m) PROVE Goal
  <2>1. m \in Nat /\ Here \in Channel /\ "history" \in Kind
    BY <1>6, HereInChannel DEF RecallOne, TypeOK, Kind
  <2> QED BY <1>6, <2>1, AddIfAbsentGrows DEF RecallOne
<1>7. CASE RecallMemories
  <2>1. 0 \in Nat /\ Here \in Channel /\ "memory" \in Kind
    BY <1>7, HereInChannel DEF RecallMemories, Kind
  <2>2. CASE Add("memory", Here, 0)
    BY <1>7, <2>1, <2>2, AddGrows DEF RecallMemories
  <2>3. CASE UNCHANGED <<context, next, turn>>
    BY <1>7, <2>3 DEF RecallMemories, Same
  <2> QED BY <1>7, <2>2, <2>3 DEF RecallMemories
<1>8. CASE Hear
  <2>1. Trigger \in Nat /\ Here \in Channel /\ "user" \in Kind
    BY <1>8, HereInChannel DEF Hear, Kind
  <2>2. CASE AddIfAbsent("user", Here, Trigger)
    BY <1>8, <2>1, <2>2, AddIfAbsentGrows DEF Hear
  <2>3. CASE UNCHANGED <<context, next, turn>>
    BY <1>8, <2>3 DEF Hear, Same
  <2> QED BY <1>8, <2>2, <2>3 DEF Hear
<1>9. CASE Answer \/ CallTools
  <2>1. 0 \in Nat /\ TurnChannel \in Channel /\ {"assistant", "call"} \subseteq Kind
    BY <1>9, TurnInChannel DEF Answer, CallTools, Kind
  <2> QED BY <1>9, <2>1, AddGrows DEF Answer, CallTools
<1>10. CASE AddResults
  <2> DEFINE e == [n |-> next, kind |-> "result", channel |-> TurnChannel, ref |-> next - 1]
             more == [turn EXCEPT !.added = @ \cup {e}, !.iter = @ + 1]
  <2>1. TurnChannel \in Channel
    BY <1>10, TurnInChannel DEF AddResults
  <2>2. e \in Entry /\ ~Injected(e) /\ e.n = next
    BY <2>1 DEF TypeOK, Entry, Kind, Injected
  <2>3. /\ context' = context \cup {e} /\ next' = next + 1 /\ pc = "tools"
        /\ turn' = more
    BY <1>10 DEF AddResults
  <2> HIDE DEF e
  <2>4. turn'.added = turn.added \cup {e} /\ turn'.shrunk = turn.shrunk /\ turn'.start = turn.start
    BY <2>3, <1>t DEF Turn
  <2> QED BY <2>2, <2>3, <2>4 DEF Grown
<1>11. CASE Fail \/ SaveTurn \/ Restart
  BY <1>11 DEF Fail, SaySo, SaveTurn, Restart, Goto
<1> QED
  BY <1>1, <1>2, <1>3, <1>4, <1>5, <1>6, <1>7, <1>8, <1>9, <1>10, <1>11
     DEF Next, Perceive, Act, Reflect, Compact

LEMMA NumberedStep ==
  ASSUME TypeOK, Numbered, [Next]_vars
  PROVE  Numbered' /\ next <= next'
<1> USE DEF compaction, stores
<1>t. /\ next \in Nat /\ context \subseteq Entry /\ db \subseteq Entry /\ saving \subseteq Entry
      /\ held \in [Compactors -> SUBSET Entry]
      /\ \A e \in Entry : e.n \in Nat
  BY DEF TypeOK, Entry
<1>1. next' \in {next, next + 1}
  BY DEF Next, Perceive, Act, Reflect, Compact, Post, TakeBatch, SkipHistory, FetchHistory,
      RecallMemories, Hear, RecallOne, Think, Loop, CatchUp, Skip, Fail, SaySo, Answer,
      CallTools, AddResults, LogTurn, ReadTurn, SaveTurn, ForceCompact, Acquire, Replace,
      ReadToPersist, SaveAndUnlock, Restart, vars, Add, AddIfAbsent
<1>2. \A e \in context' : e \in context \cup db \/ (e.n = next /\ next' = next + 1)
  <2> DEFINE Known == \A e \in context' : e \in context \cup db \/ (e.n = next /\ next' = next + 1)
  <2>1. CASE \/ \E c \in Channel, self \in BOOLEAN : Post(c, self)
             \/ \E last \in 1..MaxEvents : TakeBatch(last)
             \/ ForceCompact \/ SkipHistory \/ Think \/ CatchUp \/ Skip \/ Fail \/ Loop
             \/ LogTurn \/ ReadTurn \/ SaveTurn
             \/ \E j \in Compactors : Acquire(j) \/ ReadToPersist(j) \/ SaveAndUnlock(j)
             \/ UNCHANGED vars
    <3>1. context' = context
      BY <2>1 DEF Post, TakeBatch, ForceCompact, SkipHistory, Think, CatchUp, Skip, Fail, SaySo,
         Loop, LogTurn, ReadTurn, SaveTurn, Acquire, ReadToPersist, SaveAndUnlock, vars
    <3> QED BY <3>1
  <2>2. CASE FetchHistory \/ \E j \in Compactors : Replace(j)
    <3>1. context' \subseteq context
      BY <2>2 DEF FetchHistory, RemoveChannelHistory, Replace, CompactReplace
    <3> QED BY <3>1
  <2>3. ASSUME NEW m \in recall, RecallOne(m) PROVE Known
    BY <2>3 DEF RecallOne, AddIfAbsent, Add
  <2>4. CASE RecallMemories \/ Hear \/ Answer \/ CallTools
    BY <2>4 DEF RecallMemories, Hear, Answer, CallTools, AddIfAbsent, Add
  <2>5. CASE AddResults
    BY <2>5 DEF AddResults
  <2>6. CASE Restart
    <3>1. context' \subseteq db
      BY <2>6 DEF Restart
    <3> QED BY <3>1
  <2> QED
    BY <2>1, <2>2, <2>3, <2>4, <2>5, <2>6 DEF Next, Perceive, Act, Reflect, Compact
<1>3. saving' \subseteq saving \cup context
  BY DEF Next, Perceive, Act, Reflect, Compact, Post, TakeBatch, SkipHistory, FetchHistory,
      RecallMemories, Hear, RecallOne, Think, Loop, CatchUp, Skip, Fail, SaySo, Answer,
      CallTools, AddResults, LogTurn, ReadTurn, SaveTurn, ForceCompact, Acquire, Replace,
      ReadToPersist, SaveAndUnlock, Restart, vars, Live
<1>4. \A e \in db' : e \in db \cup saving \/ \E j \in Compactors : e \in held[j]
  BY DEF Next, Perceive, Act, Reflect, Compact, Post, TakeBatch, SkipHistory, FetchHistory,
      RecallMemories, Hear, RecallOne, Think, Loop, CatchUp, Skip, Fail, SaySo, Answer,
      CallTools, AddResults, LogTurn, ReadTurn, SaveTurn, ForceCompact, Acquire, Replace,
      ReadToPersist, SaveAndUnlock, Restart, vars
<1>5. \A j \in Compactors : held'[j] \subseteq held[j] \cup context
  BY <1>t DEF Next, Perceive, Act, Reflect, Compact, Post, TakeBatch, SkipHistory, FetchHistory,
      RecallMemories, Hear, RecallOne, Think, Loop, CatchUp, Skip, Fail, SaySo, Answer,
      CallTools, AddResults, LogTurn, ReadTurn, SaveTurn, ForceCompact, Acquire, Replace,
      ReadToPersist, SaveAndUnlock, Restart, vars, StartAsync, Live
<1>6. next <= next' /\ next' \in Nat
  BY <1>t, <1>1
<1>7. \A e \in Entry : e.n < next => e.n < next'
  BY <1>t, <1>6
<1>8. \A e \in context' : e.n < next'
  BY <1>t, <1>2, <1>7 DEF Numbered
<1>9. \A e \in db' \cup saving' : e.n < next'
  BY <1>t, <1>3, <1>4, <1>7 DEF Numbered
<1>10. \A j \in Compactors : \A e \in held'[j] : e.n < next'
  BY <1>t, <1>5, <1>7 DEF Numbered
<1> QED BY <1>6, <1>8, <1>9, <1>10 DEF Numbered

LEMMA SeparatedStep ==
  ASSUME LInv, [Next]_vars, pc' # "idle"
  PROVE  \E k \in Nat : Separates(k)'
<1>t. /\ TypeOK /\ Numbered /\ next \in Nat /\ turn \in Turn /\ turn.start \in Nat
      /\ context \subseteq Entry /\ IsFiniteSet(context)
      /\ \A e \in Entry : e.n \in Nat
  BY DEF LInv, TypeOK, Turn, Entry
<1>1. ASSUME NEW last \in 1..MaxEvents, TakeBatch(last)
      PROVE  \E k \in Nat : Separates(k)'
  <2>1. /\ turn' = [NoTurn EXCEPT !.end = last, !.start = Cardinality(context)]
        /\ context' = context /\ next' = next
    BY <1>1 DEF TakeBatch
  <2>2. turn'.start = Cardinality(context) /\ turn'.added = {}
    BY <2>1 DEF NoTurn
  <2>3. PICK k \in Nat : k = next
    BY <1>t
  <2>4. {e \in context : e.n < k} = context /\ \A e \in Live(context) : ~(e.n >= k)
    BY <1>t, <2>3 DEF Live, Numbered
  <2>5. Cardinality(context) \in Nat
    BY <1>t, FS_CardinalityType
  <2>6. k <= next' /\ {e \in context' : e.n < k} = context' /\ Live(context') = Live(context)
    BY <1>t, <2>1, <2>3, <2>4
  <2>7. Cardinality(context') <= turn'.start /\ Cardinality(context') = turn'.start
    BY <2>1, <2>2, <2>5
  <2>8. Separates(k)'
    BY <2>2, <2>4, <2>6, <2>7 DEF Separates, Before
  <2> QED BY <2>8
<1>2. CASE ~ \E last \in 1..MaxEvents : TakeBatch(last)
  <2>1. /\ pc # "idle" /\ turn'.start = turn.start
        /\ Grown \/ ((Same \/ Shrunk) /\ next' = next)
    BY <1>t, <1>2, TurnChanges
  <2>2. PICK k \in Nat : Separates(k)
    BY <2>1 DEF LInv, Separated
  <2>3. CASE Same /\ next' = next
    BY <2>1, <2>2, <2>3 DEF Same, Separates, Before, Live
  <2>4. CASE Grown
    <3>1. PICK e \in Entry :
            /\ e.n = next /\ next' = next + 1 /\ context' = context \cup {e}
            /\ turn'.added = IF Injected(e) THEN turn.added ELSE turn.added \cup {e}
            /\ turn'.shrunk = turn.shrunk
      BY <2>4 DEF Grown
    <3>2. k <= next /\ k <= next'
      BY <1>t, <2>2, <3>1 DEF Separates
    <3>3. {f \in context' : f.n < k} = {f \in context : f.n < k}
      BY <1>t, <3>1, <3>2
    <3>4. Live(context') = IF Injected(e) THEN Live(context) ELSE Live(context) \cup {e}
      BY <3>1 DEF Live
    <3>5. \A f \in Live(context') : f.n >= k => f \in turn'.added
      BY <2>2, <3>1, <3>4 DEF Separates
    <3>6. ~turn.shrunk => \A f \in turn'.added : f \in Live(context') /\ f.n >= k
      BY <1>t, <2>2, <3>1, <3>2, <3>4 DEF Separates
    <3> QED BY <2>1, <2>2, <3>1, <3>2, <3>3, <3>5, <3>6 DEF Separates, Before
  <2>5. CASE Shrunk /\ next' = next
    <3>1. /\ context' \subseteq context /\ turn'.added = turn.added
          /\ turn'.shrunk <=> turn.shrunk \/ context' # context
      BY <2>5 DEF Shrunk
    <3>2. IsFiniteSet(Before(k))
      BY <1>t, FS_Subset DEF Before
    <3>3. {f \in context' : f.n < k} \in SUBSET Before(k)
      BY <3>1 DEF Before
    <3> DEFINE left == Cardinality({f \in context' : f.n < k})
    <3>4. /\ left <= Cardinality(Before(k)) /\ left \in Nat /\ Cardinality(Before(k)) \in Nat
      BY <3>2, <3>3, FS_Subset, FS_CardinalityType
    <3>5. left <= turn.start
      <4>1. Cardinality(Before(k)) <= turn.start
        BY <2>2 DEF Separates
      <4> HIDE DEF left
      <4> QED BY <1>t, <3>4, <4>1
    <3>6. \A e \in Live(context') : e.n >= k => e \in turn'.added
      BY <2>2, <3>1 DEF Separates, Live
    <3>7. ~turn'.shrunk => context' = context /\ ~turn.shrunk
      BY <3>1
    <3>8. ~turn'.shrunk =>
            /\ left = turn'.start
            /\ \A e \in turn'.added : e \in Live(context') /\ e.n >= k
      BY <2>1, <2>2, <3>1, <3>7 DEF Separates, Before
    <3> QED BY <2>1, <2>2, <2>5, <3>5, <3>6, <3>8 DEF Separates, Before
  <2> QED BY <2>1, <2>2, <2>3, <2>4, <2>5
<1> QED BY <1>1, <1>2

LEMMA LogsStep ==
  ASSUME LInv, LogTurn
  PROVE  /\ turn'.logged \subseteq turn.added
         /\ ~turn.shrunk => turn'.logged = turn.added
<1>t. /\ turn \in Turn /\ turn.start \in Nat /\ context \subseteq Entry /\ IsFiniteSet(context)
      /\ \A e \in Entry : e.n \in Nat
  BY DEF LInv, TypeOK, Turn, Entry
<1>1. PICK k \in Nat : Separates(k)
  BY DEF LogTurn, LInv, Separated
<1>2. turn'.logged = Live(context \ Oldest(context, turn.start))
  BY <1>t DEF LogTurn, ToLog, Turn
<1>3. IsFiniteSet(Before(k)) /\ Cardinality(Before(k)) \in Nat
  BY <1>t, FS_Subset, FS_CardinalityType DEF Before
<1>4. ASSUME NEW e \in context, e.n < k PROVE e \in Oldest(context, turn.start)
  <2>1. {f \in context : f.n <= e.n} \in SUBSET Before(k)
    BY <1>4, <1>t DEF Before
  <2>2. /\ Cardinality({f \in context : f.n <= e.n}) <= Cardinality(Before(k))
        /\ IsFiniteSet({f \in context : f.n <= e.n})
    BY <1>3, <2>1, FS_Subset
  <2>3. Cardinality({f \in context : f.n <= e.n}) \in Nat
    BY <2>2, FS_CardinalityType
  <2>4. Cardinality(Before(k)) <= turn.start
    BY <1>1 DEF Separates
  <2>5. Cardinality({f \in context : f.n <= e.n}) <= turn.start
    BY <1>t, <1>3, <2>2, <2>3, <2>4
  <2> QED BY <2>5 DEF Oldest
<1>5. turn'.logged \subseteq turn.added
  <2>1. SUFFICES ASSUME NEW e \in turn'.logged PROVE e \in turn.added
    OBVIOUS
  <2>2. e \in Live(context) /\ e \in context /\ ~(e.n < k)
    BY <1>2, <1>4, <2>1 DEF Live
  <2>3. e.n >= k
    BY <1>t, <2>2
  <2> QED BY <1>1, <2>2, <2>3 DEF Separates
<1>6. ASSUME ~turn.shrunk, NEW e \in turn.added PROVE e \in turn'.logged
  <2>1. e \in Live(context) /\ e.n >= k /\ Cardinality(Before(k)) = turn.start
    BY <1>1, <1>6 DEF Separates
  <2>2. e \in context /\ e \notin Before(k) /\ e.n \in Nat
    BY <1>t, <2>1 DEF Live, Before
  <2>3. Before(k) \cup {e} \in SUBSET {f \in context : f.n <= e.n}
    BY <1>t, <2>1, <2>2 DEF Before
  <2>4. IsFiniteSet({f \in context : f.n <= e.n})
    BY <1>t, FS_Subset
  <2>5. Cardinality(Before(k) \cup {e}) <= Cardinality({f \in context : f.n <= e.n})
    BY <2>3, <2>4, FS_Subset
  <2>6. Cardinality(Before(k) \cup {e}) = turn.start + 1
    BY <1>3, <2>1, <2>2, FS_AddElement
  <2>7. Cardinality({f \in context : f.n <= e.n}) \in Nat
    BY <2>4, FS_CardinalityType
  <2>8. ~(Cardinality({f \in context : f.n <= e.n}) <= turn.start)
    BY <1>t, <2>5, <2>6, <2>7
  <2> QED BY <1>2, <2>1, <2>2, <2>8 DEF Live, Oldest
<1> QED BY <1>5, <1>6

(* Reflect logs messages of the turn only, and all of them unless messages     *)
(* were removed since it began (reflect.go's TurnStartIdx is an index into a   *)
(* list that compactions shorten), with ForceCompact, self prompts and crashes. *)
THEOREM LogsOnlyThisTurn == Spec => LogsThisTurn
<1>1. Init => LInv
  <2>1. SUFFICES ASSUME Init PROVE LInv
    OBVIOUS
  <2>2. Numbered /\ Separated
    BY <2>1 DEF Init, Numbered, Separated, Compactors
  <2> QED BY <2>1, <2>2, TypeInit DEF LInv
<1>2. LInv /\ [Next]_vars => LInv'
  <2>1. SUFFICES ASSUME LInv, [Next]_vars PROVE LInv'
    OBVIOUS
  <2>2. TypeOK' /\ Numbered'
    BY <2>1, TypeStep, NumberedStep DEF LInv
  <2>3. Separated'
    BY <2>1, SeparatedStep DEF Separated
  <2> QED BY <2>2, <2>3 DEF LInv
<1>3. LInv /\ [Next]_vars
        => [LogTurn => /\ turn'.logged \subseteq turn.added
                       /\ ~turn.shrunk => turn'.logged = turn.added]_vars
  BY LogsStep
<1> QED BY <1>1, <1>2, <1>3, PTL DEF Spec, LogsThisTurn
-----------------------------------------------------------------------------
(* Why calls and results stay together, in the mode of ForgetsHanded: a     *)
(* compaction starts only between two completions, so the copy it drops     *)
(* never ends between a call and its result.                                *)

Answers(r, c) == r.kind = "result" /\ c.kind = "call" /\ r.ref = c.n /\ c.n < r.n

Linked(S) == \A r \in S : r.kind = "result" => \E c \in S : Answers(r, c)

Copying == compactor["async"] \in {"acquire", "replace"}

ContextLinked ==
  /\ Linked(context)
  /\ Copying => Linked(context \ held["async"])

SnapshotsLinked ==
  /\ Linked(db) /\ Linked(saving)
  /\ compactor["async"] = "save" => Linked(held["async"])

(* The call whose results are about to come is the newest message. *)
AtTools ==
  pc = "tools" =>
    \E c \in context : /\ c.kind = "call" /\ c.n = next - 1
                       /\ Copying => c \notin held["async"]

Shown ==
  pc # "idle" =>
    \A c \in context \cap turn.added : c.kind = "call" =>
      \/ pc = "tools" /\ c.n = next - 1
      \/ \E r \in context : Answers(r, c)

Chains == ContextLinked /\ SnapshotsLinked /\ AtTools /\ Shown

LEMMA LinkedLive ==
  ASSUME NEW S \in SUBSET Entry, Linked(S)
  PROVE  Linked(Live(S))
BY DEF Linked, Live, Answers, Injected

LEMMA SnapshotsStep ==
  ASSUME Mode, IInv, Linked(context), SnapshotsLinked, [Next]_vars
  PROVE  SnapshotsLinked'
<1> USE DEF compaction, stores
<1>t. /\ TypeOK /\ context \in SUBSET Entry
      /\ compactor \in [Compactors -> {"off", "acquire", "replace", "persist", "save"}]
      /\ held \in [Compactors -> SUBSET Entry]
  BY DEF IInv, TypeOK
<1>1. Linked(Live(context)) /\ Linked({})
  BY <1>t, LinkedLive DEF Linked
<1>2. saving' = saving \/ saving' = {} \/ saving' = Live(context)
  BY StepCases
  DEF Post, TakeBatch, SkipHistory, FetchHistory, RecallMemories, Hear, RecallOne, Think,
      Loop, CatchUp, Skip, Fail, SaySo, Answer, CallTools, AddResults, LogTurn, ReadTurn,
      SaveTurn, Acquire, Replace, ReadToPersist, SaveAndUnlock, Restart, vars
<1>3. \/ db' = db \/ db' = saving
      \/ compactor["async"] = "save" /\ db' = held["async"]
  BY StepCases
  DEF Post, TakeBatch, SkipHistory, FetchHistory, RecallMemories, Hear, RecallOne, Think,
      Loop, CatchUp, Skip, Fail, SaySo, Answer, CallTools, AddResults, LogTurn, ReadTurn,
      SaveTurn, Acquire, Replace, ReadToPersist, SaveAndUnlock, Restart, vars
<1>4. \/ compactor'["async"] # "save"
      \/ compactor["async"] = "save" /\ held' = held
      \/ held'["async"] = Live(context)
  BY StepCases, <1>t
  DEF Post, TakeBatch, SkipHistory, FetchHistory, RecallMemories, Hear, RecallOne, Think,
      Loop, CatchUp, Skip, Fail, SaySo, Answer, CallTools, AddResults, LogTurn, ReadTurn,
      SaveTurn, Acquire, Replace, ReadToPersist, SaveAndUnlock, Restart, vars, StartAsync,
      Compactors
<1>5. Linked(saving') /\ Linked(db')
  BY <1>1, <1>2, <1>3 DEF SnapshotsLinked
<1>6. compactor'["async"] = "save" => Linked(held'["async"])
  BY <1>1, <1>4 DEF SnapshotsLinked
<1> QED BY <1>5, <1>6 DEF SnapshotsLinked, Linked

(* What the turn added to the messages there were, it had added before. *)
LEMMA AddedBefore ==
  ASSUME Mode, IInv, [Next]_vars, pc' # "idle", ~ \E last \in 1..MaxEvents : TakeBatch(last),
         NEW c \in context, c \in turn'.added
  PROVE  pc # "idle" /\ c \in turn.added
<1>1. TypeOK /\ c.n < next /\ next \in Nat
  BY DEF IInv, TypeOK, AllGenuine, Genuine
<1>2. pc # "idle" /\ (Grown \/ ((Same \/ Shrunk) /\ next' = next))
  BY <1>1, TurnChanges
<1>3. CASE Grown
  <2>1. PICK e \in Entry :
          /\ e.n = next
          /\ turn'.added = IF Injected(e) THEN turn.added ELSE turn.added \cup {e}
    BY <1>3 DEF Grown
  <2>2. c # e
    BY <1>1, <2>1
  <2> QED BY <1>2, <2>1, <2>2
<1> QED BY <1>2, <1>3 DEF Same, Shrunk

LEMMA ChainStep ==
  ASSUME Mode, IInv, Chains, [Next]_vars
  PROVE  ContextLinked' /\ AtTools' /\ Shown'
<1> USE DEF compaction, stores
<1>t. /\ TypeOK /\ TypeOK' /\ ContextLinked /\ AtTools /\ Shown /\ SnapshotsLinked
      /\ compactor \in [Compactors -> {"off", "acquire", "replace", "persist", "save"}]
      /\ held \in [Compactors -> SUBSET Entry]
      /\ context \subseteq Entry /\ next \in Nat
      /\ \A e \in context : e.n < next
      /\ Copying => held["async"] \subseteq context
  BY TypeStep DEF IInv, TypeOK, AllGenuine, Genuine, Chains, CopyIsPrefix, Copying
<1>a. ASSUME NEW e \in Entry, Appended(e), compactor' = compactor, held' = held,
             e.kind = "result" =>
               \E c \in context : Answers(e, c) /\ (Copying => c \notin held["async"])
      PROVE  ContextLinked'
  <2>1. context' = context \cup {e}
    BY <1>a DEF Appended
  <2>2. Linked(context)'
    BY <1>a, <1>t, <2>1 DEF ContextLinked, Linked
  <2>3. Copying => Linked(context' \ held["async"])
    BY <1>a, <1>t, <2>1 DEF ContextLinked, Linked
  <2> QED BY <1>a, <2>2, <2>3 DEF ContextLinked, Copying, Linked
<1>1. CASE AddResults
  <2> DEFINE r == [n |-> next, kind |-> "result", channel |-> TurnChannel, ref |-> next - 1]
  <2>1. TurnChannel \in Channel
    BY <1>t, <1>1, TurnInChannel DEF AddResults
  <2>2. r \in Entry /\ r.kind = "result" /\ r.ref = next - 1 /\ r.n = next
    BY <2>1, <1>t DEF TypeOK, Entry, Kind
  <2>3. /\ context' = context \cup {r} /\ next' = next + 1 /\ pc = "tools" /\ pc' # "tools"
        /\ compactor' = compactor /\ held' = held
    BY <1>1 DEF AddResults
  <2> HIDE DEF r
  <2>4. PICK c \in context : /\ c.kind = "call" /\ c.n = next - 1
                             /\ Copying => c \notin held["async"]
    BY <1>t, <2>3 DEF AtTools
  <2>5. Answers(r, c) /\ Appended(r)
    BY <1>t, <2>2, <2>3, <2>4 DEF Answers, Appended
  <2>6. ContextLinked'
    BY <1>a, <2>2, <2>3, <2>4, <2>5
  <2>7. ASSUME pc' # "idle", NEW d \in context', d \in turn'.added, d.kind = "call"
        PROVE  \E x \in context' : Answers(x, d)
    <3>1. d \in context
      BY <2>2, <2>3, <2>7
    <3>2. ~ \E last \in 1..MaxEvents : TakeBatch(last)
      BY <2>3 DEF TakeBatch
    <3>3. d \in turn.added
      BY <2>7, <3>1, <3>2, AddedBefore
    <3>4. CASE d.n = next - 1
      <4>1. Answers(r, d)
        BY <1>t, <2>2, <2>7, <3>4 DEF Answers
      <4> QED BY <2>3, <4>1
    <3>5. CASE \E x \in context : Answers(x, d)
      BY <2>3, <3>5
    <3> QED BY <1>t, <2>3, <2>7, <3>1, <3>3, <3>4, <3>5 DEF Shown
  <2>8. AtTools' /\ Shown'
    BY <2>3, <2>7 DEF AtTools, Shown
  <2> QED BY <2>6, <2>8
<1>2. CASE CallTools
  <2>1. 0 \in Nat /\ TurnChannel \in Channel /\ "call" \in Kind /\ pc = "complete"
        /\ pc' = "tools" /\ compactor' = compactor /\ held' = held
        /\ Add("call", TurnChannel, 0)
    BY <1>t, <1>2, TurnInChannel DEF CallTools, Kind
  <2>2. PICK e \in Entry : Appended(e) /\ e.kind = "call"
    BY <1>t, <2>1, AddAppends
  <2>3. context' = context \cup {e} /\ e.n = next /\ next' = next + 1 /\ e \notin context
    BY <1>t, <2>2 DEF Appended
  <2>4. ContextLinked'
    BY <1>a, <2>1, <2>2
  <2>5. e \in context' /\ e.n = next' - 1 /\ (Copying => e \notin held["async"])
    BY <1>t, <2>3
  <2>6. AtTools'
    BY <2>1, <2>2, <2>5 DEF AtTools, Copying
  <2>7. ASSUME NEW d \in context', d \in turn'.added, d.kind = "call"
        PROVE  d.n = next' - 1 \/ \E x \in context' : Answers(x, d)
    <3>1. CASE d = e
      BY <2>5, <3>1
    <3>2. CASE d \in context
      <4>1. d \in turn.added
        BY <2>1, <2>7, <3>2, AddedBefore DEF TakeBatch
      <4> QED BY <1>t, <2>1, <2>3, <2>7, <3>2, <4>1 DEF Shown
    <3> QED BY <2>3, <2>7, <3>1, <3>2
  <2>8. Shown'
    BY <2>1, <2>7 DEF Shown
  <2> QED BY <2>4, <2>6, <2>8
(* A message is appended that is neither a call nor a result. *)
<1>b. ASSUME NEW e \in Entry, Appended(e), e.kind \notin {"call", "result"},
             compactor' = compactor, held' = held,
             pc \notin {"idle", "tools"}, pc' \notin {"idle", "tools"}
      PROVE  ContextLinked' /\ AtTools' /\ Shown'
  <2>1. ContextLinked'
    BY <1>a, <1>b
  <2>2. ASSUME NEW d \in context', d \in turn'.added, d.kind = "call"
        PROVE  \E x \in context' : Answers(x, d)
    <3>1. d \in context /\ context \subseteq context'
      BY <1>b, <2>2 DEF Appended
    <3>2. d \in turn.added
      BY <1>b, <2>2, <3>1, AddedBefore DEF TakeBatch
    <3> QED BY <1>t, <1>b, <2>2, <3>1, <3>2 DEF Shown
  <2>3. AtTools' /\ Shown'
    BY <1>b, <2>2 DEF AtTools, Shown
  <2> QED BY <2>1, <2>3
(* The messages stay as they are. *)
<1>d. ASSUME Untouched, pc' = pc \/ {pc, pc'} \cap {"tools"} = {}
      PROVE  Shown'
  <2>1. CASE \E last \in 1..MaxEvents : TakeBatch(last)
    BY <2>1 DEF TakeBatch, NoTurn, Shown
  <2>2. CASE ~ \E last \in 1..MaxEvents : TakeBatch(last)
    <3>1. ASSUME pc' # "idle", NEW d \in context', d \in turn'.added, d.kind = "call"
          PROVE  \/ pc' = "tools" /\ d.n = next' - 1
                 \/ \E x \in context' : Answers(x, d)
      <4>1. pc # "idle" /\ d \in context /\ d \in turn.added
        BY <1>d, <2>2, <3>1, AddedBefore DEF Untouched
      <4> QED BY <1>t, <1>d, <3>1, <4>1 DEF Shown, Untouched
    <3> QED BY <3>1 DEF Shown
  <2> QED BY <2>1, <2>2
<1>e. ASSUME Untouched, pc' = pc \/ {pc, pc'} \cap {"tools"} = {},
             Copying' => Copying /\ held'["async"] = held["async"]
      PROVE  ContextLinked' /\ AtTools' /\ Shown'
  <2>1. ContextLinked'
    BY <1>t, <1>e DEF ContextLinked, Untouched, Linked
  <2>2. AtTools'
    BY <1>t, <1>e DEF AtTools, Untouched
  <2> QED BY <1>d, <1>e, <2>1, <2>2
<1>3. CASE Answer
  <2>1. 0 \in Nat /\ TurnChannel \in Channel /\ "assistant" \in Kind /\ pc = "complete"
        /\ pc' = "reflect" /\ compactor' = compactor /\ held' = held
        /\ Add("assistant", TurnChannel, 0)
    BY <1>t, <1>3, TurnInChannel DEF Answer, Kind
  <2>2. PICK e \in Entry : Appended(e) /\ e.kind = "assistant"
    BY <1>t, <2>1, AddAppends
  <2> QED BY <1>b, <2>1, <2>2
<1>4. CASE RecallMemories \/ Hear \/ \E m \in recall : RecallOne(m)
  <2>1. /\ pc \notin {"idle", "tools"} /\ pc' \notin {"idle", "tools"}
        /\ compactor' = compactor /\ held' = held
    BY <1>4 DEF RecallMemories, Hear, RecallOne
  <2>2. CASE Untouched
    BY <1>e, <2>1, <2>2 DEF Copying
  <2>3. CASE \E e \in Entry : Appended(e) /\ e.kind \notin {"call", "result"}
    BY <1>b, <2>1, <2>3
  <2>4. CASE RecallMemories
    BY <2>2, <2>3, <2>4, MemoryAppends
  <2>5. CASE Hear
    BY <2>2, <2>3, <2>5, HearAppends
  <2>6. CASE \E m \in recall : RecallOne(m)
    BY <2>2, <2>3, <2>6, RecallAppends
  <2> QED BY <1>4, <2>4, <2>5, <2>6
<1>5. CASE Replace("async")
  <2>1. /\ context' = context \ held["async"] /\ compactor["async"] = "replace"
        /\ pc' = pc /\ next' = next /\ turn'.added = turn.added
        /\ compactor'["async"] = "persist"
    <3>1. turn \in Turn
      BY <1>t DEF TypeOK
    <3> QED BY <1>5, <1>t, <3>1, ReplaceDropsCopy DEF Replace, Turn, Compactors
  <2>2. Copying /\ ~Copying'
    BY <2>1 DEF Copying
  <2>3. ContextLinked'
    BY <1>t, <2>1, <2>2 DEF ContextLinked, Linked
  <2>4. AtTools'
    BY <1>t, <2>1, <2>2 DEF AtTools
  <2>5. ASSUME NEW c \in context', NEW r \in context, Answers(r, c) PROVE r \in context'
    <3>1. r \in held["async"] => r.n < c.n
      BY <2>1, <2>5 DEF IInv, CopyIsPrefix
    <3>2. c.n < r.n /\ c.n \in Nat /\ r.n \in Nat
      BY <1>t, <2>1, <2>5 DEF Answers, Entry
    <3> QED BY <2>1, <3>1, <3>2
  <2>6. Shown'
    BY <1>t, <2>1, <2>5 DEF Shown
  <2> QED BY <2>3, <2>4, <2>6
<1>6. CASE Restart
  <2>1. context' = db /\ pc' = "idle" /\ compactor'["async"] = "off"
    BY <1>6 DEF Restart, Compactors
  <2>2. ContextLinked'
    BY <1>t, <2>1 DEF ContextLinked, SnapshotsLinked, Linked, Copying
  <2> QED BY <2>1, <2>2 DEF AtTools, Shown
<1>7. CASE Think \/ Loop
  <2>1. /\ Untouched /\ pc \in {"perceived", "loop"} /\ pc' \in {"complete", "persist"}
    BY <1>7 DEF Think, Loop, Goto, Untouched
  <2>2. CASE UNCHANGED compaction
    BY <1>e, <2>1, <2>2 DEF Copying
  <2>3. CASE held' = [held EXCEPT !["async"] = context]
    <3>1. held'["async"] = context' /\ Linked(context)'
      BY <1>t, <2>1, <2>3 DEF Untouched, Compactors, ContextLinked, Linked
    <3>2. ContextLinked'
      BY <3>1 DEF ContextLinked, Linked
    <3> QED BY <1>d, <2>1, <3>2 DEF AtTools
  <2> QED BY <1>7, <2>2, <2>3 DEF Think, Loop, StartAsync
<1>8. CASE Acquire("async") \/ ReadToPersist("async") \/ SaveAndUnlock("async")
  <2>1. Untouched /\ pc' = pc
    BY <1>8 DEF Acquire, ReadToPersist, SaveAndUnlock, Untouched
  <2>2. Copying' => Copying /\ held'["async"] = held["async"]
    BY <1>t, <1>8 DEF Acquire, ReadToPersist, SaveAndUnlock, Copying, Compactors
  <2> QED BY <1>e, <2>1, <2>2
<1>9. CASE \/ \E c \in Channel, self \in BOOLEAN : Post(c, self)
           \/ \E last \in 1..MaxEvents : TakeBatch(last)
           \/ SkipHistory \/ FetchHistory \/ CatchUp \/ Skip \/ Fail
           \/ LogTurn \/ ReadTurn \/ SaveTurn \/ UNCHANGED vars
  <2>1. compactor' = compactor /\ held' = held
    BY <1>9 DEF Post, TakeBatch, SkipHistory, FetchHistory, CatchUp, Skip, Fail, SaySo,
       LogTurn, ReadTurn, SaveTurn, vars
  <2>2. pc' = pc \/ {pc, pc'} \cap {"tools"} = {}
    BY <1>9 DEF Post, TakeBatch, SkipHistory, FetchHistory, CatchUp, Skip, Fail, SaySo,
       LogTurn, ReadTurn, SaveTurn, Goto, vars
  <2>3. Untouched
    BY <1>9, FetchRemovesNothing DEF Post, TakeBatch, SkipHistory, FetchHistory, CatchUp,
       Skip, Fail, SaySo, LogTurn, ReadTurn, SaveTurn, Untouched, vars
  <2> QED BY <1>e, <2>1, <2>2, <2>3 DEF Copying
<1> QED
  BY <1>1, <1>2, <1>3, <1>4, <1>5, <1>6, <1>7, <1>8, <1>9, StepCases

(* A tool result is never left without its call, and a completion sees the  *)
(* results of all earlier calls of the turn, wherever a compaction, started *)
(* between two completions (buildIterMessages), cuts the messages.          *)
THEOREM CallsKeepResults ==
  ASSUME MaxForced = 0, MaySelfPrompt = FALSE
  PROVE  Spec => []ChainsIntact
<1>1. Mode
  BY DEF Mode
<1>2. Spec => []IInv
  BY <1>1, Invariant
<1>3. Init => Chains
  BY DEF Init, Chains, ContextLinked, SnapshotsLinked, AtTools, Shown, Linked, Copying,
     Compactors
<1>4. IInv /\ Chains /\ [Next]_vars => Chains'
  <2>1. SUFFICES ASSUME IInv, Chains, [Next]_vars PROVE Chains'
    OBVIOUS
  <2>2. Linked(context) /\ SnapshotsLinked
    BY <2>1 DEF Chains, ContextLinked
  <2> QED BY <1>1, <2>1, <2>2, ChainStep, SnapshotsStep DEF Chains
<1>5. Chains => ChainsIntact
  BY DEF Chains, ContextLinked, Shown, Linked, Answers, ChainsIntact
<1> QED BY <1>2, <1>3, <1>4, <1>5, PTL DEF Spec
-----------------------------------------------------------------------------
(* Why nothing is handed over twice, in the same mode: of the live messages, *)
(* those that a compaction has still to hand over differ from all that were *)
(* handed over before, and a message heard later is of a later event.       *)

Known(e) ==
  /\ e.n < next /\ ~Injected(e)
  /\ e.kind = "user" => e.ref <= ingested
  /\ e.kind \in {"assistant", "call"} => e.ref = 0

Distinct(S) ==
  /\ \A e \in S : Known(e)
  /\ \A e, f \in S : e # f => ~SameMessage(e, f)

Remaining ==
  IF compactor["async"] = "replace" THEN Live(context) \ held["async"] ELSE Live(context)

CopiesDistinct ==
  /\ Distinct(Live(context)) /\ Distinct(db) /\ Distinct(saving)
  /\ compactor["async"] = "save" => Distinct(held["async"])

HandedApart ==
  /\ \A f \in handed : Known(f)
  /\ \A e \in Remaining, f \in handed : ~SameMessage(e, f) /\ ~SameMessage(f, e)

Extracts == CopiesDistinct /\ HandedApart

(* A message that a step appends: injected, or new to the conversation.      *)
New(e) ==
  \/ Injected(e)
  \/ e.kind = "user" /\ e.ref = ingested + 1 /\ ingested' = ingested + 1
  \/ e.kind \in {"assistant", "call"} /\ e.ref = 0
  \/ e.kind = "result"

LEMMA NewChanges ==
  ASSUME Mode, IInv, [Next]_vars
  PROVE  \/ Untouched
         \/ \E e \in Entry : Appended(e) /\ New(e)
         \/ Replace("async")
         \/ Restart
<1> USE DEF compaction, stores
<1>1. CASE FetchHistory
  BY <1>1, FetchRemovesNothing DEF FetchHistory, Untouched
<1>2. CASE RecallMemories
  BY <1>2, MemoryAppends DEF New, Injected
<1>3. CASE Hear
  BY <1>3, HearAppends DEF Hear, Trigger, New
<1>4. ASSUME NEW m \in recall, RecallOne(m)
      PROVE  Untouched \/ \E e \in Entry : Appended(e) /\ New(e)
  BY <1>4, RecallAppends DEF New, Injected
<1>5. CASE Answer \/ CallTools \/ AddResults
  BY <1>5, ActAppends DEF New
<1>6. CASE \/ \E c \in Channel, self \in BOOLEAN : Post(c, self)
           \/ \E last \in 1..MaxEvents : TakeBatch(last)
           \/ SkipHistory \/ Think \/ Loop \/ CatchUp \/ Skip \/ Fail
           \/ LogTurn \/ ReadTurn \/ SaveTurn
           \/ Acquire("async") \/ ReadToPersist("async") \/ SaveAndUnlock("async")
           \/ UNCHANGED vars
  BY <1>6
  DEF Untouched, Post, TakeBatch, SkipHistory, Think, Loop, CatchUp, Skip, Fail, SaySo,
      LogTurn, ReadTurn, SaveTurn, Acquire, ReadToPersist, SaveAndUnlock, vars
<1> QED BY <1>1, <1>2, <1>3, <1>4, <1>5, <1>6, StepCases

LEMMA IngestedGrows ==
  ASSUME Mode, IInv, [Next]_vars
  PROVE  ingested \in Nat /\ ingested' \in Nat /\ ingested <= ingested'
<1> USE DEF compaction, stores
<1>t. /\ TypeOK /\ TypeOK' /\ ingested \in 0..Len(posted) /\ Len(posted) \in Nat
      /\ ingested' \in 0..Len(posted')
  BY TypeStep DEF IInv, TypeOK
<1>1. ingested' \in {ingested, ingested + 1, Len(posted)}
  BY StepCases
  DEF Post, TakeBatch, SkipHistory, FetchHistory, RecallMemories, Hear, RecallOne, Think,
      Loop, CatchUp, Skip, Fail, SaySo, Answer, CallTools, AddResults, LogTurn, ReadTurn,
      SaveTurn, Acquire, Replace, ReadToPersist, SaveAndUnlock, Restart, vars, Trigger
<1> QED BY <1>t, <1>1

LEMMA KnownStays ==
  ASSUME Mode, IInv, [Next]_vars, NEW e \in Entry, Known(e)
  PROVE  Known(e)'
<1>1. next \in Nat /\ next' \in Nat /\ next <= next'
  BY Growth DEF IInv, TypeOK
<1>2. e.n \in Nat /\ e.ref \in Nat
  BY DEF Entry
<1>3. e.n < next'
  BY <1>1, <1>2 DEF Known
<1>4. e.kind = "user" => e.ref <= ingested'
  BY <1>2, IngestedGrows DEF Known
<1> QED BY <1>3, <1>4 DEF Known

LEMMA DistinctStays ==
  ASSUME Mode, IInv, [Next]_vars, NEW S \in SUBSET Entry, Distinct(S)
  PROVE  Distinct(S)'
<1>1. \A e \in S : Known(e)'
  BY KnownStays DEF Distinct
<1> QED BY <1>1 DEF Distinct

(* A new message is none of those already known. *)
LEMMA NewApart ==
  ASSUME IInv, NEW e \in Entry, e.n = next, New(e), ~Injected(e), NEW f \in Entry, Known(f)
  PROVE  ~SameMessage(e, f) /\ ~SameMessage(f, e)
<1>1. ingested \in Nat /\ next \in Nat /\ f.n \in Nat /\ f.ref \in Nat /\ f.kind \in Kind
  BY DEF IInv, TypeOK, Entry
<1>2. e # f
  BY <1>1 DEF Known
<1>3. CASE e.kind = "user" /\ e.ref = ingested + 1
  BY <1>1, <1>2, <1>3 DEF Known, SameMessage, Kind, Injected
<1>4. CASE e.kind \in {"assistant", "call"} /\ e.ref = 0
  BY <1>2, <1>4 DEF SameMessage
<1>5. CASE e.kind = "result"
  BY <1>2, <1>5 DEF SameMessage
<1> QED BY <1>3, <1>4, <1>5 DEF New

LEMMA NewKnown ==
  ASSUME Mode, IInv, [Next]_vars, NEW e \in Entry, Appended(e), New(e), ~Injected(e)
  PROVE  Known(e)'
<1>1. next \in Nat /\ ingested \in Nat /\ ingested' \in Nat
  BY IngestedGrows DEF IInv, TypeOK
<1>2. e.n < next' /\ ~Injected(e)
  BY <1>1 DEF Appended
<1>3. e.kind = "user" => e.ref <= ingested'
  BY <1>1 DEF New
<1>4. e.kind \in {"assistant", "call"} => e.ref = 0
  BY DEF New
<1> QED BY <1>2, <1>3, <1>4 DEF Known

LEMMA CopiesStep ==
  ASSUME Mode, IInv, CopiesDistinct, [Next]_vars
  PROVE  CopiesDistinct'
<1> USE DEF compaction, stores
<1>t. /\ TypeOK /\ context \in SUBSET Entry /\ Live(context) \in SUBSET Entry
      /\ db \in SUBSET Entry /\ saving \in SUBSET Entry /\ held["async"] \in SUBSET Entry
      /\ compactor \in [Compactors -> {"off", "acquire", "replace", "persist", "save"}]
      /\ held \in [Compactors -> SUBSET Entry]
  BY DEF IInv, TypeOK, Live, Compactors
<1>d. ASSUME NEW S \in SUBSET Entry, Distinct(S) PROVE Distinct(S)'
  BY <1>d, DistinctStays
<1>e. ASSUME NEW S \in SUBSET Entry, Distinct(S), NEW T \in SUBSET Entry, T \subseteq S
      PROVE  Distinct(T)'
  <2>1. Distinct(T)
    BY <1>e DEF Distinct
  <2> QED BY <1>d, <2>1
<1>1. \A S \in {{}, Live(context), db, saving} : S \in SUBSET Entry /\ Distinct(S)
  BY <1>t DEF CopiesDistinct, Distinct
<1>2. Distinct(Live(context))'
  <2>1. CASE Untouched
    <3>1. PICK S \in SUBSET Entry : S = Live(context)
      BY <1>t
    <3>2. Distinct(S)'
      BY <1>1, <1>d, <3>1
    <3>3. Live(context)' = S
      BY <2>1, <3>1 DEF Untouched
    <3> QED BY <3>2, <3>3 DEF Distinct
  <2>2. ASSUME NEW e \in Entry, Appended(e), New(e) PROVE Distinct(Live(context))'
    <3>1. PICK S \in SUBSET Entry : S = Live(context)
      BY <1>t
    <3>2. Distinct(S)' /\ Distinct(S)
      BY <1>1, <1>d, <3>1
    <3>3. Live(context)' = IF Injected(e) THEN S ELSE S \cup {e}
      BY <2>2, <3>1 DEF Live, Appended
    <3>4. CASE Injected(e)
      BY <3>2, <3>3, <3>4 DEF Distinct
    <3>5. CASE ~Injected(e)
      <4>1. Known(e)' /\ \A f \in S : ~SameMessage(e, f) /\ ~SameMessage(f, e)
        BY <2>2, <3>2, <3>5, NewKnown, NewApart DEF Distinct, Appended
      <4> QED BY <3>2, <3>3, <3>5, <4>1 DEF Distinct
    <3> QED BY <3>4, <3>5
  <2>3. CASE Replace("async")
    <3>1. PICK S \in SUBSET Entry : S = Live(context')
      BY <1>t, <2>3, ReplaceDropsCopy DEF Live
    <3>2. S \subseteq Live(context)
      BY <2>3, <3>1, ReplaceDropsCopy DEF Live
    <3>3. Distinct(S)'
      BY <1>1, <1>e, <1>t, <3>2
    <3> QED BY <3>1, <3>3 DEF Distinct
  <2>4. CASE Restart
    <3>1. PICK S \in SUBSET Entry : S = Live(context')
      BY <1>t, <2>4 DEF Live, Restart
    <3>2. S \subseteq db
      BY <2>4, <3>1 DEF Live, Restart
    <3>3. Distinct(S)'
      BY <1>1, <1>e, <1>t, <3>2
    <3> QED BY <3>1, <3>3 DEF Distinct
  <2> QED BY <2>1, <2>2, <2>3, <2>4, NewChanges
<1>3. Distinct(saving)'
  <2>1. saving' \in {{}, Live(context), db, saving}
    BY StepCases
    DEF Post, TakeBatch, SkipHistory, FetchHistory, RecallMemories, Hear, RecallOne, Think,
        Loop, CatchUp, Skip, Fail, SaySo, Answer, CallTools, AddResults, LogTurn, ReadTurn,
        SaveTurn, Acquire, Replace, ReadToPersist, SaveAndUnlock, Restart, vars
  <2>2. PICK S \in SUBSET Entry : S = saving' /\ Distinct(S)
    BY <1>1, <2>1
  <2>3. Distinct(S)'
    BY <1>d, <2>2
  <2> QED BY <2>2, <2>3 DEF Distinct
<1>4. Distinct(db)'
  <2>1. \/ db' \in {{}, Live(context), db, saving}
        \/ compactor["async"] = "save" /\ db' = held["async"]
    BY StepCases
    DEF Post, TakeBatch, SkipHistory, FetchHistory, RecallMemories, Hear, RecallOne, Think,
        Loop, CatchUp, Skip, Fail, SaySo, Answer, CallTools, AddResults, LogTurn, ReadTurn,
        SaveTurn, Acquire, Replace, ReadToPersist, SaveAndUnlock, Restart, vars
  <2>2. PICK S \in SUBSET Entry : S = db' /\ Distinct(S)
    BY <1>1, <1>t, <2>1 DEF CopiesDistinct
  <2>3. Distinct(S)'
    BY <1>d, <2>2
  <2> QED BY <2>2, <2>3 DEF Distinct
<1>5. compactor'["async"] = "save" => Distinct(held["async"])'
  <2>1. \/ compactor'["async"] # "save"
        \/ compactor["async"] = "save" /\ held' = held
        \/ held'["async"] = Live(context)
    BY StepCases, <1>t
    DEF Post, TakeBatch, SkipHistory, FetchHistory, RecallMemories, Hear, RecallOne, Think,
        Loop, CatchUp, Skip, Fail, SaySo, Answer, CallTools, AddResults, LogTurn, ReadTurn,
        SaveTurn, Acquire, Replace, ReadToPersist, SaveAndUnlock, Restart, vars, StartAsync,
        Compactors
  <2>2. SUFFICES ASSUME compactor'["async"] = "save" PROVE Distinct(held["async"])'
    OBVIOUS
  <2>3. PICK S \in SUBSET Entry : S = held'["async"] /\ Distinct(S)
    BY <1>1, <1>t, <2>1, <2>2 DEF CopiesDistinct
  <2>4. Distinct(S)'
    BY <1>d, <2>3
  <2> QED BY <2>3, <2>4 DEF Distinct
<1> QED BY <1>2, <1>3, <1>4, <1>5 DEF CopiesDistinct

LEMMA HandedStep ==
  ASSUME Mode, IInv, Extracts, [Next]_vars
  PROVE  HandedApart'
<1> USE DEF compaction, stores
<1>t. /\ TypeOK /\ context \in SUBSET Entry /\ Live(context) \in SUBSET Entry
      /\ handed \in SUBSET Entry /\ held["async"] \in SUBSET Entry
      /\ compactor \in [Compactors -> {"off", "acquire", "replace", "persist", "save"}]
      /\ held \in [Compactors -> SUBSET Entry]
      /\ \A e \in Live(context) : Known(e)
      /\ HandedApart /\ Distinct(Live(context))
      /\ Remaining \subseteq Live(context)
      /\ compactor["async"] \in {"acquire", "replace"} => held["async"] \subseteq context
  BY DEF IInv, TypeOK, Live, Compactors, Extracts, CopiesDistinct, Distinct, CopyIsPrefix,
     Remaining
<1>k. \A f \in handed : Known(f) /\ Known(f)'
  BY <1>t, KnownStays DEF HandedApart
(* Nothing is handed over, and nothing but e is new among what remains. *)
<1>a. ASSUME handed' = handed,
             \A e \in Remaining' : e \in Remaining \/ (e \in Entry /\ e.n = next /\ New(e) /\ ~Injected(e))
      PROVE  HandedApart'
  <2>1. ASSUME NEW e \in Remaining', NEW f \in handed
        PROVE  ~SameMessage(e, f) /\ ~SameMessage(f, e)
    <3>1. CASE e \in Remaining
      BY <1>t, <2>1, <3>1 DEF HandedApart
    <3>2. CASE e \in Entry /\ e.n = next /\ New(e) /\ ~Injected(e)
      BY <1>t, <1>k, <2>1, <3>2, NewApart
    <3> QED BY <1>a, <2>1, <3>1, <3>2
  <2> QED BY <1>a, <1>k, <2>1 DEF HandedApart
<1>1. CASE Acquire("async")
  <2>1. /\ compactor["async"] = "acquire" /\ compactor'["async"] = "replace"
        /\ handed' = handed \cup Live(held["async"]) /\ context' = context /\ held' = held
    BY <1>1, <1>t DEF Acquire, Compactors
  <2>2. Remaining = Live(context) /\ Remaining' = Live(context) \ held["async"]
    BY <2>1 DEF Remaining
  <2>3. Live(held["async"]) \subseteq Live(context)
    BY <1>t, <2>1 DEF Live
  <2>4. \A f \in handed' : Known(f)'
    BY <1>t, <1>k, <2>1, <2>3, KnownStays
  <2>5. ASSUME NEW e \in Remaining', NEW f \in handed'
        PROVE  ~SameMessage(e, f) /\ ~SameMessage(f, e)
    <3>1. CASE f \in handed
      BY <1>t, <2>2, <2>5, <3>1 DEF HandedApart
    <3>2. CASE f \in Live(held["async"])
      <4>1. f \in Live(context) /\ e \in Live(context) /\ e # f
        BY <2>2, <2>3, <2>5, <3>2 DEF Live
      <4> QED BY <1>t, <4>1 DEF Distinct
    <3> QED BY <2>1, <2>5, <3>1, <3>2
  <2> QED BY <2>4, <2>5 DEF HandedApart
<1>2. CASE Restart
  BY <1>2 DEF Restart, HandedApart
<1>3. CASE Replace("async")
  <2>1. /\ compactor["async"] = "replace" /\ compactor'["async"] = "persist"
        /\ handed' = handed /\ context' = context \ held["async"]
    BY <1>3, <1>t, ReplaceDropsCopy DEF Replace, Compactors
  <2>2. Remaining' = Remaining
    BY <2>1 DEF Remaining, Live
  <2> QED BY <1>a, <2>1, <2>2
<1>4. CASE Think \/ Loop \/ ReadToPersist("async") \/ SaveAndUnlock("async")
  <2>1. context' = context /\ handed' = handed
    BY <1>4 DEF Think, Loop, ReadToPersist, SaveAndUnlock
  <2>2. \/ compactor' = compactor /\ held' = held
        \/ compactor["async"] # "replace"
    BY <1>4, <1>t DEF Think, Loop, ReadToPersist, SaveAndUnlock, StartAsync
  <2>3. Remaining' \subseteq Remaining
    BY <2>1, <2>2 DEF Remaining
  <2> QED BY <1>a, <2>1, <2>3
<1>5. CASE \/ \E c \in Channel, self \in BOOLEAN : Post(c, self)
           \/ \E last \in 1..MaxEvents : TakeBatch(last)
           \/ SkipHistory \/ FetchHistory \/ RecallMemories \/ Hear
           \/ \E m \in recall : RecallOne(m)
           \/ CatchUp \/ Skip \/ Fail \/ Answer \/ CallTools \/ AddResults
           \/ LogTurn \/ ReadTurn \/ SaveTurn \/ UNCHANGED vars
  <2>1. compactor' = compactor /\ held' = held /\ handed' = handed
    BY <1>5
    DEF Post, TakeBatch, SkipHistory, FetchHistory, RecallMemories, Hear, RecallOne,
        CatchUp, Skip, Fail, SaySo, Answer, CallTools, AddResults, LogTurn, ReadTurn,
        SaveTurn, vars
  <2>2. CASE Untouched
    <3>1. Remaining' = Remaining
      BY <2>1, <2>2 DEF Remaining, Untouched
    <3> QED BY <1>a, <2>1, <3>1
  <2>3. ASSUME NEW e \in Entry, Appended(e), New(e) PROVE HandedApart'
    <3>1. \A f \in Remaining' : f \in Remaining \/ (f = e /\ ~Injected(e))
      BY <2>1, <2>3 DEF Remaining, Appended, Live
    <3> QED BY <1>a, <2>1, <2>3, <3>1 DEF Appended
  <2> QED BY <1>2, <1>3, <2>2, <2>3, NewChanges
<1> QED BY <1>1, <1>2, <1>3, <1>4, <1>5, StepCases

(* Long-term memory gets a message once from the background compactions of a *)
(* process: neither the next one nor the history that a platform returns    *)
(* brings it back (filterOutInjectedHistory), for any number of channels    *)
(* and events, without forced compactions and self prompts.                 *)
THEOREM HandedOnce ==
  ASSUME MaxForced = 0, MaySelfPrompt = FALSE
  PROVE  Spec => []ExtractsOnce
<1>1. Mode
  BY DEF Mode
<1>2. Spec => []IInv
  BY <1>1, Invariant
<1>3. Init => Extracts
  BY DEF Init, Extracts, CopiesDistinct, HandedApart, Distinct, Live, Compactors
<1>4. IInv /\ Extracts /\ [Next]_vars => Extracts'
  <2>1. SUFFICES ASSUME IInv, Extracts, [Next]_vars PROVE Extracts'
    OBVIOUS
  <2> QED BY <1>1, <2>1, CopiesStep, HandedStep DEF Extracts
<1>5. IInv /\ Extracts => ExtractsOnce
  <2>1. SUFFICES ASSUME IInv, Extracts, NEW j \in Compactors, compactor[j] = "acquire",
                        NEW e \in Live(held[j])
                 PROVE  \A f \in handed : ~SameMessage(e, f)
    BY DEF ExtractsOnce
  <2>2. j = "async" /\ compactor["forced"] = "off"
    BY <2>1 DEF IInv, OnlyAsync, Compactors
  <2>3. held[j] \subseteq context
    BY <2>1, <2>2 DEF IInv, CopyIsPrefix
  <2>4. e \in Remaining
    BY <2>1, <2>2, <2>3 DEF Remaining, Live
  <2> QED BY <2>1, <2>2, <2>4 DEF Extracts, HandedApart, Compactors
<1> QED BY <1>2, <1>3, <1>4, <1>5, PTL DEF Spec
=============================================================================
