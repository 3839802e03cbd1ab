---------------------------- MODULE Hearing_proof ----------------------------
(***************************************************************************)
(* Proofs about Hearing: types; what is heard of a user is in order; an    *)
(* event is attributed to whoever said its words; no word is heard twice;  *)
(* no word vanishes without a reason.                                      *)
(***************************************************************************)
EXTENDS Hearing, SequenceFacts, TLAPS
-----------------------------------------------------------------------------
(* The detector.                                                           *)

LEMMA FreshType == Fresh \in Detector /\ Fresh.words = <<>>
BY LimitsOK DEF Fresh, Detector, NoSilence

LEMMA VadOfType == ASSUME NEW s \in Speaker PROVE VadOf(s) \in Vad
BY DEF Speaker, Vad, VadOf

LEMMA LimitType ==
    ASSUME NEW s \in Speaker
    PROVE  Limit(s).silence \in Nat /\ Limit(s).min \in Nat /\ Limit(s).max \in Nat
BY LimitsOK DEF Limit

LEMMA AtMostType == ASSUME NEW n \in Nat PROVE AtMost(n) \in 0..Long
BY LimitsOK DEF AtMost

LEMMA ElapseType ==
    ASSUME NEW v \in Detector, NEW dt \in Nat
    PROVE  Elapse(v, dt) \in Detector /\ Elapse(v, dt).words = v.words
                                      /\ Elapse(v, dt).speaking = v.speaking
<1>1. v.age \in Nat /\ v.still \in -1..Long
  BY LimitsOK DEF Detector
<1>2. AtMost(v.age + dt) \in 0..Long
  BY <1>1, AtMostType
<1>3. (IF v.still = NoSilence THEN v.still ELSE AtMost(v.still + dt)) \in -1..Long
  <2>1. CASE v.still = NoSilence BY <2>1, <1>1
  <2>2. CASE v.still # NoSilence
    <3>1. v.still + dt \in Nat BY <2>2, <1>1, LimitsOK DEF NoSilence
    <3>2. AtMost(v.still + dt) \in -1..Long BY <3>1, AtMostType, LimitsOK
    <3> QED BY <3>2, <2>2
  <2> QED BY <2>1, <2>2
<1> QED
  BY <1>2, <1>3 DEF Elapse, Detector

LEMMA StartType ==
    ASSUME NEW v \in Detector, NEW n \in Nat
    PROVE  Start(v, n) \in Detector /\ Start(v, n).words \in {v.words, <<>>}
<1>1. [v EXCEPT !.speaking = TRUE, !.age = 0, !.words = <<>>] \in Detector
  <2>1. 0 \in 0..Long /\ <<>> \in Seq(Nat) /\ TRUE \in BOOLEAN
    BY LimitsOK
  <2> QED BY <2>1 DEF Detector
<1>2. [v EXCEPT !.speaking = TRUE, !.age = 0, !.words = <<>>].words = <<>>
  BY DEF Detector
<1> QED
  BY <1>1, <1>2 DEF Start

LEMMA AddType ==
    ASSUME NEW v \in Detector, NEW words \in Seq(Nat), NEW n \in Nat
    PROVE  /\ Add(v, words, n) \in Detector
           /\ Add(v, words, n).words = IF n = Quiet THEN words ELSE Append(words, n)
<1>1. CASE n # Quiet
  <2>1. Append(words, n) \in Seq(Nat) /\ NoSilence \in -1..Long
    BY LimitsOK DEF NoSilence
  <2> QED BY <1>1, <2>1 DEF Add, Detector
<1>2. CASE n = Quiet
  <2>1. (IF v.still = NoSilence THEN 0 ELSE v.still) \in -1..Long
    BY LimitsOK DEF Detector
  <2> QED BY <1>2, <2>1 DEF Add, Detector
<1> QED
  BY <1>1, <1>2

\* Of one frame: what the detector is afterwards, what was cut.
LEMMA Processed ==
    ASSUME TypeOK, NEW s \in Speaker, NEW v \in Detector, NEW n \in Nat, Process(s, v, n)
    PROVE  /\ vad' \in [Vad -> Detector]
           /\ vad'[VadOf(s)] \in {v, Fresh}
           /\ \A k \in Vad : k # VadOf(s) => vad'[k] = vad[k]
           /\ tasks' = tasks \/
              /\ tasks' = tasks \cup {[by |-> s, session |-> Session(s), words |-> v.words,
                                       at |-> "stt"]}
              /\ vad'[VadOf(s)] = Fresh
           /\ tasks' \subseteq Task
           /\ lost' \subseteq Nat
<1>1. VadOf(s) \in Vad /\ Session(s) \in Nat
  BY VadOfType DEF TypeOK, Session, Hub
<1>2. Range(v.words) \subseteq Nat
  BY DEF Detector, Range
<1>3. CASE GoesOn(s, v, n)
  BY <1>1, <1>3 DEF GoesOn, TypeOK
<1>4. CASE TooShort(s, v, n)
  BY <1>1, <1>2, <1>4, FreshType DEF TooShort, TypeOK, Ended
<1>5. CASE Ends(s, v, n)
  <2>1. [by |-> s, session |-> Session(s), words |-> v.words, at |-> "stt"] \in Task
    BY <1>1 DEF Task, Detector
  <2> QED BY <1>1, <1>5, <2>1, FreshType DEF Ends, TypeOK, Ended
<1> QED
  BY <1>3, <1>4, <1>5 DEF Process
-----------------------------------------------------------------------------
(* Types.                                                                  *)

LEMMA SaysType ==
    ASSUME TypeOK, NEW s \in Speaker, NEW n, Says(s, n)
    PROVE  /\ n \in Nat
           /\ spoken' \in Seq(Word)
           /\ spoken' = spoken \/
              /\ n = Len(spoken) + 1
              /\ spoken' = Append(spoken, [by |-> s, session |-> Session(s)])
<1>1. Session(s) \in Nat
  BY DEF TypeOK, Session, Hub
<1>2. [by |-> s, session |-> Session(s)] \in Word
  BY <1>1 DEF Word
<1>3. CASE n = Quiet /\ spoken' = spoken
  BY <1>3 DEF TypeOK, Quiet
<1>4. CASE n = Len(spoken) + 1 /\ spoken' = Append(spoken, [by |-> s, session |-> Session(s)])
  BY <1>2, <1>4 DEF TypeOK
<1> QED
  BY <1>3, <1>4 DEF Says

LEMMA ListenType ==
    ASSUME TypeOK, NEW s \in User \cup Web, NEW n, NEW dt \in 0..MaxGap, Listen(s, n, dt)
    PROVE  TypeOK'
<1>1. s \in Speaker /\ n \in Nat
  BY SaysType DEF Listen, Speaker
<1> DEFINE v == Start(Elapse(vad[VadOf(s)], dt), n)
<1>2. v \in Detector
  BY <1>1, VadOfType, ElapseType, StartType, Bounds DEF TypeOK
<1>3. Add(v, v.words, n) \in Detector
  BY <1>1, <1>2, AddType DEF Detector
<1>4. Process(s, Add(v, v.words, n), n)
  BY DEF Listen
<1>5. vad' \in [Vad -> Detector] /\ tasks' \subseteq Task /\ lost' \subseteq Nat
  BY <1>1, <1>3, <1>4, Processed
<1>6. spoken' \in Seq(Word)
  BY <1>1, SaysType DEF Listen
<1> QED
  BY <1>5, <1>6 DEF TypeOK, Listen, connection, bus

LEMMA EnterType ==
    ASSUME TypeOK, NEW d \in Device, NEW n, NEW dt \in 0..MaxGap, Enter(d, n, dt)
    PROVE  TypeOK'
<1>1. d \in Speaker /\ Esp \in Vad /\ n \in Nat
  BY SaysType DEF Enter, Speaker, Vad
<1> DEFINE v == Start(Elapse(vad[Esp], dt), n)
<1>2. v \in Detector
  BY <1>1, ElapseType, StartType, Bounds DEF TypeOK
<1>3. [busy |-> TRUE, n |-> n, words |-> v.words] \in Frame
  BY <1>1, <1>2 DEF Frame, Detector
<1>4. spoken' \in Seq(Word)
  BY <1>1, SaysType DEF Enter
<1>5. vad' = [vad EXCEPT ![Esp] = v]
      /\ frame' = [frame EXCEPT ![d] = [busy |-> TRUE, n |-> n, words |-> v.words]]
  BY DEF Enter
<1>6. vad' \in [Vad -> Detector] /\ frame' \in [Device -> Frame]
  BY <1>2, <1>3, <1>5 DEF TypeOK
<1> QED
  BY <1>4, <1>6 DEF TypeOK, Enter, connection, bus

\* What Rest makes of a frame.
LEMMA Rested ==
    ASSUME TypeOK, NEW d \in Device, Rest(d)
    PROVE  \E words \in {frame[d].words, vad[Esp].words} :
               LET v == Add(vad[Esp], words, frame[d].n)
               IN /\ frame[d].n \in Nat /\ words \in Seq(Nat) /\ v \in Detector
                  /\ Process(d, v, frame[d].n)
<1>1. d \in Speaker /\ Esp \in Vad /\ frame[d].n \in Nat /\ vad[Esp] \in Detector
      /\ frame[d].words \in Seq(Nat) /\ vad[Esp].words \in Seq(Nat)
  BY DEF TypeOK, Speaker, Vad, Frame, Detector
<1>2. PICK words \in {frame[d].words, vad[Esp].words} :
          Process(d, Add(vad[Esp], words, frame[d].n), frame[d].n)
  BY DEF Rest
<1>3. words \in Seq(Nat) /\ Add(vad[Esp], words, frame[d].n) \in Detector
  BY <1>1, <1>2, AddType
<1> QED
  BY <1>1, <1>2, <1>3

LEMMA RestType == ASSUME TypeOK, NEW d \in Device, Rest(d) PROVE TypeOK'
<1>1. PICK words \in {frame[d].words, vad[Esp].words} :
          /\ frame[d].n \in Nat /\ Add(vad[Esp], words, frame[d].n) \in Detector
          /\ Process(d, Add(vad[Esp], words, frame[d].n), frame[d].n)
  BY Rested
<1>2. d \in Speaker
  BY DEF Speaker
<1>3. vad' \in [Vad -> Detector] /\ tasks' \subseteq Task /\ lost' \subseteq Nat
  BY <1>1, <1>2, Processed
<1>4. Idle \in Frame
  BY DEF Idle, Frame, Quiet
<1>5. frame' \in [Device -> Frame]
  BY <1>4 DEF TypeOK, Rest
<1> QED
  BY <1>3, <1>5 DEF TypeOK, Rest, connection, bus

\* Words that are discarded are numbers.
LEMMA LostType == ASSUME TypeOK, NEW k \in Vad PROVE Range(vad[k].words) \subseteq Nat
BY DEF TypeOK, Detector, Range

LEMMA CloseType ==
    ASSUME TypeOK, Close
    PROVE  vad' \in [Vad -> Detector] /\ lost' \subseteq Nat /\ live' = {} /\ away' = FALSE
<1>1. vad' \in [Vad -> Detector]
  BY FreshType DEF Close, TypeOK
<1>2. lost' \subseteq Nat
  <2>1. User \subseteq Vad BY DEF Vad
  <2> QED BY <2>1, LostType DEF Close, TypeOK
<1> QED
  BY <1>1, <1>2 DEF Close, TypeOK

LEMMA HandleType ==
    ASSUME TypeOK, NEW t \in tasks, Handle(t) PROVE TypeOK'
<1>1. t \in Task /\ t.by \in Speaker /\ t.session \in Nat /\ t.words \in Seq(Nat)
  BY DEF TypeOK, Task
<1>2. Range(t.words) \subseteq Nat
  BY <1>1 DEF Range
<1>3. \A step \in {"stt", "reset", "publish"} : [t EXCEPT !.at = step] \in Task
  BY <1>1 DEF Task
<1>4. Event(t) \in Utterance
  <2>1. Source(t.by) \in {"discord", "web", "device"} /\ Name(t.by) \in User \cup {Owner}
    BY <1>1 DEF Source, Name
  <2> QED BY <1>1, <2>1 DEF Event, Utterance
<1>5. CASE Transcribed(t)
  BY <1>3, <1>5 DEF Transcribed, Goto, TypeOK, connection, bus
<1>6. CASE NotTranscribed(t)
  BY <1>2, <1>6 DEF NotTranscribed, Drop, TypeOK, connection, bus
<1>7. CASE Reset(t)
  <2>1. Esp \in Vad BY DEF Vad
  <2> QED
    BY <1>3, <1>7, <2>1, LostType, FreshType DEF Reset, Goto, TypeOK, connection, bus
<1>8. CASE Publish(t)
  <2>1. published' \in Seq(Utterance) /\ Len(published') = Len(published) + 1
    BY <1>4, <1>8 DEF Publish, TypeOK
  <2>2. taken' \in 0..Len(published') /\ Len(published') - taken' <= BusCap
    BY <1>8, <2>1, Bounds DEF Publish, Room, TypeOK
  <2> QED BY <1>8, <2>1, <2>2 DEF Publish, Drop, TypeOK, connection
<1> QED
  BY <1>5, <1>6, <1>7, <1>8 DEF Handle

LEMMA ConnectionType ==
    ASSUME TypeOK, JoinBegin \/ JoinEnds \/ JoinFails \/ Leave \/ Kick \/ Move PROVE TypeOK'
<1>1. CASE JoinBegin
  <2>1. CASE current # 0
    <3>1. vad' \in [Vad -> Detector] /\ lost' \subseteq Nat /\ live' = {} /\ away' = FALSE
      BY <1>1, <2>1, CloseType DEF JoinBegin
    <3>2. joining' = TRUE /\ current' = 0 /\ present' = FALSE
          /\ UNCHANGED <<frame, sessions, tasks, published, taken, spoken>>
      BY <1>1, <2>1 DEF JoinBegin, bus
    <3>3. joining' \in BOOLEAN /\ present' \in BOOLEAN
      BY <3>2
    <3>4. live' \subseteq {current'} \ {0} /\ current' \in 0..sessions'
      BY <3>1, <3>2 DEF TypeOK
    <3> QED BY <3>1, <3>2, <3>3, <3>4 DEF TypeOK
  <2>2. CASE current = 0
    BY <1>1, <2>2 DEF JoinBegin, NotClosed, TypeOK, bus
  <2> QED BY <2>1, <2>2
<1>2. CASE JoinEnds
  <2>1. live = {} /\ sessions + 1 \in 0..sessions + 1 /\ sessions + 1 # 0 /\ sessions \in Nat
    BY <1>2 DEF JoinEnds, TypeOK
  <2>2. current' = sessions + 1 /\ sessions' = sessions + 1 /\ live' = {sessions + 1}
    BY <1>2, <2>1 DEF JoinEnds
  <2>3. joining' = FALSE /\ present' = TRUE /\ away' = away
        /\ UNCHANGED <<vad, frame, tasks, published, taken, spoken, lost>>
    BY <1>2 DEF JoinEnds, bus
  <2>4. joining' \in BOOLEAN /\ present' \in BOOLEAN /\ away' \in BOOLEAN
    BY <2>3, Zenon DEF TypeOK
  <2>5. live' \subseteq {current'} \ {0} /\ current' \in 0..sessions' /\ sessions' \in Nat
    BY <2>1, <2>2
  <2>6. live' # {} /\ (joining' => current' = 0)
    BY <2>2, <2>3
  <2> QED BY <2>3, <2>4, <2>5, <2>6 DEF TypeOK
<1>3. CASE JoinFails
  BY <1>3 DEF JoinFails, TypeOK, bus
<1>4. CASE Leave
  <2>1. vad' \in [Vad -> Detector] /\ lost' \subseteq Nat /\ live' = {} /\ away' = FALSE
    BY <1>4, CloseType DEF Leave
  <2>2. current' = 0 /\ present' = FALSE
        /\ UNCHANGED <<joining, sessions, frame, tasks, published, taken, spoken>>
    BY <1>4 DEF Leave, bus
  <2>3. joining' \in BOOLEAN /\ present' \in BOOLEAN
    BY <2>2, Zenon DEF TypeOK
  <2>4. live' \subseteq {current'} \ {0} /\ current' \in 0..sessions'
    BY <2>1, <2>2 DEF TypeOK
  <2> QED BY <2>1, <2>2, <2>3, <2>4 DEF TypeOK
<1>5. CASE Kick
  BY <1>5, CloseType DEF Kick, TypeOK, bus
<1>6. CASE Move
  <2>1. live # {} /\ away' \in BOOLEAN
    BY <1>6 DEF Move
  <2> QED BY <1>6, <2>1 DEF Move, TypeOK, bus
<1> QED
  BY <1>1, <1>2, <1>3, <1>4, <1>5, <1>6

LEMMA InitType == Init => TypeOK
<1> SUFFICES ASSUME Init PROVE TypeOK
  OBVIOUS
<1>1. Idle \in Frame
  BY DEF Idle, Frame, Quiet
<1>2. vad \in [Vad -> Detector] /\ frame \in [Device -> Frame]
  BY <1>1, FreshType DEF Init
<1>3. published = <<>> /\ Len(published) = 0 /\ taken = 0 /\ published \in Seq(Utterance)
  BY DEF Init
<1>4. taken \in 0..Len(published) /\ Len(published) - taken <= BusCap
  BY <1>3, Bounds
<1>5. joining \in BOOLEAN /\ present \in BOOLEAN /\ away = FALSE /\ current = 0
  BY DEF Init
<1>6. spoken \in Seq(Word)
  BY DEF Init
<1>7. sessions \in Nat /\ current \in 0..sessions /\ live \subseteq {current} \ {0}
      /\ tasks \subseteq Task /\ lost \subseteq Nat
  BY DEF Init
<1> QED
  BY <1>2, <1>3, <1>4, <1>5, <1>6, <1>7 DEF TypeOK

LEMMA NextType == TypeOK /\ [Next]_vars => TypeOK'
<1> SUFFICES ASSUME TypeOK, [Next]_vars PROVE TypeOK'
  OBVIOUS
<1>1. ASSUME NEW s \in User \cup Web, NEW n \in Frames, NEW dt \in 0..MaxGap, Listen(s, n, dt)
      PROVE  TypeOK'
  BY <1>1, ListenType
<1>2. ASSUME NEW d \in Device, NEW n \in Frames, NEW dt \in 0..MaxGap, Enter(d, n, dt)
      PROVE  TypeOK'
  BY <1>2, EnterType
<1>3. ASSUME NEW d \in Device, Rest(d) PROVE TypeOK'
  BY <1>3, RestType
<1>4. ASSUME NEW u \in User, CleanupUser(u) PROVE TypeOK'
  <2>1. u \in Vad BY DEF Vad
  <2> QED BY <1>4, <2>1, FreshType, LostType DEF CleanupUser, TypeOK, connection, bus
<1>5. ASSUME NEW w \in Web, HangUp(w) PROVE TypeOK'
  <2>1. w \in Vad BY DEF Vad
  <2> QED BY <1>5, <2>1, FreshType, LostType DEF HangUp, TypeOK, connection, bus
<1>6. CASE JoinBegin \/ JoinEnds \/ JoinFails \/ Leave \/ Kick \/ Move
  BY <1>6, ConnectionType
<1>7. ASSUME NEW t \in tasks, Handle(t) PROVE TypeOK'
  BY <1>7, HandleType
<1>8. CASE Take
  <2>1. Len(published) \in Nat /\ taken \in Nat /\ BusCap \in Nat
    BY Bounds DEF TypeOK
  <2>2. taken' \in 0..Len(published') /\ Len(published') - taken' <= BusCap
    BY <1>8, <2>1 DEF Take, TypeOK
  <2> QED BY <1>8, <2>2 DEF Take, TypeOK, connection
<1>9. CASE UNCHANGED vars
  BY <1>9 DEF vars, TypeOK, connection, bus
<1> QED
  BY <1>1, <1>2, <1>3, <1>4, <1>5, <1>6, <1>7, <1>8, <1>9 DEF Next

\* Every reachable state is well typed; a connection that is open belongs to
\* the session that can be left; the bus keeps its capacity.
THEOREM TypeCorrect == Spec => []TypeOK
BY InitType, NextType, PTL DEF Spec
-----------------------------------------------------------------------------
(* The invariant.  Words that a detector or a frame holds are yet to come;  *)
(* utterances, transcribed or published, were delivered.                    *)

Below(S, T) == \A a \in S, b \in T : a < b
Sorted(q)   == \A a, b \in DOMAIN q : a < b => q[a] < q[b]

SessionOf(k) == IF k \in User THEN current ELSE Hub
Pending(d)   == Range(frame[d].words) \cup ({frame[d].n} \ {Quiet})
Coming(k)    == Range(vad[k].words)
                \cup IF k = Esp THEN UNION {Pending(d) : d \in Device} ELSE {}
Delivered    == tasks \cup Range(published)

\* A word was said into this microphone, in this session.
Owned(n, k, session) ==
    n \in DOMAIN spoken /\ VadOf(spoken[n].by) = k /\ spoken[n].session = session

BufferOK(k) == /\ Sorted(vad[k].words)
               /\ \A n \in Range(vad[k].words) : Owned(n, k, SessionOf(k))

FrameOK(d) == /\ Sorted(frame[d].words)
              /\ \A n \in Pending(d) : Owned(n, Esp, Hub)
              /\ frame[d].n # Quiet =>
                     Below(Range(frame[d].words) \cup Range(vad[Esp].words), {frame[d].n})

\* A word that was delivered is older than what its microphone has to come.
Mic(n) == VadOf(spoken[n].by)
Past(n, session) ==
    /\ n \in DOMAIN spoken /\ spoken[n].session = session
    /\ session = SessionOf(Mic(n)) => Below({n}, Coming(Mic(n)))

Good(x) == /\ Sorted(x.words) /\ x.session \in 0..sessions
           /\ \A n \in Range(x.words) : Past(n, x.session)
           /\ x.session # Hub => \A n \in Range(x.words) : spoken[n].by = x.by

\* An utterance is of its microphone, an event names who spoke.
TaskNamed(t) ==
    /\ t.session # Hub => t.by \in User
    /\ \A n \in Range(t.words) : n \in DOMAIN spoken /\ Mic(n) = VadOf(t.by)
EventNamed(e) ==
    \A n \in Range(e.words) :
        n \in DOMAIN spoken /\ e.by = Name(spoken[n].by) /\ e.source = Source(spoken[n].by)
Named == (\A t \in tasks : TaskNamed(t)) /\ (\A e \in Range(published) : EventNamed(e))

OneTask == \A t, u \in tasks : t.session # Hub /\ t.session = u.session => t = u

Order ==
    /\ \A i, j \in DOMAIN published :
           i < j /\ SameUser(published[i], published[j]) =>
               Below(Range(published[i].words), Range(published[j].words))
    /\ \A i \in DOMAIN published, t \in tasks :
           SameUser(published[i], t) => Below(Range(published[i].words), Range(t.words))

Disjoint(x, y) == Range(x.words) \cap Range(y.words) = {}

Apart ==
    /\ \A i, j \in DOMAIN published : i # j => Disjoint(published[i], published[j])
    /\ \A t, u \in tasks : t # u => Disjoint(t, u)
    /\ \A i \in DOMAIN published, t \in tasks : Disjoint(published[i], t)

\* A user's detector outlives no connection.
Closed == current \notin live => \A u \in User : vad[u].words = <<>>

Buffers == (\A k \in Vad : BufferOK(k)) /\ (\A d \in Device : FrameOK(d))
AllGood == \A x \in Delivered : Good(x)

Parts == Buffers /\ AllGood /\ Named /\ OneTask /\ Order /\ Apart /\ Closed
IInv  == TypeOK /\ Parts
-----------------------------------------------------------------------------
(* Numbers, sequences and what grows.                                      *)

LEMMA WordsType ==
    ASSUME TypeOK
    PROVE  /\ \A k \in Vad : vad[k].words \in Seq(Nat) /\ Range(vad[k].words) \subseteq Nat
           /\ \A d \in Device : /\ frame[d].words \in Seq(Nat) /\ frame[d].n \in Nat
                                /\ Range(frame[d].words) \subseteq Nat
           /\ \A x \in Delivered : /\ x.session \in Nat
                                   /\ x.words \in Seq(Nat) /\ Range(x.words) \subseteq Nat
           /\ Len(spoken) \in Nat /\ DOMAIN spoken = 1..Len(spoken)
           /\ \A n \in DOMAIN spoken : spoken[n].by \in Speaker /\ Mic(n) \in Vad
<1>1. \A q \in Seq(Nat) : Range(q) \subseteq Nat
  BY DEF Range
<1>2. \A x \in tasks : x.session \in Nat /\ x.words \in Seq(Nat)
  BY DEF TypeOK, Task
<1>3. \A x \in Range(published) : x.session \in Nat /\ x.words \in Seq(Nat)
  <2>1. Range(published) \subseteq Utterance
    BY DEF TypeOK, Range
  <2> QED BY <2>1 DEF Utterance
<1>4. \A k \in Vad : vad[k].words \in Seq(Nat)
  BY DEF TypeOK, Detector
<1>5. \A d \in Device : frame[d].words \in Seq(Nat) /\ frame[d].n \in Nat
  BY DEF TypeOK, Frame
<1>6. Len(spoken) \in Nat /\ DOMAIN spoken = 1..Len(spoken)
  BY DEF TypeOK
<1>7. ASSUME NEW n \in DOMAIN spoken PROVE spoken[n].by \in Speaker
  <2>1. spoken[n] \in Word
    BY DEF TypeOK
  <2> QED BY <2>1 DEF Word
<1>8. \A n \in DOMAIN spoken : Mic(n) \in Vad
  BY <1>7, VadOfType DEF Mic
<1> QED
  BY <1>1, <1>2, <1>3, <1>4, <1>5, <1>6, <1>7, <1>8 DEF Delivered

LEMMA SortedAppend ==
    ASSUME NEW q \in Seq(Nat), NEW n \in Nat, Sorted(q), Below(Range(q), {n})
    PROVE  Sorted(Append(q, n))
<1> SUFFICES ASSUME NEW a \in DOMAIN Append(q, n), NEW b \in DOMAIN Append(q, n), a < b
             PROVE  Append(q, n)[a] < Append(q, n)[b]
  BY DEF Sorted
<1>1. a \in DOMAIN q /\ Append(q, n)[a] = q[a] /\ q[a] \in Range(q)
  BY DEF Range
<1>2. CASE b \in DOMAIN q
  BY <1>1, <1>2 DEF Sorted
<1>3. CASE b \notin DOMAIN q
  BY <1>1, <1>3 DEF Below
<1> QED
  BY <1>2, <1>3

LEMMA SortedEmpty == Sorted(<<>>)
BY DEF Sorted

\* What was said stays said.
LEMMA OwnedKept ==
    ASSUME TypeOK, NEW n, NEW k, NEW session, Owned(n, k, session),
           spoken' = spoken \/ \E e : spoken' = Append(spoken, e)
    PROVE  Owned(n, k, session)'
<1>1. CASE spoken' = spoken
  BY <1>1 DEF Owned
<1>2. CASE \E e : spoken' = Append(spoken, e)
  <2>1. PICK e : spoken' = Append(spoken, e)
    BY <1>2
  <2>2. n \in 1..Len(spoken) /\ Len(spoken) \in Nat
    BY DEF Owned, TypeOK
  <2>3. n \in DOMAIN spoken' /\ spoken'[n] = spoken[n]
    BY <2>1, <2>2 DEF TypeOK
  <2> QED BY <2>3 DEF Owned
<1> QED
  BY <1>1, <1>2

\* New words are above all that was said.
LEMMA OwnedOld ==
    ASSUME TypeOK, NEW n, NEW k, NEW session, Owned(n, k, session)
    PROVE  n \in Nat /\ n < Len(spoken) + 1 /\ n # Len(spoken) + 1
BY DEF Owned, TypeOK

Grows == spoken' = spoken \/ \E e : spoken' = Append(spoken, e)

\* A detector's session stays and it gains at most the newest word, or it
\* holds nothing.
Fed(k) == \/ SessionOf(k)' = SessionOf(k) /\ Coming(k)' \subseteq Coming(k) \cup {Len(spoken) + 1}
          \/ Coming(k)' = {}

LEMMA SpokenKept ==
    ASSUME TypeOK, Grows, NEW n \in DOMAIN spoken
    PROVE  n \in DOMAIN spoken' /\ spoken'[n] = spoken[n] /\ Mic(n)' = Mic(n)
<1>1. n \in DOMAIN spoken' /\ spoken'[n] = spoken[n]
  <2>1. CASE spoken' = spoken
    BY <2>1
  <2>2. CASE \E e : spoken' = Append(spoken, e)
    BY <2>2 DEF TypeOK
  <2> QED BY <2>1, <2>2 DEF Grows
<1> QED
  BY <1>1 DEF Mic, VadOf

LEMMA PastKept ==
    ASSUME TypeOK, NEW n, NEW session, Past(n, session), Grows, \A k \in Vad : Fed(k)
    PROVE  Past(n, session)'
<1>1. /\ n \in DOMAIN spoken' /\ spoken'[n].session = session /\ Mic(n)' = Mic(n)
      /\ n \in Nat /\ n < Len(spoken) + 1
  BY SpokenKept DEF Past, TypeOK
<1>2. PICK k \in Vad : k = Mic(n)
  BY WordsType DEF Past
<1>3. SessionOf(k)' = SessionOf(Mic(n))' /\ Coming(k)' = Coming(Mic(n))'
  BY <1>1, <1>2 DEF SessionOf, Coming
<1>4. ASSUME session = SessionOf(k)'
      PROVE  Below({n}, Coming(k)')
  <2>1. CASE Coming(k)' = {}
    BY <2>1 DEF Below
  <2>2. CASE SessionOf(k)' = SessionOf(k) /\ Coming(k)' \subseteq Coming(k) \cup {Len(spoken) + 1}
    <3>1. Below({n}, Coming(k))
      BY <1>2, <1>4, <2>2 DEF Past
    <3> QED BY <1>1, <2>2, <3>1 DEF Below
  <2> QED BY <1>2, <2>1, <2>2 DEF Fed
<1> QED
  BY <1>1, <1>3, <1>4 DEF Past, Below

LEMMA GoodKept ==
    ASSUME TypeOK, NEW x \in Delivered, Good(x), Grows, sessions' \in Nat, sessions <= sessions',
           \A k \in Vad : Fed(k)
    PROVE  Good(x)'
<1>1. \A n \in Range(x.words) : Past(n, x.session)'
  BY PastKept DEF Good
<1>2. x.session \in 0..sessions'
  BY DEF Good, TypeOK
<1>3. \A n \in Range(x.words) : spoken'[n] = spoken[n]
  BY SpokenKept DEF Good, Past
<1> QED
  BY <1>1, <1>2, <1>3 DEF Good

\* What was named stays so.
LEMMA TaskNamedKept ==
    ASSUME TypeOK, Grows, NEW t, TaskNamed(t) PROVE TaskNamed(t)'
BY SpokenKept DEF TaskNamed

LEMMA EventNamedKept ==
    ASSUME TypeOK, Grows, NEW e, EventNamed(e) PROVE EventNamed(e)'
BY SpokenKept DEF EventNamed, Name, Source

\* A detector keeps what it holds and its session, or is emptied.
Kept(k) == \/ vad'[k].words = vad[k].words /\ SessionOf(k)' = SessionOf(k)
           \/ vad'[k].words = <<>>

LEMMA SessionOfVad == ASSUME NEW s \in Speaker PROVE Session(s) = SessionOf(VadOf(s))
BY Names DEF Session, SessionOf, VadOf, Speaker

LEMMA BufferKept ==
    ASSUME TypeOK, NEW k \in Vad, BufferOK(k), Grows,
           vad'[k].words = vad[k].words, SessionOf(k)' = SessionOf(k)
    PROVE  BufferOK(k)'
<1>1. \A n \in Range(vad[k].words) : Owned(n, k, SessionOf(k))'
  <2> SUFFICES ASSUME NEW n \in Range(vad[k].words) PROVE Owned(n, k, SessionOf(k))'
    OBVIOUS
  <2>1. PICK session : session = SessionOf(k)
    OBVIOUS
  <2>2. Owned(n, k, session)
    BY <2>1 DEF BufferOK
  <2>3. Owned(n, k, session)'
    BY <2>2, OwnedKept DEF Grows
  <2> QED BY <2>1, <2>3
<1> QED
  BY <1>1 DEF BufferOK

LEMMA BufferEmpty ==
    ASSUME NEW k, vad'[k].words = <<>> PROVE BufferOK(k)'
BY SortedEmpty, RangeOfEmpty DEF BufferOK

LEMMA FrameKept ==
    ASSUME TypeOK, NEW d \in Device, FrameOK(d), Grows, frame'[d] = frame[d],
           Range(vad'[Esp].words) \subseteq Range(vad[Esp].words)
    PROVE  FrameOK(d)'
<1>1. Pending(d)' = Pending(d)
  BY DEF Pending
<1>2. \A n \in Pending(d) : Owned(n, Esp, Hub)'
  BY OwnedKept DEF FrameOK, Grows
<1> QED
  BY <1>1, <1>2 DEF FrameOK, Below

\* Detectors that keep what they hold, or are emptied, stay in order.
LEMMA StillBuffers ==
    ASSUME TypeOK, Buffers, frame' = frame, spoken' = spoken, \A k \in Vad : Kept(k)
    PROVE  Buffers' /\ \A k \in Vad : Fed(k)
<1>1. \A k \in Vad : BufferOK(k)'
  BY BufferKept, BufferEmpty DEF Kept, Buffers, Grows
<1>2. Esp \in Vad /\ Esp \notin User
  BY Names DEF Vad, Speaker
<1>3. Range(vad'[Esp].words) \subseteq Range(vad[Esp].words)
  BY <1>2, RangeOfEmpty DEF Kept
<1>4. \A d \in Device : FrameOK(d)'
  BY <1>3, FrameKept DEF Buffers, Grows
<1>5. ASSUME NEW k \in Vad PROVE Fed(k)
  <2>1. CASE k = Esp
    <3>1. SessionOf(Esp)' = SessionOf(Esp)
      BY <1>2 DEF SessionOf
    <3>2. UNION {Pending(d) : d \in Device}' = UNION {Pending(d) : d \in Device}
      BY DEF Pending
    <3>3. Coming(Esp)' \subseteq Coming(Esp)
      BY <1>3, <3>2 DEF Coming
    <3> QED BY <2>1, <3>1, <3>3 DEF Fed
  <2>2. CASE k # Esp
    <3>1. Coming(k) = Range(vad[k].words) /\ Coming(k)' = Range(vad'[k].words)
      BY <2>2 DEF Coming
    <3> QED BY <3>1, RangeOfEmpty DEF Kept, Fed
  <2> QED BY <2>1, <2>2
<1> QED
  BY <1>1, <1>4, <1>5 DEF Buffers

Alike(x, y) == /\ x.session = y.session /\ x.words = y.words
               /\ x.session # Hub => x.by = y.by

\* Nothing is cut: what was delivered stays good.
LEMMA Carried ==
    ASSUME TypeOK, AllGood, Grows, sessions' \in Nat, sessions <= sessions',
           \A k \in Vad : Fed(k),
           \A x \in Delivered' : \E y \in Delivered : Alike(x, y)
    PROVE  AllGood'
<1> SUFFICES ASSUME NEW x \in Delivered' PROVE Good(x)'
  BY DEF AllGood
<1>1. PICK y \in Delivered : Alike(x, y)
  OBVIOUS
<1>2. Good(y)'
  BY <1>1, GoodKept DEF AllGood
<1> QED
  BY <1>1, <1>2 DEF Good, Alike

\* Without a change of what was cut, the rest stays.
LEMMA NothingCut ==
    ASSUME IInv, Grows, sessions' \in Nat, sessions <= sessions', \A k \in Vad : Fed(k),
           tasks' = tasks, published' = published
    PROVE  AllGood' /\ Named' /\ OneTask' /\ Order' /\ Apart'
<1>1. AllGood'
  <2>1. \A x \in Delivered' : \E y \in Delivered : Alike(x, y)
    BY DEF Delivered, Alike
  <2> QED BY <2>1, Carried DEF IInv, Parts
<1>2. Named'
  BY TaskNamedKept, EventNamedKept DEF IInv, Parts, Named
<1> QED
  BY <1>1, <1>2 DEF IInv, Parts, OneTask, Order, Apart
-----------------------------------------------------------------------------
(* A frame that is fed to a detector, and what it may cut.                 *)

LEMMA Feed ==
    ASSUME IInv, NEW s \in Speaker, NEW v \in Detector, NEW n \in Nat, Process(s, v, n),
           Grows, Ready(s), UNCHANGED <<connection, published>>,
           \/ s \notin Device /\ frame' = frame
           \/ s \in Device /\ frame' = [frame EXCEPT ![s] = Idle],
           Sorted(v.words), \A m \in Range(v.words) : Owned(m, VadOf(s), Session(s))',
           Range(v.words) \subseteq Coming(VadOf(s)) \cup {Len(spoken) + 1}
    PROVE  Parts'
<1>0. PICK W : W = [by |-> s, session |-> Session(s), words |-> v.words, at |-> "stt"]
  OBVIOUS
<1>a. TypeOK /\ W.by = s /\ W.session = Session(s) /\ W.words = v.words
  BY <1>0 DEF IInv, Parts
<1>1. /\ VadOf(s) \in Vad
      /\ vad' \in [Vad -> Detector] /\ vad'[VadOf(s)] \in {v, Fresh}
      /\ \A k \in Vad : k # VadOf(s) => vad'[k] = vad[k]
      /\ tasks' = tasks \/ (tasks' = tasks \cup {W} /\ vad'[VadOf(s)] = Fresh)
  <2>1. /\ vad' \in [Vad -> Detector]
        /\ vad'[VadOf(s)] \in {v, Fresh}
        /\ \A k \in Vad : k # VadOf(s) => vad'[k] = vad[k]
        /\ tasks' = tasks \/
           /\ tasks' = tasks \cup {[by |-> s, session |-> Session(s), words |-> v.words,
                                    at |-> "stt"]}
           /\ vad'[VadOf(s)] = Fresh
    BY <1>a, Processed
  <2> QED BY <1>0, <2>1, VadOfType
<1>2. TypeOK /\ current' = current /\ sessions' = sessions /\ live' = live
      /\ published' = published
  BY DEF IInv, Parts, connection
<1>3. Esp \in Vad /\ Esp \notin User /\ Esp \notin Web /\ (VadOf(s) = Esp <=> s \in Device)
      /\ (VadOf(s) \in User <=> s \in User)
  BY Names DEF Vad, VadOf, Speaker
<1>4. Session(s) = SessionOf(VadOf(s)) /\ \A k : SessionOf(k)' = SessionOf(k)
  BY <1>2, SessionOfVad DEF SessionOf
<1>5. s \in Device => \A d \in Device : frame'[d] = Idle
  BY OneDevice DEF IInv, Parts, TypeOK
<1>6. Idle.words = <<>> /\ Idle.n = Quiet
  BY DEF Idle
<1>7. s \in Device => \A d \in Device : Pending(d)' = {}
  BY <1>5, <1>6, RangeOfEmpty DEF Pending
<1>8. \A k \in Vad : BufferOK(k)'
  <2>1. ASSUME NEW k \in Vad, k # VadOf(s) PROVE BufferOK(k)'
    BY <1>1, <1>2, <1>4, <2>1, BufferKept DEF IInv, Parts, Buffers
  <2>2. ASSUME NEW k \in Vad, k = VadOf(s) PROVE BufferOK(k)'
    <3>1. CASE vad'[k] = Fresh
      BY <3>1, FreshType, BufferEmpty
    <3>2. CASE vad'[k] = v
      <4>1. PICK session : session = Session(s) /\ session = SessionOf(k)'
        BY <1>4, <2>2
      <4>2. Session(s)' = Session(s)
        BY <1>2 DEF Session
      <4>3. \A m \in Range(v.words) : Owned(m, k, session)'
        BY <2>2, <4>1, <4>2 DEF Owned
      <4> QED BY <3>2, <4>1, <4>3 DEF BufferOK
    <3> QED BY <1>1, <2>2, <3>1, <3>2
  <2> QED BY <2>1, <2>2
<1>9. \A d \in Device : FrameOK(d)'
  <2>1. CASE s \in Device
    BY <1>5, <1>6, <1>7, <2>1, SortedEmpty DEF FrameOK
  <2>2. CASE s \notin Device
    <3>1. vad'[Esp] = vad[Esp] /\ frame' = frame
      BY <1>1, <1>3, <2>2
    <3> QED BY <1>2, <3>1, FrameKept DEF IInv, Parts, Buffers
  <2> QED BY <2>1, <2>2
<1>10. \A k \in Vad : Fed(k)
  <2>1. ASSUME NEW k \in Vad, k # VadOf(s) PROVE Coming(k)' = Coming(k)
    <3>1. vad'[k] = vad[k]
      BY <1>1, <2>1
    <3>2. CASE k = Esp
      <4>1. frame' = frame
        BY <1>3, <2>1, <3>2
      <4> QED BY <3>1, <4>1 DEF Coming, Pending
    <3> QED BY <3>1, <3>2 DEF Coming
  <2>2. Coming(VadOf(s))' = Range(vad'[VadOf(s)].words)
    BY <1>3, <1>7 DEF Coming
  <2>3. Coming(VadOf(s))' = {} \/ Coming(VadOf(s))' \subseteq Coming(VadOf(s)) \cup {Len(spoken) + 1}
    BY <1>1, <2>2, FreshType, RangeOfEmpty
  <2> QED BY <1>4, <2>1, <2>3 DEF Fed
<1>11. Closed'
  <2>1. ASSUME NEW u \in User, current \notin live PROVE vad'[u].words = <<>>
    <3>1. u \in Vad /\ vad[u].words = <<>>
      BY <2>1 DEF IInv, Parts, Closed, Vad
    <3>2. u # VadOf(s)
      BY <2>1, <1>3 DEF Ready, VadOf
    <3> QED BY <1>1, <3>1, <3>2
  <2> QED BY <1>2, <2>1 DEF Closed
<1>12. CASE tasks' = tasks
  <2>1. sessions' \in Nat /\ sessions <= sessions'
    BY <1>2 DEF TypeOK
  <2>2. AllGood' /\ Named' /\ OneTask' /\ Order' /\ Apart'
    BY <1>2, <1>10, <1>12, <2>1, NothingCut
  <2> QED BY <1>8, <1>9, <1>11, <2>2 DEF Parts, Buffers
<1>13. CASE tasks' = tasks \cup {W} /\ vad'[VadOf(s)] = Fresh
  <2>1. \A x \in Delivered : Good(x)'
    <3>1. sessions' \in Nat /\ sessions <= sessions'
      BY <1>2 DEF TypeOK
    <3> QED BY <1>10, <3>1, GoodKept DEF IInv, Parts, AllGood
  <2>2. Good(W)'
    <3>1. Coming(VadOf(s))' = {}
      BY <1>3, <1>7, <1>13, FreshType, RangeOfEmpty DEF Coming
    <3>2. Session(s)' = Session(s)
      BY <1>2 DEF Session
    <3>3. \A m \in Range(W.words) : Owned(m, VadOf(s), Session(s))'
      BY <1>a
    <3>4. W.session \in 0..sessions
      BY <1>a DEF Session, Ready, TypeOK, Hub
    <3>5. ASSUME NEW m \in Range(W.words) PROVE Past(m, W.session)'
      <4>1. m \in DOMAIN spoken' /\ Mic(m)' = VadOf(s) /\ spoken'[m].session = Session(s)
        BY <3>2, <3>3 DEF Owned, Mic, VadOf
      <4>2. Coming(Mic(m))' = Coming(VadOf(s))'
        BY <4>1 DEF Coming
      <4> QED BY <1>a, <3>1, <4>1, <4>2 DEF Past, Below
    <3>6. W.session # Hub => \A m \in Range(W.words) : spoken'[m].by = W.by
      <4>1. W.session # Hub => s \in User
        BY <1>a DEF Session
      <4>2. \A m \in Range(W.words) : VadOf(spoken'[m].by) = VadOf(s)
        BY <3>3 DEF Owned, VadOf
      <4> QED BY <1>a, <1>3, <4>1, <4>2, Names DEF VadOf, Speaker
    <3> QED BY <1>2, <1>a, <3>4, <3>5, <3>6 DEF Good
  <2>3. AllGood'
    <3>1. \A x \in Delivered' : x \in Delivered \/ x = W
      BY <1>2, <1>13 DEF Delivered
    <3> QED BY <2>1, <2>2, <3>1 DEF AllGood
  <2>4. ASSUME NEW x \in Delivered PROVE Disjoint(x, W)
    <3> SUFFICES ASSUME NEW m \in Range(x.words), m \in Range(v.words) PROVE FALSE
      BY <1>a DEF Disjoint
    <3>1. Good(x) /\ Past(m, x.session) /\ m \in DOMAIN spoken
      BY DEF IInv, Parts, AllGood, Good, Past
    <3>2. /\ spoken'[m] = spoken[m] /\ Mic(m)' = Mic(m)
          /\ m \in Nat /\ m # Len(spoken) + 1
      BY <1>2, <3>1, SpokenKept DEF TypeOK
    <3>3. Mic(m) = VadOf(s) /\ spoken[m].session = Session(s)
      <4>1. Owned(m, VadOf(s), Session(s))'
        OBVIOUS
      <4>2. Mic(m)' = VadOf(s) /\ spoken'[m].session = Session(s)
        BY <1>2, <4>1 DEF Owned, Mic, VadOf, Session
      <4> QED BY <3>2, <4>2
    <3>4. Below({m}, Coming(VadOf(s)))
      BY <1>4, <3>1, <3>3 DEF Past
    <3>5. m \in Coming(VadOf(s))
      BY <3>2
    <3> QED BY <3>2, <3>4, <3>5 DEF Below
  <2>5. ASSUME NEW x \in Delivered, SameUser(x, W) PROVE Below(Range(x.words), Range(W.words))
    <3>1. Good(x) /\ x.by = s /\ x.session = Session(s) /\ x.session # Hub
      BY <1>a, <2>5 DEF IInv, Parts, AllGood, SameUser
    <3>2. \A m \in Range(x.words) : Mic(m) = VadOf(s) /\ Past(m, x.session)
      BY <3>1 DEF Good, Mic
    <3>3. ASSUME NEW m \in Range(x.words) PROVE Below({m}, Coming(VadOf(s)))
      <4>1. Past(m, x.session) /\ Mic(m) = VadOf(s)
        BY <3>2
      <4>2. x.session = SessionOf(Mic(m)) => Below({m}, Coming(Mic(m)))
        BY <4>1 DEF Past
      <4> QED BY <1>4, <3>1, <4>1, <4>2
    <3>4. \A m \in Range(x.words) : m \in Nat /\ m < Len(spoken) + 1
      <4>1. \A m \in Range(x.words) : m \in DOMAIN spoken
        BY <3>2 DEF Past
      <4>2. DOMAIN spoken = 1..Len(spoken) /\ Len(spoken) \in Nat
        BY <1>2, WordsType
      <4> QED BY <4>1, <4>2
    <3> QED BY <1>a, <3>3, <3>4 DEF Below
  <2>6. ASSUME NEW t \in tasks, t.session # Hub PROVE t.session # W.session
    BY <1>a, <2>6 DEF Ready, Free, Session
  <2>7. OneTask'
    <3> QED BY <1>13, <2>6 DEF IInv, Parts, OneTask
  <2>8. Order'
    <3>1. \A i \in DOMAIN published : published[i] \in Delivered
      BY DEF Delivered, Range
    <3> QED BY <1>2, <1>13, <2>5, <3>1 DEF IInv, Parts, Order
  <2>9. Apart'
    <3>1. \A i \in DOMAIN published : published[i] \in Delivered
      BY DEF Delivered, Range
    <3>2. \A x \in Delivered : Disjoint(W, x) /\ Disjoint(x, W)
      BY <2>4 DEF Disjoint
    <3>3. \A t \in tasks : t \in Delivered
      BY DEF Delivered
    <3> QED BY <1>2, <1>13, <3>1, <3>2, <3>3 DEF IInv, Parts, Apart
  <2>10. Named'
    <3>1. TaskNamed(W)'
      <4>1. \A m \in Range(W.words) : m \in DOMAIN spoken' /\ Mic(m)' = VadOf(s)
        BY <1>a DEF Owned, Mic, VadOf
      <4>2. W.session # Hub => s \in User
        BY <1>a DEF Session
      <4> QED BY <1>a, <4>1, <4>2 DEF TaskNamed, VadOf
    <3>2. \A t \in tasks' : t \in tasks \/ t = W
      BY <1>13
    <3> QED BY <1>2, <3>1, <3>2, TaskNamedKept, EventNamedKept DEF IInv, Parts, Named
  <2> QED BY <1>8, <1>9, <1>11, <2>3, <2>7, <2>8, <2>9, <2>10 DEF Parts, Buffers
<1> QED
  BY <1>1, <1>12, <1>13

\* What somebody says is the newest word.
LEMMA SaidNow ==
    ASSUME TypeOK, NEW s \in Speaker, NEW n, Says(s, n), n # Quiet, current' = current
    PROVE  n = Len(spoken) + 1 /\ Owned(n, VadOf(s), Session(s))'
<1>1. n = Len(spoken) + 1 /\ spoken' = Append(spoken, [by |-> s, session |-> Session(s)])
  BY DEF Says
<1>2. n \in DOMAIN spoken' /\ spoken'[n] = [by |-> s, session |-> Session(s)]
  BY <1>1 DEF TypeOK
<1>3. spoken'[n].by = s /\ spoken'[n].session = Session(s)'
  BY <1>2 DEF Session
<1> QED
  BY <1>1, <1>2, <1>3 DEF Owned

\* What a detector holds when it has heard one more frame.
LEMMA OneMore ==
    ASSUME NEW v \in Detector, NEW words \in Seq(Nat), NEW n \in Nat, Sorted(words),
           n # Quiet => Below(Range(words), {n})
    PROVE  /\ Add(v, words, n) \in Detector /\ Sorted(Add(v, words, n).words)
           /\ Range(Add(v, words, n).words) = Range(words) \cup ({n} \ {Quiet})
<1>1. CASE n = Quiet
  BY <1>1, AddType
<1>2. CASE n # Quiet
  <2>1. Range(Append(words, n)) = Range(words) \cup {n}
    BY RangeOfAppend
  <2>2. Sorted(Append(words, n))
    BY <1>2, SortedAppend
  <2>3. Add(v, words, n) \in Detector /\ Add(v, words, n).words = Append(words, n)
    BY <1>2, AddType
  <2> QED BY <1>2, <2>1, <2>2, <2>3
<1> QED
  BY <1>1, <1>2

LEMMA ListenInv ==
    ASSUME IInv, NEW s \in User \cup Web, NEW n, NEW dt \in 0..MaxGap, Listen(s, n, dt)
    PROVE  Parts'
<1>1. /\ TypeOK /\ s \in Speaker /\ s \notin Device /\ VadOf(s) \in Vad
      /\ Says(s, n) /\ Ready(s) /\ UNCHANGED <<frame, connection, published>>
  BY Names, VadOfType DEF IInv, Parts, Listen, Speaker, bus
<1>2. n \in Nat /\ Grows /\ current' = current
  BY <1>1, SaysType DEF Grows, connection
<1>3. PICK v : v = Start(Elapse(vad[VadOf(s)], dt), n)
  OBVIOUS
<1>4. v \in Detector /\ v.words \in {vad[VadOf(s)].words, <<>>} /\ v.words \in Seq(Nat)
  <2>1. vad[VadOf(s)] \in Detector /\ dt \in Nat
    BY <1>1, Bounds DEF TypeOK
  <2> QED BY <1>2, <1>3, <2>1, ElapseType, StartType DEF Detector
<1>5. BufferOK(VadOf(s)) /\ Session(s) = SessionOf(VadOf(s))
  BY <1>1, SessionOfVad DEF IInv, Parts, Buffers
<1>6. Sorted(v.words) /\ Range(v.words) \subseteq Range(vad[VadOf(s)].words)
  BY <1>4, <1>5, SortedEmpty, RangeOfEmpty DEF BufferOK
<1>7. \A m \in Range(v.words) : m < Len(spoken) + 1
  BY <1>1, <1>5, <1>6, OwnedOld DEF BufferOK
<1>8. n # Quiet => Below(Range(v.words), {n})
  BY <1>1, <1>2, <1>7, SaidNow DEF Below
<1>9. PICK a : a = Add(v, v.words, n)
  OBVIOUS
<1>10. /\ a \in Detector /\ Sorted(a.words)
       /\ Range(a.words) = Range(v.words) \cup ({n} \ {Quiet})
  <2>1. /\ Add(v, v.words, n) \in Detector /\ Sorted(Add(v, v.words, n).words)
        /\ Range(Add(v, v.words, n).words) = Range(v.words) \cup ({n} \ {Quiet})
    BY <1>2, <1>4, <1>6, <1>8, OneMore
  <2> QED BY <1>9, <2>1
<1>11. Process(s, a, n)
  BY <1>3, <1>9 DEF Listen
<1>12. \A m \in Range(a.words) : Owned(m, VadOf(s), Session(s))'
  <2>1. PICK session : session = Session(s) /\ session = Session(s)'
    BY <1>2 DEF Session
  <2>2. \A m \in Range(v.words) : Owned(m, VadOf(s), session)'
    BY <1>1, <1>2, <1>5, <1>6, <2>1, OwnedKept DEF BufferOK, Grows
  <2>3. \A m \in Range(v.words) : Owned(m, VadOf(s), Session(s))'
    BY <2>1, <2>2 DEF Owned
  <2>4. n # Quiet => Owned(n, VadOf(s), Session(s))'
    BY <1>1, <1>2, SaidNow
  <2> QED BY <1>10, <2>3, <2>4
<1>13. Range(a.words) \subseteq Coming(VadOf(s)) \cup {Len(spoken) + 1}
  BY <1>1, <1>2, <1>6, <1>10, SaidNow DEF Coming
<1> QED
  BY <1>1, <1>2, <1>10, <1>11, <1>12, <1>13, Feed

LEMMA RestInv ==
    ASSUME IInv, NEW d \in Device, Rest(d)
    PROVE  Parts'
<1>1. /\ TypeOK /\ d \in Speaker /\ d \notin User /\ VadOf(d) = Esp /\ Esp \in Vad
      /\ Session(d) = Hub /\ SessionOf(Esp) = Hub
      /\ UNCHANGED <<connection, published, spoken>> /\ frame' = [frame EXCEPT ![d] = Idle]
  BY Names DEF IInv, Parts, Rest, Speaker, bus, VadOf, Vad, Session, SessionOf
<1>2. Grows /\ Ready(d) /\ current' = current
  BY <1>1 DEF Grows, Ready, connection
<1>3. PICK words \in {frame[d].words, vad[Esp].words} :
          Process(d, Add(vad[Esp], words, frame[d].n), frame[d].n)
  BY DEF Rest
<1>4. PICK n \in Nat : n = frame[d].n
  BY <1>1, WordsType
<1>5. vad[Esp] \in Detector /\ words \in Seq(Nat)
  BY <1>1, <1>3, WordsType DEF TypeOK
<1>6. FrameOK(d) /\ BufferOK(Esp)
  BY <1>1 DEF IInv, Parts, Buffers
<1>7. Sorted(words) /\ Range(words) \subseteq Range(frame[d].words) \cup Range(vad[Esp].words)
  BY <1>3, <1>6 DEF FrameOK, BufferOK
<1>8. n # Quiet => Below(Range(words), {n})
  BY <1>4, <1>6, <1>7 DEF FrameOK, Below
<1>9. PICK a : a = Add(vad[Esp], words, n)
  OBVIOUS
<1>10. /\ a \in Detector /\ Sorted(a.words)
       /\ Range(a.words) = Range(words) \cup ({n} \ {Quiet})
  <2>1. /\ Add(vad[Esp], words, n) \in Detector /\ Sorted(Add(vad[Esp], words, n).words)
        /\ Range(Add(vad[Esp], words, n).words) = Range(words) \cup ({n} \ {Quiet})
    BY <1>5, <1>7, <1>8, OneMore
  <2> QED BY <1>9, <2>1
<1>11. Process(d, a, n)
  BY <1>3, <1>4, <1>9
<1>12. Range(a.words) \subseteq Range(vad[Esp].words) \cup Pending(d)
  BY <1>4, <1>7, <1>10 DEF Pending
<1>13. \A m \in Range(a.words) : Owned(m, VadOf(d), Session(d))'
  <2>1. \A m \in Range(a.words) : Owned(m, Esp, Hub)
    BY <1>1, <1>6, <1>12 DEF FrameOK, BufferOK
  <2> QED BY <1>1, <2>1 DEF Owned, Session
<1>14. Range(a.words) \subseteq Coming(VadOf(d)) \cup {Len(spoken) + 1}
  BY <1>1, <1>12 DEF Coming
<1> QED
  BY <1>1, <1>2, <1>4, <1>10, <1>11, <1>13, <1>14, Feed

LEMMA EnterInv ==
    ASSUME IInv, NEW d \in Device, NEW n, NEW dt \in 0..MaxGap, Enter(d, n, dt)
    PROVE  Parts'
<1>1. /\ TypeOK /\ d \in Speaker /\ VadOf(d) = Esp /\ Esp \in Vad /\ Esp \notin User
      /\ Session(d) = Hub /\ Says(d, n)
      /\ UNCHANGED <<connection, tasks, published>>
  BY Names DEF IInv, Parts, Enter, Speaker, bus, VadOf, Vad, Session
<1>2. n \in Nat /\ Grows /\ current' = current /\ sessions' = sessions /\ live' = live
  BY <1>1, SaysType DEF Grows, connection
<1>3. PICK v : v = Start(Elapse(vad[Esp], dt), n)
  OBVIOUS
<1>4. v \in Detector /\ v.words \in {vad[Esp].words, <<>>}
  <2>1. vad[Esp] \in Detector /\ dt \in Nat
    BY <1>1, Bounds DEF TypeOK
  <2> QED BY <1>2, <1>3, <2>1, ElapseType, StartType
<1>5. vad' = [vad EXCEPT ![Esp] = v]
      /\ frame' = [frame EXCEPT ![d] = [busy |-> TRUE, n |-> n, words |-> v.words]]
  BY <1>3 DEF Enter
<1>6. /\ vad'[Esp] = v /\ \A k \in Vad : k # Esp => vad'[k] = vad[k]
      /\ \A e \in Device : frame'[e].words = v.words /\ frame'[e].n = n
  BY <1>1, <1>5, OneDevice DEF TypeOK
<1>7. BufferOK(Esp) /\ \A k : SessionOf(k)' = SessionOf(k)
  BY <1>1, <1>2 DEF IInv, Parts, Buffers, SessionOf
<1>8. Sorted(v.words) /\ Range(v.words) \subseteq Range(vad[Esp].words)
  BY <1>4, <1>7, SortedEmpty, RangeOfEmpty DEF BufferOK
<1>9. \A m \in Range(v.words) : Owned(m, Esp, Hub)' /\ m < Len(spoken) + 1
  <2>1. \A m \in Range(v.words) : Owned(m, Esp, Hub)
    BY <1>1, <1>7, <1>8 DEF BufferOK, SessionOf
  <2> QED BY <1>1, <1>2, <2>1, OwnedKept, OwnedOld DEF Grows
<1>10. n # Quiet => n = Len(spoken) + 1 /\ Owned(n, Esp, Hub)'
  <2>1. n # Quiet => n = Len(spoken) + 1 /\ Owned(n, VadOf(d), Session(d))'
    BY <1>1, <1>2, SaidNow
  <2>2. Session(d)' = Hub
    BY <1>1, <1>2 DEF Session
  <2> QED BY <1>1, <2>1, <2>2 DEF Owned
<1>11. \A e \in Device : Pending(e)' = Range(v.words) \cup ({n} \ {Quiet})
  BY <1>6 DEF Pending
<1>12. \A e \in Device : FrameOK(e)'
  <2>1. n # Quiet => Below(Range(v.words), {n})
    BY <1>9, <1>10 DEF Below
  <2>2. \A e \in Device : \A m \in Pending(e)' : Owned(m, Esp, Hub)'
    BY <1>9, <1>10, <1>11
  <2> QED BY <1>6, <1>8, <2>1, <2>2 DEF FrameOK
<1>13. \A k \in Vad : BufferOK(k)'
  <2>1. ASSUME NEW k \in Vad, k # Esp PROVE BufferOK(k)'
    BY <1>1, <1>2, <1>6, <1>7, <2>1, BufferKept DEF IInv, Parts, Buffers
  <2>2. BufferOK(Esp)'
    <3>1. SessionOf(Esp)' = Hub
      BY <1>1 DEF SessionOf
    <3>2. \A m \in Range(v.words) : Owned(m, Esp, SessionOf(Esp))'
      BY <1>9, <3>1 DEF Owned
    <3> QED BY <1>6, <1>8, <3>2 DEF BufferOK
  <2> QED BY <2>1, <2>2
<1>14. \A k \in Vad : Fed(k)
  <2>1. ASSUME NEW k \in Vad, k # Esp PROVE Coming(k)' = Coming(k)
    BY <1>6, <2>1 DEF Coming
  <2>2. Coming(Esp)' \subseteq Coming(Esp) \cup {Len(spoken) + 1}
    BY <1>6, <1>8, <1>10, <1>11 DEF Coming
  <2> QED BY <1>7, <2>1, <2>2 DEF Fed
<1>15. Closed'
  <2>1. \A u \in User : u \in Vad /\ vad'[u] = vad[u]
    BY <1>1, <1>6 DEF Vad
  <2> QED BY <1>2, <2>1 DEF IInv, Parts, Closed
<1>16. sessions' \in Nat /\ sessions <= sessions'
  BY <1>1, <1>2 DEF TypeOK
<1>17. AllGood' /\ Named' /\ OneTask' /\ Order' /\ Apart'
  BY <1>1, <1>2, <1>14, <1>16, NothingCut
<1> QED
  BY <1>12, <1>13, <1>15, <1>17 DEF Parts, Buffers
-----------------------------------------------------------------------------
(* Connections, utterances that are handled.                               *)

Hears == <<frame, spoken, tasks, published>>

LEMMA StillInv ==
    ASSUME IInv, UNCHANGED Hears, sessions' \in Nat, sessions <= sessions', Closed',
           \A k \in Vad : Kept(k)
    PROVE  Parts'
<1>1. TypeOK /\ Buffers /\ frame' = frame /\ spoken' = spoken /\ tasks' = tasks
      /\ published' = published /\ Grows
  BY DEF IInv, Parts, Hears, Grows
<1>2. Buffers' /\ \A k \in Vad : Fed(k)
  BY <1>1, StillBuffers
<1>3. AllGood' /\ Named' /\ OneTask' /\ Order' /\ Apart'
  BY <1>1, <1>2, NothingCut
<1> QED
  BY <1>2, <1>3 DEF Parts

\* A detector that is emptied while the session stays.
LEMMA EmptiedInv ==
    ASSUME IInv, UNCHANGED Hears, UNCHANGED connection, NEW k \in Vad,
           vad' = [vad EXCEPT ![k] = Fresh]
    PROVE  Parts'
<1>1. TypeOK /\ current' = current /\ sessions' = sessions /\ live' = live
  BY DEF IInv, Parts, connection
<1>2. sessions' \in Nat /\ sessions <= sessions'
  BY <1>1 DEF TypeOK
<1>3. \A l \in Vad : vad'[l].words \in {vad[l].words, <<>>}
  BY <1>1, FreshType DEF TypeOK
<1>4. \A l \in Vad : Kept(l)
  BY <1>1, <1>3 DEF Kept, SessionOf
<1>5. Closed'
  BY <1>1, <1>3 DEF IInv, Parts, Closed, Vad
<1> QED
  BY <1>2, <1>4, <1>5, StillInv

LEMMA ConnectionInv ==
    ASSUME IInv, JoinBegin \/ JoinEnds \/ JoinFails \/ Leave \/ Kick \/ Move
    PROVE  Parts'
<1>1. TypeOK /\ Closed /\ User \subseteq Vad
  BY DEF IInv, Parts, Vad
<1>2. UNCHANGED Hears
  BY DEF JoinBegin, JoinEnds, JoinFails, Leave, Kick, Move, Hears, bus
<1>3. sessions' \in Nat /\ sessions <= sessions'
  <2>1. sessions' \in {sessions, sessions + 1}
    BY DEF JoinBegin, JoinEnds, JoinFails, Leave, Kick, Move
  <2>2. sessions \in Nat
    BY <1>1 DEF TypeOK
  <2> QED BY <2>1, <2>2
<1>4. \/ vad' = vad /\ UNCHANGED <<current, live>>
      \/ /\ \A u \in User : vad'[u].words = <<>>
         /\ \A k \in Vad \ User : vad'[k] = vad[k]
  <2>1. ASSUME Close
        PROVE  /\ \A u \in User : vad'[u].words = <<>>
               /\ \A k \in Vad \ User : vad'[k] = vad[k]
    BY <1>1, <2>1, FreshType DEF Close
  <2>2. ASSUME vad' = vad, live = {}
        PROVE  /\ \A u \in User : vad'[u].words = <<>>
               /\ \A k \in Vad \ User : vad'[k] = vad[k]
    BY <1>1, <2>2 DEF Closed
  <2>3. CASE JoinBegin
    <3>1. CASE current # 0
      BY <2>1, <2>3, <3>1 DEF JoinBegin
    <3>2. CASE current = 0
      <4>1. vad' = vad /\ live = {}
        BY <1>1, <2>3, <3>2 DEF JoinBegin, NotClosed, TypeOK
      <4> QED BY <2>2, <4>1
    <3> QED BY <3>1, <3>2
  <2>4. CASE JoinEnds
    <3>1. vad' = vad /\ live = {}
      BY <1>1, <2>4 DEF JoinEnds, TypeOK
    <3> QED BY <2>2, <3>1
  <2>5. CASE JoinFails
    BY <2>5 DEF JoinFails
  <2>6. CASE Leave \/ Kick
    BY <2>1, <2>6 DEF Leave, Kick
  <2>7. CASE Move
    BY <2>7 DEF Move
  <2> QED BY <2>3, <2>4, <2>5, <2>6, <2>7
<1>5. Closed' /\ \A k \in Vad : Kept(k)
  <2>1. CASE vad' = vad /\ UNCHANGED <<current, live>>
    BY <1>1, <2>1 DEF Closed, Kept, SessionOf
  <2>2. CASE /\ \A u \in User : vad'[u].words = <<>>
             /\ \A k \in Vad \ User : vad'[k] = vad[k]
    BY <2>2 DEF Closed, Kept, SessionOf
  <2> QED BY <1>4, <2>1, <2>2
<1> QED
  BY <1>2, <1>3, <1>5, StillInv

LEMMA TakeInv ==
    ASSUME IInv, Take \/ UNCHANGED vars
    PROVE  Parts'
<1>1. TypeOK /\ Closed /\ UNCHANGED <<vad, current, live, sessions>> /\ UNCHANGED Hears
  BY DEF IInv, Parts, Take, vars, connection, bus, Hears
<1>2. Closed' /\ (\A k \in Vad : Kept(k)) /\ sessions' \in Nat /\ sessions <= sessions'
  BY <1>1 DEF Closed, Kept, SessionOf, TypeOK
<1> QED
  BY <1>1, <1>2, StillInv

\* Every step of an utterance keeps who said it, in which session, and what.
LEMMA Moved ==
    ASSUME IInv, NEW t \in tasks, NEW step, Goto(t, step), Grows, published' = published
    PROVE  /\ \A x \in Delivered' : \E y \in Delivered : Alike(x, y)
           /\ Named' /\ OneTask' /\ Order' /\ Apart'
<1>1. PICK x : x = [t EXCEPT !.at = step]
  OBVIOUS
<1>2. t \in Task
  BY DEF IInv, Parts, TypeOK
<1>3. x.by = t.by /\ x.session = t.session /\ x.words = t.words
  BY <1>1, <1>2 DEF Task
<1>4. tasks' = (tasks \ {t}) \cup {x}
  BY <1>1 DEF Goto
<1>5. \A y \in tasks' : y \in tasks \ {t} \/ y = x
  BY <1>4
<1>6. \A y \in Delivered' : \E z \in Delivered : Alike(y, z)
  BY <1>3, <1>5 DEF Delivered, Alike
<1>7. OneTask'
  BY <1>3, <1>5 DEF IInv, Parts, OneTask
<1>8. Order'
  <2>1. ASSUME NEW i \in DOMAIN published, NEW y \in tasks', SameUser(published[i], y)
        PROVE  Below(Range(published[i].words), Range(y.words))
    BY <1>3, <1>5, <2>1 DEF IInv, Parts, Order, SameUser
  <2> QED BY <2>1 DEF IInv, Parts, Order
<1>9. Apart'
  <2>1. \A y, z \in tasks' : y # z => Disjoint(y, z)
    BY <1>3, <1>5 DEF IInv, Parts, Apart, Disjoint
  <2>2. \A i \in DOMAIN published, y \in tasks' : Disjoint(published[i], y)
    BY <1>3, <1>5 DEF IInv, Parts, Apart, Disjoint
  <2> QED BY <2>1, <2>2 DEF IInv, Parts, Apart
<1>10. Named'
  <2>1. TaskNamed(x)
    <3>1. TaskNamed(t)
      BY DEF IInv, Parts, Named
    <3> QED BY <1>3, <3>1 DEF TaskNamed
  <2> QED BY <1>5, <2>1, TaskNamedKept, EventNamedKept DEF IInv, Parts, Named
<1> QED
  BY <1>6, <1>7, <1>8, <1>9, <1>10

LEMMA Dropped ==
    ASSUME IInv, NEW t \in tasks, Drop(t), Grows, published' = published
    PROVE  /\ \A x \in Delivered' : \E y \in Delivered : Alike(x, y)
           /\ Named' /\ OneTask' /\ Order' /\ Apart'
<1>1. tasks' \subseteq tasks
  BY DEF Drop
<1>2. Named'
  BY <1>1, TaskNamedKept, EventNamedKept DEF IInv, Parts, Named
<1> QED
  BY <1>1, <1>2 DEF IInv, Parts, OneTask, Order, Apart, Delivered, Alike

\* The microphone tells all that an event tells of a speaker.
LEMMA SameMic ==
    ASSUME NEW r \in Speaker, NEW s \in Speaker, VadOf(r) = VadOf(s)
    PROVE  Name(r) = Name(s) /\ Source(r) = Source(s)
BY Names DEF Name, Source, VadOf, Speaker

LEMMA Published ==
    ASSUME IInv, NEW t \in tasks, Drop(t), Grows, published' = Append(published, Event(t))
    PROVE  /\ \A x \in Delivered' : \E y \in Delivered : Alike(x, y)
           /\ Named' /\ OneTask' /\ Order' /\ Apart'
<1>1. TypeOK /\ Good(t) /\ TaskNamed(t) /\ t \in Delivered
  BY DEF IInv, Parts, AllGood, Named, Delivered
<1>2. PICK e : e = Event(t)
  OBVIOUS
<1>3. /\ e.by = Name(t.by) /\ e.source = Source(t.by)
      /\ e.session = t.session /\ e.words = t.words
  BY <1>2 DEF Event
<1>a. t.session # Hub => t.by \in User /\ e.by = t.by
  BY <1>1, <1>3 DEF TaskNamed, Name
<1>4. PICK last \in Nat : last = Len(published) + 1
  BY <1>1 DEF TypeOK
<1>5. DOMAIN published' = DOMAIN published \cup {last} /\ last \notin DOMAIN published
      /\ DOMAIN published \subseteq Nat /\ \A i \in DOMAIN published : i < last
  BY <1>1, <1>4 DEF TypeOK
<1>6. published'[last] = e /\ \A i \in DOMAIN published : published'[i] = published[i]
  BY <1>1, <1>2, <1>4 DEF TypeOK
<1>7. tasks' = tasks \ {t}
  BY DEF Drop
<1>8. \A x \in Delivered' : \E y \in Delivered : Alike(x, y)
  <2>1. \A x \in Delivered' : x \in Delivered \/ x = e
    BY <1>5, <1>6, <1>7 DEF Delivered, Range
  <2> QED BY <1>1, <1>3, <1>a, <2>1 DEF Alike
<1>9. OneTask'
  BY <1>7 DEF IInv, Parts, OneTask
<1>10. Order'
  <2>1. ASSUME NEW i \in DOMAIN published', NEW j \in DOMAIN published', i < j,
               SameUser(published'[i], published'[j])
        PROVE  Below(Range(published'[i].words), Range(published'[j].words))
    <3>1. i \in DOMAIN published
      BY <1>5, <2>1
    <3>2. CASE j \in DOMAIN published
      BY <1>6, <2>1, <3>1, <3>2 DEF IInv, Parts, Order
    <3>3. CASE j = last
      BY <1>3, <1>a, <1>6, <2>1, <3>1, <3>3 DEF IInv, Parts, Order, SameUser
    <3> QED BY <1>5, <3>2, <3>3
  <2>2. ASSUME NEW i \in DOMAIN published', NEW u \in tasks', SameUser(published'[i], u)
        PROVE  Below(Range(published'[i].words), Range(u.words))
    <3>1. CASE i \in DOMAIN published
      BY <1>6, <1>7, <2>2, <3>1 DEF IInv, Parts, Order
    <3>2. CASE i = last
      <4>1. t.session = u.session /\ t.session # Hub
        BY <1>3, <1>6, <2>2, <3>2 DEF SameUser
      <4> QED BY <1>7, <4>1 DEF IInv, Parts, OneTask
    <3> QED BY <1>5, <3>1, <3>2
  <2> QED BY <2>1, <2>2 DEF Order
<1>11. Apart'
  <2>1. ASSUME NEW i \in DOMAIN published', NEW j \in DOMAIN published', i # j
        PROVE  Disjoint(published'[i], published'[j])
    <3>1. \A k \in DOMAIN published : Disjoint(published[k], e) /\ Disjoint(e, published[k])
      BY <1>3 DEF IInv, Parts, Apart, Disjoint
    <3>2. CASE i \in DOMAIN published /\ j \in DOMAIN published
      BY <1>6, <2>1, <3>2 DEF IInv, Parts, Apart
    <3>3. CASE i \in DOMAIN published /\ j = last
      BY <1>6, <3>1, <3>3
    <3>4. CASE i = last /\ j \in DOMAIN published
      BY <1>6, <3>1, <3>4
    <3> QED BY <1>5, <2>1, <3>2, <3>3, <3>4
  <2>2. ASSUME NEW i \in DOMAIN published', NEW u \in tasks'
        PROVE  Disjoint(published'[i], u)
    BY <1>3, <1>5, <1>6, <1>7 DEF IInv, Parts, Apart, Disjoint
  <2>3. \A x, u \in tasks' : x # u => Disjoint(x, u)
    BY <1>7 DEF IInv, Parts, Apart
  <2> QED BY <2>1, <2>2, <2>3 DEF Apart
<1>12. Named'
  <2>1. EventNamed(e)
    <3>1. ASSUME NEW n \in Range(t.words)
          PROVE  n \in DOMAIN spoken /\ Name(spoken[n].by) = Name(t.by)
                                     /\ Source(spoken[n].by) = Source(t.by)
      <4>1. n \in DOMAIN spoken /\ Mic(n) = VadOf(t.by) /\ t.by \in Speaker
        BY <1>1 DEF TaskNamed, TypeOK, Task
      <4>2. spoken[n].by \in Speaker
        BY <1>1, <4>1, WordsType
      <4> QED BY <4>1, <4>2, SameMic DEF Mic
    <3> QED BY <1>3, <3>1 DEF EventNamed
  <2>2. \A x \in Range(published') : x \in Range(published) \/ x = e
    BY <1>5, <1>6 DEF Range
  <2> QED
    BY <1>1, <1>7, <2>1, <2>2, TaskNamedKept, EventNamedKept DEF IInv, Parts, Named
<1> QED
  BY <1>8, <1>9, <1>10, <1>11, <1>12

LEMMA HandleInv ==
    ASSUME IInv, NEW t \in tasks, Handle(t)
    PROVE  Parts'
<1>1. TypeOK /\ Esp \in Vad
  BY DEF IInv, Parts, Vad
<1>2. UNCHANGED <<frame, current, live, sessions, spoken>> /\ Grows
  BY DEF Handle, Transcribed, NotTranscribed, Reset, Publish, connection, Grows
<1>3. vad' = vad \/ vad' = [vad EXCEPT ![Esp] = Fresh]
  BY DEF Handle, Transcribed, NotTranscribed, Reset, Publish
<1>4. \A k \in Vad : vad'[k].words \in {vad[k].words, <<>>}
  BY <1>1, <1>3, FreshType DEF TypeOK
<1>5. \A k \in Vad : Kept(k)
  BY <1>2, <1>4 DEF Kept, SessionOf
<1>6. Buffers' /\ \A k \in Vad : Fed(k)
  BY <1>2, <1>5, StillBuffers DEF IInv, Parts
<1>7. Closed'
  BY <1>2, <1>4 DEF IInv, Parts, Closed, Vad
<1>8. /\ \A x \in Delivered' : \E y \in Delivered : Alike(x, y)
      /\ Named' /\ OneTask' /\ Order' /\ Apart'
  <2>1. CASE Transcribed(t)
    <3>1. PICK step : Goto(t, step)
      BY <2>1 DEF Transcribed
    <3>2. published' = published
      BY <2>1 DEF Transcribed, bus
    <3> QED BY <1>2, <3>1, <3>2, Moved
  <2>2. CASE NotTranscribed(t)
    BY <1>2, <2>2, Dropped DEF NotTranscribed, bus
  <2>3. CASE Reset(t)
    BY <1>2, <2>3, Moved DEF Reset, bus
  <2>4. CASE Publish(t)
    BY <1>2, <2>4, Published DEF Publish
  <2> QED BY <2>1, <2>2, <2>3, <2>4 DEF Handle
<1>9. sessions' \in Nat /\ sessions <= sessions'
  BY <1>1, <1>2 DEF TypeOK
<1>10. AllGood'
  BY <1>1, <1>2, <1>6, <1>8, <1>9, Carried DEF IInv, Parts
<1> QED
  BY <1>6, <1>7, <1>8, <1>10 DEF Parts
-----------------------------------------------------------------------------
LEMMA InitInv == Init => IInv
<1> SUFFICES ASSUME Init PROVE IInv
  OBVIOUS
<1>1. TypeOK
  BY InitType
<1>2. \A k \in Vad : vad[k].words = <<>>
  BY FreshType DEF Init
<1>3. \A d \in Device : frame[d].words = <<>> /\ frame[d].n = Quiet /\ Pending(d) = {}
  BY RangeOfEmpty DEF Init, Idle, Pending
<1>4. Buffers
  <2>1. \A k \in Vad : BufferOK(k)
    BY <1>2, SortedEmpty, RangeOfEmpty DEF BufferOK
  <2>2. \A d \in Device : FrameOK(d)
    BY <1>3, SortedEmpty DEF FrameOK
  <2> QED BY <2>1, <2>2 DEF Buffers
<1>5. Delivered = {}
  BY RangeOfEmpty DEF Init, Delivered
<1>6. AllGood /\ Named /\ OneTask /\ Order /\ Apart
  BY <1>5 DEF AllGood, Named, Delivered, OneTask, Order, Apart, Init
<1>7. Closed
  BY <1>2 DEF Closed, Vad
<1> QED
  BY <1>1, <1>4, <1>6, <1>7 DEF IInv, Parts

LEMMA NextInv == IInv /\ [Next]_vars => IInv'
<1> SUFFICES ASSUME IInv, [Next]_vars PROVE IInv'
  OBVIOUS
<1>1. TypeOK'
  BY NextType DEF IInv, Parts
<1>2. ASSUME NEW s \in User \cup Web, NEW n \in Frames, NEW dt \in 0..MaxGap, Listen(s, n, dt)
      PROVE  Parts'
  BY <1>2, ListenInv
<1>3. ASSUME NEW d \in Device, NEW n \in Frames, NEW dt \in 0..MaxGap, Enter(d, n, dt)
      PROVE  Parts'
  BY <1>3, EnterInv
<1>4. ASSUME NEW d \in Device, Rest(d)
      PROVE  Parts'
  BY <1>4, RestInv
<1>5. ASSUME NEW u \in User, CleanupUser(u)
      PROVE  Parts'
  BY <1>5, EmptiedInv DEF CleanupUser, Hears, bus, Vad
<1>6. ASSUME NEW w \in Web, HangUp(w)
      PROVE  Parts'
  BY <1>6, EmptiedInv DEF HangUp, Hears, bus, Vad
<1>7. ASSUME JoinBegin \/ JoinEnds \/ JoinFails \/ Leave \/ Kick \/ Move PROVE Parts'
  BY <1>7, ConnectionInv
<1>8. ASSUME NEW t \in tasks, Handle(t)
      PROVE  Parts'
  BY <1>8, HandleInv
<1>9. ASSUME Take \/ UNCHANGED vars PROVE Parts'
  BY <1>9, TakeInv
<1>10. Parts'
  BY <1>2, <1>3, <1>4, <1>5, <1>6, <1>7, <1>8, <1>9 DEF Next
<1> QED
  BY <1>1, <1>10 DEF IInv, Parts

LEMMA Invariant == Spec => []IInv
BY InitInv, NextInv, PTL DEF Spec

\* What was published is good.
LEMMA PublishedGood ==
    ASSUME IInv, NEW i \in DOMAIN published
    PROVE  /\ Good(published[i]) /\ EventNamed(published[i])
           /\ published[i].words \in Seq(Nat)
<1>1. published[i] \in Delivered /\ published[i] \in Range(published)
  BY DEF Delivered, Range
<1> QED
  BY <1>1, WordsType DEF IInv, Parts, AllGood, Named

\* The conversation hears a user's words, in one session, in the order in which
\* they were said: the one goroutine of a session holds up what feeds it.
THEOREM HeardInOrder == Spec => []InOrder
<1>1. IInv => InOrder
  <2> SUFFICES ASSUME IInv, NEW i \in DOMAIN published, NEW j \in DOMAIN published,
                      i <= j, SameUser(published[i], published[j]),
                      NEW a \in DOMAIN published[i].words, NEW b \in DOMAIN published[j].words,
                      i < j \/ a < b
               PROVE  published[i].words[a] < published[j].words[b]
    BY DEF InOrder
  <2>1. i \in Nat /\ j \in Nat
    BY DEF IInv, Parts, TypeOK
  <2>2. CASE i < j
    <3>1. Below(Range(published[i].words), Range(published[j].words))
      BY <2>2 DEF IInv, Parts, Order
    <3> QED BY <3>1 DEF Below, Range
  <2>3. CASE i = j
    <3>1. Sorted(published[i].words)
      BY PublishedGood DEF Good
    <3> QED BY <2>1, <2>3, <3>1 DEF Sorted
  <2> QED BY <2>1, <2>2, <2>3
<1> QED
  BY Invariant, <1>1, PTL

\* An event names who said its words, as its source knows it, and the session in
\* which they were said, also when the agent has joined another channel since.
THEOREM Attribution == Spec => []Attributed
<1>1. IInv => Attributed
  <2> SUFFICES ASSUME IInv, NEW i \in DOMAIN published, NEW n \in Range(published[i].words)
               PROVE  /\ n \in Said
                      /\ published[i].by = Name(spoken[n].by)
                      /\ published[i].source = Source(spoken[n].by)
                      /\ published[i].session = spoken[n].session
    BY DEF Attributed
  <2>1. Past(n, published[i].session) /\ EventNamed(published[i])
    BY PublishedGood DEF Good
  <2> QED BY <2>1 DEF Past, EventNamed, Said
<1> QED
  BY Invariant, <1>1, PTL

\* No word is heard twice, and none that was heard is still held, although
\* goroutines of older utterances reset a detector that is in use.
THEOREM NoWordTwice == Spec => []HeardOnce
<1>1. IInv => HeardOnce
  <2> SUFFICES ASSUME IInv PROVE HeardOnce
    OBVIOUS
  <2>1. \A i, j \in DOMAIN published :
            i # j => Range(published[i].words) \cap Range(published[j].words) = {}
    BY DEF IInv, Parts, Apart, Disjoint
  <2>2. \A t, u \in tasks : t # u => Range(t.words) \cap Range(u.words) = {}
    BY DEF IInv, Parts, Apart, Disjoint
  <2>3. Words(tasks) \cap Heard = {}
    BY DEF IInv, Parts, Apart, Disjoint, Words, Heard, Range
  <2>4. ASSUME NEW k \in Vad, NEW n \in Range(vad[k].words), n \in Words(tasks) \cup Heard
        PROVE  FALSE
    <3>1. PICK x \in Delivered : n \in Range(x.words)
      BY <2>4 DEF Words, Heard, Delivered
    <3>2. Good(x) /\ BufferOK(k)
      BY DEF IInv, Parts, AllGood, Buffers
    <3>3. Owned(n, k, SessionOf(k)) /\ Past(n, x.session)
      BY <3>1, <3>2 DEF Good, BufferOK
    <3>4. Mic(n) = k /\ x.session = SessionOf(k) /\ n \in Nat
      BY <3>3, OwnedOld DEF Owned, Past, Mic, IInv
    <3>5. n \in Coming(k)
      BY DEF Coming
    <3> QED BY <3>3, <3>4, <3>5 DEF Past, Below
  <2> QED BY <2>1, <2>2, <2>3, <2>4 DEF HeardOnce
<1> QED
  BY Invariant, <1>1, PTL
-----------------------------------------------------------------------------
(* Where words are.  A detector that hears nobody holds nothing; a frame   *)
(* that was overtaken by a reset holds what the reset discarded.           *)

InVad(n)   == \E k \in Vad : n \in Range(vad[k].words)
InTask(n)  == \E t \in tasks : n \in Range(t.words)
InEvent(n) == \E i \in DOMAIN published : n \in Range(published[i].words)
InFrame(n) == \E d \in Device : n \in Range(frame[d].words) \/ n = frame[d].n
Found(n)   == InVad(n) \/ InTask(n) \/ InEvent(n) \/ InFrame(n) \/ n \in lost

Awake == \A k \in Vad : vad[k].speaking \/ vad[k] = Fresh
Torn  == \A d \in Device :
             IF ~frame[d].busy THEN frame[d] = Idle
             ELSE \/ frame[d].words = vad[Esp].words
                  \/ vad[Esp] = Fresh /\ Range(frame[d].words) \subseteq lost
AllFound == \A n \in Said : Found(n)

Trace == Awake /\ Torn /\ AllFound
AInv  == TypeOK /\ Trace

\* Nothing a detector or an utterance lets go of is missing afterwards.
LEMMA FoundKept ==
    ASSUME AInv, frame' = frame, Said' = Said, lost \subseteq lost',
           \A k \in Vad : \A n \in Range(vad[k].words) : n \in Range(vad'[k].words) \cup lost',
           \A n : InTask(n) => Found(n)',
           \A n : InEvent(n) => InEvent(n)'
    PROVE  AllFound'
BY DEF AInv, Trace, AllFound, Found, InVad, InFrame

\* What becomes of the words of an utterance that is fed.
LEMMA ProcessedWords ==
    ASSUME TypeOK, NEW s \in Speaker, NEW v \in Detector, NEW n \in Nat, Process(s, v, n)
    PROVE  /\ lost \subseteq lost' /\ tasks \subseteq tasks'
           /\ \A m \in Range(v.words) : InVad(m)' \/ InTask(m)' \/ m \in lost'
           /\ vad'[VadOf(s)] = Fresh \/ (vad'[VadOf(s)] = v /\ ~Over(s, v, n))
<1>1. VadOf(s) \in Vad
  BY VadOfType
<1>2. CASE GoesOn(s, v, n)
  <2>1. vad'[VadOf(s)] = v
    BY <1>1, <1>2 DEF GoesOn, TypeOK
  <2>2. lost' = lost /\ tasks' = tasks /\ ~Over(s, v, n)
    BY <1>2 DEF GoesOn
  <2> QED BY <1>1, <2>1, <2>2 DEF InVad
<1>3. CASE TooShort(s, v, n)
  <2>1. vad'[VadOf(s)] = Fresh
    BY <1>1, <1>3 DEF TooShort, TypeOK, Ended
  <2>2. lost' = lost \cup Range(v.words) /\ tasks' = tasks
    BY <1>3 DEF TooShort
  <2> QED BY <2>1, <2>2
<1>4. CASE Ends(s, v, n)
  <2>1. vad'[VadOf(s)] = Fresh
    BY <1>1, <1>4 DEF Ends, TypeOK, Ended
  <2>2. PICK t : /\ t = [by |-> s, session |-> Session(s), words |-> v.words, at |-> "stt"]
                 /\ tasks' = tasks \cup {t} /\ lost' = lost
    BY <1>4 DEF Ends
  <2>3. t \in tasks' /\ t.words = v.words
    BY <2>2
  <2>4. \A m \in Range(v.words) : InTask(m)'
    BY <2>3 DEF InTask
  <2> QED BY <2>1, <2>2, <2>4
<1> QED
  BY <1>2, <1>3, <1>4 DEF Process

LEMMA SaidGrows ==
    ASSUME TypeOK, NEW s \in Speaker, NEW n, Says(s, n)
    PROVE  \A m \in Said' : m \in Said \/ (m = n /\ n # Quiet)
<1>1. CASE spoken' = spoken
  BY <1>1 DEF Said
<1>2. CASE n = Len(spoken) + 1 /\ spoken' = Append(spoken, [by |-> s, session |-> Session(s)])
  BY <1>2 DEF Said, Quiet, TypeOK
<1> QED
  BY <1>1, <1>2 DEF Says

\* A frame is heard by a detector that is awake, or wakes it.
LEMMA Woken ==
    ASSUME TypeOK, Awake, NEW s \in Speaker, NEW n \in Nat, NEW dt \in Nat, Says(s, n)
    PROVE  LET v == Start(Elapse(vad[VadOf(s)], dt), n)
           IN  v \in Detector /\ v.speaking /\ v.words = vad[VadOf(s)].words
<1>1. PICK w : w = vad[VadOf(s)]
  OBVIOUS
<1>2. w \in Detector /\ (w.speaking \/ w = Fresh)
  BY <1>1, VadOfType DEF TypeOK, Awake
<1>3. PICK e : e = Elapse(w, dt)
  OBVIOUS
<1>4. e \in Detector /\ e.words = w.words /\ e.speaking = w.speaking
  BY <1>2, <1>3, ElapseType
<1>5. Start(e, n) \in Detector
  BY <1>4, StartType
<1>6. CASE w.speaking
  <2>1. Start(e, n) = e
    BY <1>4, <1>6 DEF Start
  <2> QED BY <1>1, <1>3, <1>4, <1>6, <2>1
<1>7. CASE ~w.speaking
  <2>1. n # Quiet /\ w.words = <<>>
    <3>1. w.words = <<>>
      BY <1>2, <1>7, FreshType
    <3>2. n = Len(spoken) + 1 /\ Len(spoken) \in Nat
      BY <1>1, <1>7 DEF Says, TypeOK
    <3> QED BY <3>1, <3>2 DEF Quiet
  <2>2. Start(e, n) = [e EXCEPT !.speaking = TRUE, !.age = 0, !.words = <<>>]
    BY <1>4, <1>7, <2>1 DEF Start
  <2>3. Start(e, n).speaking /\ Start(e, n).words = <<>>
    BY <1>4, <2>2 DEF Detector
  <2> QED BY <1>1, <1>3, <1>5, <2>1, <2>3
<1> QED
  BY <1>6, <1>7

LEMMA Added ==
    ASSUME NEW v \in Detector, NEW words \in Seq(Nat), NEW n \in Nat
    PROVE  /\ Add(v, words, n) \in Detector
           /\ Add(v, words, n).speaking = v.speaking /\ Add(v, words, n).age = v.age
           /\ Range(Add(v, words, n).words) = Range(words) \cup ({n} \ {Quiet})
<1>1. Add(v, words, n).speaking = v.speaking /\ Add(v, words, n).age = v.age
  BY DEF Add, Detector
<1>2. Range(Append(words, n)) = Range(words) \cup {n}
  BY RangeOfAppend
<1>3. /\ Add(v, words, n) \in Detector
      /\ Add(v, words, n).words = IF n = Quiet THEN words ELSE Append(words, n)
  BY AddType
<1> QED
  BY <1>1, <1>2, <1>3

LEMMA ListenFound ==
    ASSUME AInv, NEW s \in User \cup Web, NEW n, NEW dt \in 0..MaxGap, Listen(s, n, dt)
    PROVE  Trace'
<1>1. /\ TypeOK /\ Awake /\ s \in Speaker /\ VadOf(s) \in Vad /\ VadOf(s) # Esp
      /\ Says(s, n) /\ dt \in Nat /\ UNCHANGED <<frame, published>>
  BY Names, VadOfType, Bounds DEF AInv, Trace, Listen, Speaker, bus, VadOf
<1>2. n \in Nat
  BY <1>1, SaysType
<1>3. PICK v : v = Start(Elapse(vad[VadOf(s)], dt), n)
  OBVIOUS
<1>4. v \in Detector /\ v.speaking /\ v.words = vad[VadOf(s)].words /\ v.words \in Seq(Nat)
  <2>1. v \in Detector /\ v.speaking /\ v.words = vad[VadOf(s)].words
    BY <1>1, <1>2, <1>3, Woken
  <2> QED BY <2>1 DEF Detector
<1>5. PICK a : a = Add(v, v.words, n)
  OBVIOUS
<1>6. a \in Detector /\ a.speaking = v.speaking
      /\ Range(a.words) = Range(v.words) \cup ({n} \ {Quiet})
  BY <1>2, <1>4, <1>5, Added
<1>7. Process(s, a, n)
  BY <1>3, <1>5 DEF Listen
<1>8. /\ lost \subseteq lost' /\ tasks \subseteq tasks'
      /\ \A m \in Range(a.words) : InVad(m)' \/ InTask(m)' \/ m \in lost'
      /\ vad'[VadOf(s)] = Fresh \/ vad'[VadOf(s)] = a
  BY <1>1, <1>2, <1>6, <1>7, ProcessedWords
<1>9. \A k \in Vad : k # VadOf(s) => vad'[k] = vad[k]
  BY <1>1, <1>2, <1>6, <1>7, Processed
<1>10. Awake'
  BY <1>1, <1>4, <1>6, <1>8, <1>9 DEF Awake
<1>11. Torn'
  <2>1. vad'[Esp] = vad[Esp]
    BY <1>1, <1>9 DEF Vad
  <2> QED BY <1>1, <1>8, <2>1 DEF AInv, Trace, Torn
<1>12. \A m \in Said' : Found(m)'
  <2>1. \A m \in Range(vad[VadOf(s)].words) \cup ({n} \ {Quiet}) : Found(m)'
    BY <1>4, <1>6, <1>8 DEF Found
  <2>2. ASSUME NEW m \in Said PROVE Found(m)'
    <3>1. Found(m)
      BY DEF AInv, Trace, AllFound
    <3>2. CASE InVad(m)
      BY <1>9, <2>1, <3>2 DEF InVad, Found
    <3>3. CASE InTask(m)
      BY <1>8, <3>3 DEF InTask, Found
    <3>4. CASE InEvent(m) \/ InFrame(m) \/ m \in lost
      BY <1>1, <1>8, <3>4 DEF InEvent, InFrame, Found
    <3> QED BY <3>1, <3>2, <3>3, <3>4 DEF Found
  <2> QED BY <1>1, <2>1, <2>2, SaidGrows
<1> QED
  BY <1>10, <1>11, <1>12 DEF Trace, AllFound

LEMMA RestFound == ASSUME AInv, NEW d \in Device, Rest(d) PROVE Trace'
<1>1. /\ TypeOK /\ Awake /\ d \in Speaker /\ VadOf(d) = Esp /\ Esp \in Vad
      /\ UNCHANGED <<published, spoken>> /\ frame' = [frame EXCEPT ![d] = Idle]
  BY DEF AInv, Trace, Rest, Speaker, bus, VadOf, Vad
<1>2. PICK words \in {frame[d].words, vad[Esp].words} :
          Process(d, Add(vad[Esp], words, frame[d].n), frame[d].n)
  BY DEF Rest
<1>3. PICK n \in Nat : n = frame[d].n
  BY <1>1, WordsType
<1>4. vad[Esp] \in Detector /\ words \in Seq(Nat)
  BY <1>1, <1>2, WordsType DEF TypeOK
<1>5. PICK a : a = Add(vad[Esp], words, n)
  OBVIOUS
<1>6. a \in Detector /\ a.speaking = vad[Esp].speaking /\ a.age = vad[Esp].age
      /\ Range(a.words) = Range(words) \cup ({n} \ {Quiet})
  BY <1>4, <1>5, Added
<1>7. Process(d, a, n)
  BY <1>2, <1>3, <1>5
<1>8. /\ lost \subseteq lost' /\ tasks \subseteq tasks'
      /\ \A m \in Range(a.words) : InVad(m)' \/ InTask(m)' \/ m \in lost'
      /\ vad'[Esp] = Fresh \/ (vad'[Esp] = a /\ ~Over(d, a, n))
  BY <1>1, <1>6, <1>7, ProcessedWords
<1>9. \A k \in Vad : k # Esp => vad'[k] = vad[k]
  BY <1>1, <1>6, <1>7, Processed
<1>10. vad[Esp] = Fresh => Over(d, a, n)
  <2>1. Fresh.age = Long /\ d \notin User
    BY Names DEF Fresh
  <2>2. Limit(d).max > 0 /\ Long >= Limit(d).max
    BY <2>1, LimitsOK DEF Limit
  <2> QED BY <1>6, <2>1, <2>2 DEF Over, TooLong
<1>11. Awake'
  BY <1>1, <1>6, <1>8, <1>9, <1>10 DEF Awake
<1>12. Torn'
  <2>1. \A e \in Device : frame'[e] = Idle
    BY <1>1, OneDevice DEF TypeOK
  <2>2. ~Idle.busy
    BY DEF Idle
  <2> QED BY <2>1, <2>2, Zenon DEF Torn
<1>13. \A m \in Said : Found(m)'
  <2>1. \A m \in Range(a.words) : Found(m)'
    BY <1>8 DEF Found
  <2>2. \A m \in Range(frame[d].words) \cup Range(vad[Esp].words) : m \in Range(a.words) \cup lost
    <3>1. \/ frame[d].words = vad[Esp].words
          \/ vad[Esp] = Fresh /\ Range(frame[d].words) \subseteq lost
      BY DEF AInv, Trace, Torn, Rest
    <3>2. Range(Fresh.words) = {}
      BY FreshType, RangeOfEmpty
    <3> QED BY <1>2, <1>6, <3>1, <3>2
  <2>3. ASSUME NEW m \in Said PROVE Found(m)'
    <3>1. Found(m) /\ m # Quiet
      BY <1>1 DEF AInv, Trace, AllFound, Said, TypeOK, Quiet
    <3>2. CASE InVad(m)
      <4>1. PICK k \in Vad : m \in Range(vad[k].words)
        BY <3>2 DEF InVad
      <4>2. CASE k = Esp
        BY <1>8, <2>1, <2>2, <4>1, <4>2 DEF Found
      <4>3. CASE k # Esp
        BY <1>9, <4>1, <4>3 DEF InVad, Found
      <4> QED BY <4>2, <4>3
    <3>3. CASE InTask(m)
      BY <1>8, <3>3 DEF InTask, Found
    <3>4. CASE InFrame(m)
      <4>1. m \in Range(frame[d].words) \/ m = n
        BY <1>3, <3>4, OneDevice DEF InFrame
      <4> QED BY <1>6, <1>8, <2>1, <2>2, <3>1, <4>1 DEF Found
    <3>5. CASE InEvent(m) \/ m \in lost
      BY <1>1, <1>8, <3>5 DEF InEvent, Found
    <3> QED BY <3>1, <3>2, <3>3, <3>4, <3>5 DEF Found
  <2> QED BY <2>3
<1> QED
  BY <1>1, <1>11, <1>12, <1>13 DEF Trace, AllFound, Said

LEMMA EnterFound ==
    ASSUME AInv, NEW d \in Device, NEW n, NEW dt \in 0..MaxGap, Enter(d, n, dt)
    PROVE  Trace'
<1>1. /\ TypeOK /\ Awake /\ d \in Speaker /\ VadOf(d) = Esp /\ Esp \in Vad
      /\ Says(d, n) /\ dt \in Nat /\ UNCHANGED <<tasks, published, lost>>
  BY Bounds DEF AInv, Trace, Enter, Speaker, bus, VadOf, Vad
<1>2. n \in Nat
  BY <1>1, SaysType
<1>3. PICK v : v = Start(Elapse(vad[Esp], dt), n)
  OBVIOUS
<1>4. v \in Detector /\ v.speaking /\ v.words = vad[Esp].words
  BY <1>1, <1>2, <1>3, Woken
<1>5. vad' = [vad EXCEPT ![Esp] = v]
      /\ frame' = [frame EXCEPT ![d] = [busy |-> TRUE, n |-> n, words |-> v.words]]
  BY <1>3 DEF Enter
<1>6. /\ vad'[Esp] = v /\ \A k \in Vad : k # Esp => vad'[k] = vad[k]
      /\ \A e \in Device : frame'[e].words = v.words /\ frame'[e].n = n /\ frame'[e].busy
  BY <1>1, <1>5, OneDevice DEF TypeOK
<1>7. Awake' /\ Torn'
  BY <1>1, <1>4, <1>6 DEF Awake, Torn, Idle
<1>8. ASSUME NEW m \in Said PROVE Found(m)'
  <2>1. Found(m) /\ m # Quiet
    BY <1>1 DEF AInv, Trace, AllFound, Said, TypeOK, Quiet
  <2>2. CASE InVad(m)
    BY <1>4, <1>6, <2>2 DEF InVad, Found
  <2>3. CASE InFrame(m)
    <3>1. frame[d].words = <<>> /\ frame[d].n = Quiet
      BY <1>1 DEF Enter, AInv, Trace, Torn, Idle
    <3> QED BY <2>1, <2>3, <3>1, OneDevice, RangeOfEmpty DEF InFrame
  <2>4. CASE InTask(m) \/ InEvent(m) \/ m \in lost
    BY <1>1, <2>4 DEF InTask, InEvent, Found
  <2> QED BY <2>1, <2>2, <2>3, <2>4 DEF Found
<1>9. Found(n)'
  BY <1>6 DEF Found, InFrame
<1> QED
  BY <1>1, <1>7, <1>8, <1>9, SaidGrows DEF Trace, AllFound

\* Detectors of users and browsers that are emptied, into what is lost.
Emptied(k) == k # Esp /\ vad'[k] = Fresh /\ Range(vad[k].words) \subseteq lost'

LEMMA EmptiedFound ==
    ASSUME AInv, UNCHANGED Hears, lost \subseteq lost',
           \A k \in Vad : vad'[k] = vad[k] \/ Emptied(k)
    PROVE  Trace'
<1>1. UNCHANGED <<frame, tasks, published, spoken>>
  BY DEF Hears
<1>2. Awake'
  BY DEF AInv, Trace, Awake, Emptied
<1>3. Torn'
  <2>1. vad'[Esp] = vad[Esp]
    BY DEF Vad, Emptied
  <2> QED BY <1>1, <2>1 DEF AInv, Trace, Torn
<1>4. AllFound'
  <2>1. \A k \in Vad : \A n \in Range(vad[k].words) : n \in Range(vad'[k].words) \cup lost'
    BY DEF Emptied
  <2>2. \A n : (InTask(n) => Found(n)') /\ (InEvent(n) => InEvent(n)')
    BY <1>1 DEF InTask, InEvent, Found
  <2> QED BY <1>1, <2>1, <2>2, FoundKept DEF Said
<1> QED
  BY <1>2, <1>3, <1>4 DEF Trace

LEMMA ConnectionFound ==
    ASSUME AInv, JoinBegin \/ JoinEnds \/ JoinFails \/ Leave \/ Kick \/ Move
    PROVE  Trace'
<1>1. UNCHANGED Hears
  BY DEF JoinBegin, JoinEnds, JoinFails, Leave, Kick, Move, Hears, bus
<1>2. (vad' = vad /\ lost' = lost) \/ Close
  BY DEF JoinBegin, JoinEnds, JoinFails, Leave, Kick, Move, NotClosed
<1>3. ASSUME Close
      PROVE  lost \subseteq lost' /\ \A k \in Vad : vad'[k] = vad[k] \/ Emptied(k)
  <2>1. \A k \in User : k # Esp /\ Range(vad[k].words) \subseteq lost'
    BY <1>3, Names DEF Close, Speaker
  <2>2. \A k \in Vad : vad'[k] = IF k \in User THEN Fresh ELSE vad[k]
    BY <1>3 DEF Close
  <2>3. lost \subseteq lost'
    BY <1>3 DEF Close
  <2> QED BY <2>1, <2>2, <2>3 DEF Emptied
<1> QED
  BY <1>1, <1>2, <1>3, EmptiedFound

LEMMA HandleFound == ASSUME AInv, NEW t \in tasks, Handle(t) PROVE Trace'
<1>1. TypeOK /\ Esp \in Vad /\ UNCHANGED <<frame, spoken>> /\ lost \subseteq lost'
  BY DEF AInv, Vad, Handle, Transcribed, NotTranscribed, Reset, Publish
<1>2. \/ vad' = vad
      \/ /\ vad'[Esp] = Fresh /\ Range(vad[Esp].words) \subseteq lost'
         /\ \A k \in Vad : k # Esp => vad'[k] = vad[k]
  BY <1>1 DEF Handle, Transcribed, NotTranscribed, Reset, Publish, TypeOK
<1>3. Awake'
  BY <1>1, <1>2 DEF AInv, Trace, Awake
<1>4. Torn'
  <2>1. vad'[Esp] = vad[Esp] \/ (vad'[Esp] = Fresh /\ Range(vad[Esp].words) \subseteq lost')
    BY <1>2
  <2>2. ASSUME NEW d \in Device, frame[d].busy
        PROVE  \/ frame[d].words = vad'[Esp].words
               \/ vad'[Esp] = Fresh /\ Range(frame[d].words) \subseteq lost'
    <3>1. \/ frame[d].words = vad[Esp].words
          \/ vad[Esp] = Fresh /\ Range(frame[d].words) \subseteq lost
      BY <2>2 DEF AInv, Trace, Torn
    <3> QED BY <1>1, <2>1, <3>1
  <2> QED BY <1>1, <2>2 DEF AInv, Trace, Torn
<1>5. \A n : InEvent(n) => InEvent(n)'
  <2>1. CASE published' = published
    BY <2>1 DEF InEvent
  <2>2. CASE published' = Append(published, Event(t))
    <3>1. \A i \in DOMAIN published : i \in DOMAIN published' /\ published'[i] = published[i]
      BY <1>1, <2>2 DEF TypeOK
    <3> QED BY <3>1 DEF InEvent
  <2> QED BY <2>1, <2>2 DEF Handle, Transcribed, NotTranscribed, Reset, Publish, bus
<1>6. \A n : InTask(n) => Found(n)'
  <2> SUFFICES ASSUME NEW n, InTask(n) PROVE Found(n)'
    OBVIOUS
  <2>1. PICK u \in tasks : n \in Range(u.words)
    BY DEF InTask
  <2>2. CASE u # t
    <3>1. u \in tasks'
      BY <2>2 DEF Handle, Transcribed, NotTranscribed, Reset, Publish, Goto, Drop
    <3> QED BY <2>1, <3>1 DEF Found, InTask
  <2>3. CASE u = t
    <3>1. ASSUME NEW step, Goto(t, step) PROVE InTask(n)'
      <4>1. [t EXCEPT !.at = step].words = t.words /\ [t EXCEPT !.at = step] \in tasks'
        BY <1>1, <3>1 DEF Goto, TypeOK, Task
      <4> QED BY <2>1, <2>3, <4>1 DEF InTask
    <3>2. CASE Transcribed(t)
      BY <3>1, <3>2 DEF Transcribed, Found
    <3>3. CASE NotTranscribed(t)
      BY <2>1, <2>3, <3>3 DEF NotTranscribed, Found
    <3>4. CASE Reset(t)
      BY <3>1, <3>4 DEF Reset, Found
    <3>5. CASE Publish(t)
      <4>1. PICK last : last = Len(published) + 1
        OBVIOUS
      <4>2. last \in DOMAIN published' /\ published'[last] = Event(t)
        BY <1>1, <3>5, <4>1 DEF Publish, TypeOK
      <4>3. Event(t).words = t.words
        BY DEF Event
      <4> QED BY <2>1, <2>3, <4>2, <4>3 DEF InEvent, Found
    <3> QED BY <3>2, <3>3, <3>4, <3>5 DEF Handle
  <2> QED BY <2>2, <2>3
<1>7. \A k \in Vad : \A n \in Range(vad[k].words) : n \in Range(vad'[k].words) \cup lost'
  BY <1>2
<1>8. AllFound'
  BY <1>1, <1>5, <1>6, <1>7, FoundKept DEF Said
<1> QED
  BY <1>3, <1>4, <1>8 DEF Trace

LEMMA NextFound == AInv /\ [Next]_vars => AInv'
<1> SUFFICES ASSUME AInv, [Next]_vars PROVE AInv'
  OBVIOUS
<1>1. TypeOK'
  BY NextType DEF AInv
<1>2. ASSUME NEW s \in User \cup Web, NEW n \in Frames, NEW dt \in 0..MaxGap, Listen(s, n, dt)
      PROVE  Trace'
  BY <1>2, ListenFound
<1>3. ASSUME NEW d \in Device, NEW n \in Frames, NEW dt \in 0..MaxGap, Enter(d, n, dt)
      PROVE  Trace'
  BY <1>3, EnterFound
<1>4. ASSUME NEW d \in Device, Rest(d) PROVE Trace'
  BY <1>4, RestFound
<1>5. ASSUME NEW k \in User \cup Web, CleanupUser(k) \/ HangUp(k) PROVE Trace'
  <2>1. k \in Vad /\ k # Esp
    BY Names DEF Vad, Speaker
  <2>2. UNCHANGED Hears /\ lost' = lost \cup Range(vad[k].words)
        /\ vad' = [vad EXCEPT ![k] = Fresh]
    BY <1>5 DEF CleanupUser, HangUp, Hears, bus
  <2>3. \A l \in Vad : vad'[l] = IF l = k THEN Fresh ELSE vad[l]
    BY <2>1, <2>2 DEF AInv, TypeOK
  <2>4. (\A l \in Vad : vad'[l] = vad[l] \/ Emptied(l)) /\ lost \subseteq lost'
    BY <2>1, <2>2, <2>3 DEF Emptied
  <2> QED BY <2>2, <2>4, EmptiedFound
<1>6. ASSUME JoinBegin \/ JoinEnds \/ JoinFails \/ Leave \/ Kick \/ Move PROVE Trace'
  BY <1>6, ConnectionFound
<1>7. ASSUME NEW t \in tasks, Handle(t) PROVE Trace'
  BY <1>7, HandleFound
<1>8. ASSUME Take \/ UNCHANGED vars PROVE Trace'
  <2>1. UNCHANGED Hears /\ vad' = vad /\ lost' = lost
    BY <1>8 DEF Take, vars, bus, Hears
  <2> QED BY <2>1, EmptiedFound
<1>9. Trace'
  BY <1>2, <1>3, <1>4, <1>5, <1>6, <1>7, <1>8 DEF Next
<1> QED
  BY <1>1, <1>9 DEF AInv

\* Every word is heard, on its way or was discarded for a reason, although a
\* reset may overtake the frame that a detector is at.
THEOREM NothingVanishes == Spec => []Accounted
<1>1. Init => AInv
  <2> SUFFICES ASSUME Init PROVE AInv
    OBVIOUS
  <2>1. Awake /\ Torn /\ Said = {}
    BY DEF Init, Awake, Torn, Idle, Said
  <2> QED BY <2>1, InitType DEF AInv, Trace, AllFound
<1>2. AInv => Accounted
  <2> SUFFICES ASSUME AInv, NEW n \in Said PROVE n \in Heard \cup Held \cup lost
    BY DEF Accounted
  <2>1. Found(n)
    BY DEF AInv, Trace, AllFound
  <2>2. CASE InVad(n)
    <3>1. PICK k \in Vad : n \in Range(vad[k].words)
      BY <2>2 DEF InVad
    <3>2. vad[k] \in Range(vad)
      BY DEF AInv, TypeOK, Range
    <3> QED BY <3>1, <3>2 DEF Held, Words
  <2>3. CASE InTask(n)
    BY <2>3 DEF InTask, Held, Words
  <2>4. CASE InEvent(n)
    BY <2>4 DEF InEvent, Heard, Words, Range
  <2>5. CASE InFrame(n)
    BY <2>5 DEF InFrame, Held
  <2> QED BY <2>1, <2>2, <2>3, <2>4, <2>5 DEF Found
<1> QED
  BY <1>1, <1>2, NextFound, PTL DEF Spec
=============================================================================
