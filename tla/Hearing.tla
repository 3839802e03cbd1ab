------------------------------- MODULE Hearing -------------------------------
(***************************************************************************)
(* How speech becomes an event: frames of a Discord voice channel          *)
(* (src/agent/internal/capability/voice), of browsers and of devices       *)
(* (channel/device) go through a voice activity detector (VAD), which cuts *)
(* them into utterances; an utterance is transcribed and published on the  *)
(* bus.                                                                    *)
(*                                                                         *)
(* Discord: one VAD for each user of a session; one goroutine per session  *)
(* reads, transcribes and publishes, so nothing is read meanwhile.  A      *)
(* session that was left may still be at its last utterance.  A session    *)
(* stands for the channel it joined; it lives on when Discord moves the    *)
(* agent to another one.  Browsers: one VAD per connection, a goroutine    *)
(* per utterance.  Devices: one VAD for all, used without a lock, and      *)
(* reset after each utterance of the hub.                                  *)
(*                                                                         *)
(* Words are the loud frames, numbered as they are read.  Time is counted  *)
(* in units of a VAD; how much passes between two frames is open.          *)
(*                                                                         *)
(* Definitions that nothing uses, placed before the one they resemble, are *)
(* mistakes the properties must notice (README, Mistakes).                 *)
(***************************************************************************)
EXTENDS Integers, Sequences, Functions

CONSTANTS
    User,          \* members of the voice channel
    Web,           \* connections of browsers
    Device,        \* connections of devices
    Esp,           \* the name of the VAD of the devices
    Owner,         \* whom the hub names as its speaker; may be a User
    Limits,        \* silence, min and max of the VADs of Discord and of the hub
    Long,          \* what counts as the time since the zero time
    BusCap,        \* capacity of the bus
    MaxGap,        \* longest time between two frames, a bound of the model
    MaxWords,      \* loud frames, a bound of the model
    MaxSessions,   \* joins of a voice channel, a bound of the model
    MaxMoved       \* sessions in which the agent is moved, a bound of the model

Speaker == User \cup Web \cup Device
Vad     == User \cup Web \cup {Esp}

ASSUME Names ==
    /\ User \cap Web = {} /\ User \cap Device = {} /\ Web \cap Device = {}
    /\ Esp \notin Speaker

\* The agent serves one device (Hub.Device); a second one would share the VAD.
ASSUME OneDevice == \A d, e \in Device : d = e

\* NewVAD has no maximum; NewHub and webReadLoop set one.
ASSUME LimitsOK ==
    /\ Limits \in [{"discord", "hub"} -> [silence : Nat, min : Nat, max : Nat]]
    /\ Limits["discord"].max = 0 /\ Limits["hub"].max > 0
    /\ Long \in Nat
    /\ \A k \in {"discord", "hub"} :
           Limits[k].silence <= Long /\ Limits[k].min <= Long /\ Limits[k].max <= Long

ASSUME Bounds ==
    /\ BusCap \in Nat \ {0} /\ MaxGap \in Nat /\ MaxWords \in Nat
    /\ MaxSessions \in Nat /\ MaxMoved \in Nat

VARIABLES
    vad,        \* the VADs; those of users belong to the current session
    frame,      \* a device's frame that Process is at
    current,    \* the session in Pipeline.sessions, 0 if there is none
    live,       \* the sessions whose connection is open
    joining,    \* Pipeline.Join waits for the connection, with the mutex
    present,    \* Discord shows the agent in a voice channel
    away,       \* ... and it is not the one that the session joined
    sessions,   \* sessions so far
    tasks,      \* utterances that are transcribed or wait to be published;
                \* two without words, at the same step, count as one
    published,  \* what was published, in order
    taken,      \* how much of it the dispatcher took off the bus
    spoken,     \* observed: of each word, who said it and in which session
    lost        \* observed: words that were discarded

connection == <<current, live, joining, present, away, sessions>>
bus        == <<published, taken>>
vars       == <<vad, frame, connection, tasks, bus, spoken, lost>>
-----------------------------------------------------------------------------
(* The detector.                                                           *)

NoSilence == -1      \* silenceStart is the zero time
Quiet     == 0       \* a frame below the threshold
Hub       == 0       \* no session

AtMost(n) == IF n < Long THEN n ELSE Long

Detector  == [speaking : BOOLEAN, age : 0..Long, still : -1..Long, words : Seq(Nat)]
Word      == [by : Speaker, session : Nat]
Utterance == [source : {"discord", "web", "device"}, by : User \cup {Owner},
              session : Nat, words : Seq(Nat)]
Task      == [by : Speaker, session : Nat, words : Seq(Nat), at : {"stt", "reset", "publish"}]
Frame     == [busy : BOOLEAN, n : Nat, words : Seq(Nat)]

\* A VAD that is new or was reset.
Fresh == [speaking |-> FALSE, age |-> Long, still |-> NoSilence, words |-> <<>>]

VadOfAnyUser(s) == IF s \in Device THEN Esp
                   ELSE IF s \in User THEN CHOOSE u \in User : TRUE ELSE s
VadOf(s) == IF s \in Device THEN Esp ELSE s
Limit(s) == IF s \in User THEN Limits["discord"] ELSE Limits["hub"]

Elapse(v, dt) ==
    [v EXCEPT !.age = AtMost(@ + dt),
              !.still = IF @ = NoSilence THEN @ ELSE AtMost(@ + dt)]

\* A loud frame begins an utterance.
Start(v, n) ==
    IF n # Quiet /\ ~v.speaking
    THEN [v EXCEPT !.speaking = TRUE, !.age = 0, !.words = <<>>] ELSE v

\* A loud frame ends a silence, the first quiet one begins it.
Add(v, words, n) ==
    IF n # Quiet THEN [v EXCEPT !.still = NoSilence, !.words = Append(words, n)]
    ELSE [v EXCEPT !.still = IF @ = NoSilence THEN 0 ELSE @, !.words = words]

TooLong(s, v) == Limit(s).max > 0 /\ v.age >= Limit(s).max
Over(s, v, n) == TooLong(s, v) \/ (n = Quiet /\ v.still >= Limit(s).silence)

\* The times of a VAD that hears nobody are never read.
EndedNotStopped(v) == v
Ended(v) == Fresh

Session(s) == IF s \in User THEN current ELSE Hub

GoesOn(s, v, n) ==
    /\ ~Over(s, v, n)
    /\ vad' = [vad EXCEPT ![VadOf(s)] = v]
    /\ UNCHANGED <<tasks, lost>>

\* endSpeech: shorter than the minimum.
TooShort(s, v, n) ==
    /\ Over(s, v, n) /\ v.age < Limit(s).min
    /\ vad' = [vad EXCEPT ![VadOf(s)] = Ended(v)]
    /\ lost' = lost \cup Range(v.words)
    /\ UNCHANGED tasks

\* endSpeech: the utterance goes to handleSpeech or transcribeAndRespond.
Ends(s, v, n) ==
    /\ Over(s, v, n) /\ v.age >= Limit(s).min
    /\ vad' = [vad EXCEPT ![VadOf(s)] = Ended(v)]
    /\ tasks' = tasks \cup {[by |-> s, session |-> Session(s), words |-> v.words,
                             at |-> "stt"]}
    /\ UNCHANGED lost

\* What Process does once it knows whether somebody speaks.
Process(s, v, n) == GoesOn(s, v, n) \/ TooShort(s, v, n) \/ Ends(s, v, n)

\* The next word, or a quiet frame; only an utterance notices quiet frames.
Says(s, n) ==
    \/ /\ n = Quiet /\ vad[VadOf(s)].speaking
       /\ UNCHANGED spoken
    \/ /\ n = Len(spoken) + 1 /\ n <= MaxWords
       /\ spoken' = Append(spoken, [by |-> s, session |-> Session(s)])
-----------------------------------------------------------------------------
(* Frames.                                                                 *)

\* The goroutine of a session reads when it is not at an utterance.
FreeAlways(k) == TRUE
Free(k) == \A t \in tasks : t.session # k

Ready(s) == s \in User => current \in live /\ Free(current)

\* ReceiveOpusFrame, handleWebAudio.
Listen(s, n, dt) ==
    /\ Ready(s)
    /\ Says(s, n)
    /\ LET v == Start(Elapse(vad[VadOf(s)], dt), n)
       IN Process(s, Add(v, v.words, n), n)
    /\ UNCHANGED <<frame, connection, bus>>

Idle == [busy |-> FALSE, n |-> Quiet, words |-> <<>>]

\* handleAudio of a device, up to where the buffer is read ...
Enter(d, n, dt) ==
    /\ ~frame[d].busy
    /\ Says(d, n)
    /\ LET v == Start(Elapse(vad[Esp], dt), n)
       IN /\ vad' = [vad EXCEPT ![Esp] = v]
          /\ frame' = [frame EXCEPT ![d] = [busy |-> TRUE, n |-> n, words |-> v.words]]
    /\ UNCHANGED <<connection, tasks, bus, lost>>

\* ... and the rest.  A Reset in between may or may not get at the buffer.
Rest(d) ==
    /\ frame[d].busy
    /\ \E words \in {frame[d].words, vad[Esp].words} :
           Process(d, Add(vad[Esp], words, frame[d].n), frame[d].n)
    /\ frame' = [frame EXCEPT ![d] = Idle]
    /\ UNCHANGED <<connection, bus, spoken>>

\* CleanupUser: a user left the channel.
CleanupUser(u) ==
    /\ current \in live
    /\ vad' = [vad EXCEPT ![u] = Fresh]
    /\ lost' = lost \cup Range(vad[u].words)
    /\ UNCHANGED <<frame, connection, tasks, bus, spoken>>

\* A browser's connection ends, and its VAD with it; the next one is new.
HangUp(w) ==
    /\ vad' = [vad EXCEPT ![w] = Fresh]
    /\ lost' = lost \cup Range(vad[w].words)
    /\ UNCHANGED <<frame, connection, tasks, bus, spoken>>
-----------------------------------------------------------------------------
(* The session of a voice channel.                                         *)

\* The connection closes: what its VADs hold is never completed.
Close ==
    /\ live' = live \ {current} /\ away' = FALSE
    /\ vad' = [k \in Vad |-> IF k \in User THEN Fresh ELSE vad[k]]
    /\ lost' = lost \cup UNION {Range(vad[u].words) : u \in User}

NotClosed == UNCHANGED <<live, away, vad, lost>>

\* Pipeline.Join, up to the answer of Discord; an older session is left.
JoinBeginOver ==
    /\ ~joining /\ sessions < MaxSessions
    /\ joining' = TRUE /\ current' = 0 /\ NotClosed
    /\ present' = FALSE
    /\ UNCHANGED <<frame, sessions, tasks, bus, spoken>>
JoinBegin ==
    /\ ~joining /\ sessions < MaxSessions
    /\ joining' = TRUE /\ current' = 0
    /\ IF current # 0 THEN Close /\ present' = FALSE ELSE NotClosed /\ UNCHANGED present
    /\ UNCHANGED <<frame, sessions, tasks, bus, spoken>>

JoinEnds ==
    /\ joining
    /\ joining' = FALSE
    /\ current' = sessions + 1 /\ sessions' = sessions + 1
    /\ live' = live \cup {current'}
    /\ present' = TRUE
    /\ UNCHANGED <<away, vad, frame, tasks, bus, spoken, lost>>

\* Open fails, before or after Discord heard of it; nothing takes that back.
JoinFails ==
    /\ joining
    /\ joining' = FALSE
    /\ present' \in {present, TRUE}
    /\ UNCHANGED <<current, live, away, sessions, vad, frame, tasks, bus, spoken, lost>>

\* Pipeline.Leave; without a session it is an error.
Leave ==
    /\ ~joining /\ current # 0
    /\ current' = 0 /\ Close /\ present' = FALSE
    /\ UNCHANGED <<joining, sessions, frame, tasks, bus, spoken>>

\* Discord ends the connection; the session stays in Pipeline.sessions.
Kick ==
    /\ current \in live
    /\ Close /\ present' = FALSE
    /\ UNCHANGED <<joining, current, sessions, frame, tasks, bus, spoken>>

\* Discord moves the agent to another channel, or back.  The connection is told
\* and goes on; the session, its VADs and the channel it joined stay.
Move ==
    /\ current \in live /\ current <= MaxMoved
    /\ away' = ~away
    /\ UNCHANGED <<current, live, joining, present, sessions, vad, frame, tasks, bus,
                   spoken, lost>>
-----------------------------------------------------------------------------
(* An utterance: handleSpeech of a session, transcribeAndRespond of the    *)
(* hub.  A goroutine each; only the first holds up what feeds it.          *)

Goto(t, step) == tasks' = (tasks \ {t}) \cup {[t EXCEPT !.at = step]}
Drop(t) == tasks' = tasks \ {t}

Transcribed(t) ==
    /\ t.at = "stt"
    /\ Goto(t, IF t.session = Hub THEN "reset" ELSE "publish")
    /\ UNCHANGED <<vad, frame, connection, bus, spoken, lost>>

\* An error, no text, or a text whisper is known to invent.
NotTranscribed(t) ==
    /\ t.at = "stt"
    /\ Drop(t)
    /\ lost' = lost \cup Range(t.words)
    /\ UNCHANGED <<vad, frame, connection, bus, spoken>>

\* espVAD.Reset, also after an utterance of a browser.
Reset(t) ==
    /\ t.at = "reset"
    /\ Goto(t, "publish")
    /\ vad' = [vad EXCEPT ![Esp] = Fresh]
    /\ lost' = lost \cup Range(vad[Esp].words)
    /\ UNCHANGED <<frame, connection, bus, spoken>>

RoomOffByOne == Len(published) - taken + 1 < BusCap
Room == Len(published) - taken < BusCap

\* A session knows its users.  The hub knows the kind of connection, and takes
\* whoever speaks for the owner.
Source(s) == IF s \in User THEN "discord" ELSE IF s \in Web THEN "web" ELSE "device"
Name(s)   == IF s \in User THEN s ELSE Owner

Event(t) == [source |-> Source(t.by), by |-> Name(t.by), session |-> t.session,
             words |-> t.words]

\* Bus.Publish waits for room.
PublishOrDrop(t) ==
    /\ t.at = "publish"
    /\ Drop(t)
    /\ published' = IF Room THEN Append(published, Event(t)) ELSE published
    /\ UNCHANGED <<vad, frame, connection, taken, spoken, lost>>
Publish(t) ==
    /\ t.at = "publish" /\ Room
    /\ Drop(t)
    /\ published' = Append(published, Event(t))
    /\ UNCHANGED <<vad, frame, connection, taken, spoken, lost>>

Handle(t) == Transcribed(t) \/ NotTranscribed(t) \/ Reset(t) \/ Publish(t)

\* The dispatcher of the run loop (EventLoop).
Take ==
    /\ taken < Len(published)
    /\ taken' = taken + 1
    /\ UNCHANGED <<vad, frame, connection, tasks, published, spoken, lost>>
-----------------------------------------------------------------------------
Init ==
    /\ vad = [k \in Vad |-> Fresh]
    /\ frame = [d \in Device |-> Idle]
    /\ current = 0 /\ live = {} /\ joining = FALSE /\ present = FALSE
    /\ away = FALSE /\ sessions = 0
    /\ tasks = {} /\ published = <<>> /\ taken = 0
    /\ spoken = <<>> /\ lost = {}

Frames == {Quiet, Len(spoken) + 1}

Next ==
    \/ \E n \in Frames, dt \in 0..MaxGap :
           (\E s \in User \cup Web : Listen(s, n, dt)) \/ (\E d \in Device : Enter(d, n, dt))
    \/ \E d \in Device : Rest(d)
    \/ \E u \in User : CleanupUser(u)
    \/ \E w \in Web : HangUp(w)
    \/ JoinBegin \/ JoinEnds \/ JoinFails \/ Leave \/ Kick \/ Move
    \/ \E t \in tasks : Handle(t)
    \/ Take

Spec == Init /\ [][Next]_vars

\* The microphones of browsers and devices go on sending, with time between the
\* frames; a packet of Discord needs somebody who speaks.
Fairness ==
    /\ \A w \in Web : WF_vars(Listen(w, Quiet, 1))
    /\ \A d \in Device : SF_vars(Enter(d, Quiet, 1)) /\ WF_vars(Rest(d))
    /\ \A s \in Speaker : WF_vars(\E t \in tasks : t.by = s /\ Handle(t))
    /\ WF_vars(Take)

FairSpec == Spec /\ Fairness
-----------------------------------------------------------------------------
Said == DOMAIN spoken
Words(S) == UNION {Range(x.words) : x \in S}
Heard == Words(Range(published))

\* The type of every variable; a session whose connection is open is the one
\* that can be left, and only then is the agent away; the bus keeps its capacity.
TypeOK ==
    /\ vad \in [Vad -> Detector] /\ frame \in [Device -> Frame]
    /\ sessions \in Nat /\ current \in 0..sessions /\ live \subseteq {current} \ {0}
    /\ joining \in BOOLEAN /\ present \in BOOLEAN /\ (joining => current = 0)
    /\ away \in BOOLEAN /\ (away => live # {})
    /\ tasks \subseteq Task
    /\ published \in Seq(Utterance)
    /\ taken \in 0..Len(published) /\ Len(published) - taken <= BusCap
    /\ spoken \in Seq(Word)
    /\ lost \subseteq Nat

\* The same user, in the same session.
SameUser(x, y) == x.by = y.by /\ x.session = y.session /\ x.session # Hub

\* What the conversation hears of a user in one session is in the order in
\* which it was said, each word once, although the reading of packets, the
\* transcription and the bus go on for several users at once.
InOrder ==
    \A i, j \in DOMAIN published :
        i <= j /\ SameUser(published[i], published[j]) =>
            \A a \in DOMAIN published[i].words, b \in DOMAIN published[j].words :
                (i < j \/ a < b) => published[i].words[a] < published[j].words[b]

\* An event names who said its words: the user, or for the hub its owner, who
\* stands for whoever speaks there, and the kind of connection.  It bears the
\* session in which they were said, also when the agent has joined another
\* channel since; that is the channel of Join, wherever Discord moved the agent
\* (ChannelIsWhereSaid).
Attributed ==
    \A i \in DOMAIN published : \A n \in Range(published[i].words) :
        /\ n \in Said
        /\ published[i].by = Name(spoken[n].by)
        /\ published[i].source = Source(spoken[n].by)
        /\ published[i].session = spoken[n].session

\* No word is heard twice, and what was heard is not held for later, although
\* a VAD is reset by goroutines of older utterances while it is used.
HeardOnce ==
    /\ \A i, j \in DOMAIN published :
           i # j => Range(published[i].words) \cap Range(published[j].words) = {}
    /\ \A t, u \in tasks : t # u => Range(t.words) \cap Range(u.words) = {}
    /\ Words(tasks) \cap Heard = {}
    /\ \A k \in Vad : Range(vad[k].words) \cap (Words(tasks) \cup Heard) = {}

Held == Words(tasks) \cup Words(Range(vad))
        \cup UNION {Range(frame[d].words) \cup {frame[d].n} : d \in Device}

\* A word is heard, or still on its way, or was discarded for a reason: too
\* short, a failed transcription, a reset, the end of a connection.
Accounted == Said \subseteq Heard \cup Held \cup lost

InUtterance(n) == n \in Words(tasks)
OfTheHub(n) == n \in Said /\ spoken[n].session = Hub

Settled ==
    \A n \in Said : (OfTheHub(n) \/ InUtterance(n)) => n \in Heard \cup lost

\* What is said to a device or a browser is heard in the end or discarded for
\* a reason, and so is every utterance of Discord that was cut.
EventuallyHeard == ~Settled ~> Settled
-----------------------------------------------------------------------------
\* Not so: that what is said on Discord is heard in the end.  An utterance ends
\* with a packet that comes after the silence, and nobody has to send one.
DiscordHeard == \A n \in 1..MaxWords : (n \in Said) ~> (n \in Heard \cup lost)

\* Not so: that an utterance of one frame is filtered.  Its duration includes
\* the silence that ended it, which on Discord is longer than the minimum.
ShortIgnored == \A t \in tasks : Len(t.words) # 1

\* Not so: that an utterance holds speech.  A Reset within Process leaves the
\* zero time as the start of an utterance, which is over at once.
NoPhantom == \A t \in tasks : t.words # <<>>

\* Not so: that only a device's own utterance resets the VAD of the devices.
OnlyOwnReset ==
    [][\A t \in tasks : t.at = "reset" /\ t \notin tasks' /\ vad[Esp].words # <<>>
                        => t.by \in Device]_vars

\* Not so: that users are heard in the channel their events will bear.  Once
\* Discord has moved the agent they are in another one.
ChannelIsWhereSaid ==
    [][\A n \in DOMAIN spoken' \ Said : spoken'[n].session # Hub => ~away]_vars

\* Not so: that the agent is in a voice channel only while it can be told to
\* leave.  After a failed Open nothing tells Discord.
LeavesNobody == present => joining \/ current # 0
=============================================================================
