# suzuha, specified

suzuha is an agent that lives in Discord and in a few devices: it hears events, asks an LLM what
to say or which tools to call, speaks (by text or by voice) and remembers. Its program is
`src/agent`, some 28,000 lines of Go besides what is generated. This directory holds TLA+ modules of the parts
where goroutines, queues, crashes and failures meet, the TLC configurations that check them, and
TLAPS proofs of what matters most in them.

- [The system](#the-system): an inventory of its parts
- [The modules](#the-modules): which module models which code, and how
- [The runs](#the-runs): what TLC checks, on which instances, and what it shows
- [Fairness](#fairness)
- [The proofs](#the-proofs)
- [Disagreements](#disagreements-between-the-code-and-its-words)
- [Mistakes the properties notice](#mistakes-the-properties-notice)
- [Not modelled](#not-modelled)
- [Plan](#plan)

To run everything by hand:

    tlc -config EventLoop.cfg MCEventLoop.tla       # likewise for the other .cfg files
    tlapm EventLoop_proof.tla                       # likewise for the other *_proof modules

## The system

Paths are below `src/agent/internal` unless they begin with `src`.

| part | state | operations | talks to |
| --- | --- | --- | --- |
| event bus, `runtime/event` | a bounded channel | Publish (blocks when full), Subscribe | every source, the run loop |
| gateway and startup, `runtime/gateway`, `src/agent/cmd/suzuha-agent` | sources and their states | Register, Run, shutdown | sources, run loop |
| run loop and workers, `runtime/agent/agent_run.go` | a channel and a batch per session key | dispatch, drain, turn, catch-up pass | bus, perceive, act |
| conversation context and compaction, `runtime/agent/{context,perceive,reflect}.go` | messages, `TurnStartIdx`, a mutex per key | ingest, add, replace, compact, log, save | worker, compaction goroutine, admin API, stores |
| act and tool loop, `runtime/agent/{act,act_tool,think}.go` | iteration, progress, last answers | complete, execute tools, skip, emergency compaction | LLM, tool registry |
| streamed voice turn, `runtime/agent/act_stream.go`, `capability/llm/stream.go` | three channels, four goroutines | stream, cut into sentences, synthesize, speak | voice session, device hub |
| prompt providers, `runtime/agent/prompt` | none | build the system prompt | stores |
| tool registry, `runtime/toolregistry` | tools, disabled set | register, execute, list | MCP, builtin tools |
| scheduler and notifications, `runtime/scheduler` | jobs, cron entries, running tasks | load, start, trigger, stop, notify | tasks, sessions |
| LLM roles, `capability/llm` | role specs, provider instances, usage | complete, fall back, swap a role, retry | providers |
| voice, `capability/voice` | connection, encoder mutex, VAD, receiver goroutine | join, leave, receive, speak | Discord, STT, TTS |
| device and web hub, `channel/device`, `channel/web` | clients and their send queues, VAD | add and remove clients, commands, audio | firmware, browser |
| Discord channel, `channel/discord` | session, typing | receive, respond, guild handling | Discord |
| long-term memory, `adapter/store/memory`, `capability/memory` | memories, embeddings, cursors | acquire, embed, search, consolidate, summarize, forget | scheduler, LLM, PostgreSQL |
| conversation, `capability/conversation` | settings cache, activity, boredom | listen, prompt itself | scheduler, bus |
| scheduled actions, `capability/action` | actions and their status | schedule, cancel, execute | scheduler, sessions |
| MCP, `capability/mcp` | servers, connections, tools | connect, reload, toggle | tool registry |
| vision, `capability/vision` | tracks, last frame | detect, track, describe | device hub, bus |
| users, `adapter/store/user` | users, identities | resolve, merge | perceive |
| admin and control API, `api` | none of its own | one call of a component per handler | all |
| adapters, `adapter/{stt,tts,embedder,llm,...}` | none | calls of services | components above |
| firmware, admin SPA, widget, containers, `src/firmware` ... | their own | their own | device hub, API |

An event travels: a source publishes it on the bus; the dispatcher hands it to the worker of its
session key; the worker batches it, ingests the batch into the conversation, starts a compaction if
that is long, completes with the LLM, runs tools, answers, logs the turn and saves a snapshot. A
voice answer is spoken by goroutines of its own while the LLM still writes it.

### What is hard in it, and what would make it right

- **Queues and goroutines.** Everything between a source and a conversation blocks when full; a
  worker runs turns of seconds to minutes while events pile up. Right means: no event is lost,
  repeated or reordered, a message that was passed over gets superseded by one that is answered,
  nobody waits for good, shutdown ends everything.
- **One list, several writers.** The conversation is a list that the worker appends to and
  indexes, a compaction shortens, an administrator clears and a crash resets. Right means: nothing
  is forgotten that was not remembered elsewhere first, nothing is remembered twice, tool results
  keep their calls, the log of a turn is that turn.
- **A pipeline that anything can cut.** The provider, the synthesizer, the connection and shutdown
  can end a voice turn at any point. Right means: speech in order, the agent remembers what it
  said, no goroutine and no mutex left behind.
- **Periodic work.** Tasks overlap with themselves, with triggers and with shutdown; scheduled posts
  must happen once; background embedding and consolidation race with writers.
- **Tool calls.** A response calls several tools; goroutines execute them and end in any order, one
  fails, the loop is given up in the middle. Right means: effects in the order of the calls, one
  result for each call, no failure that the LLM did not see, requests a provider accepts, and an
  agent that does not repeat itself.
- **Memory that many hands change.** Compactions save facts, consolidations delete and merge what
  they read minutes ago, a worker adds vectors, an administrator edits, a restart comes in between.
  Right means: nothing is forgotten without a reason, nothing deleted comes back, vectors belong to
  their texts, and each memory gets one.
- **Speech in.** Packets of several users are cut into utterances by detectors that other goroutines
  reset; sessions are left, lost and joined again while an utterance is transcribed. Right means:
  words in order, once, under the right name and channel, and none lost without a reason.
- **Connections.** Providers, MCP servers, voice connections and devices come and go while they are
  used.

## The modules

| module | models |
| --- | --- |
| `OrderedDelivery` | what the path from bus to conversation promises (abstract) |
| `EventLoop` | bus, dispatcher, workers (`event.go`, `agent_run.go`, `session.go`) |
| `ContextCompaction` | one conversation: `context.go`, `perceive.go`, `reflect.go`, the turn of `act.go`, the snapshot |
| `VoiceTurn` | one streamed turn: `act_stream.go`, `llm/stream.go`, `SpeakStream`, `SpeakStreamTo`, `RespondStream` |
| `ScheduledActions` | scheduled posts: `action/{store,task,tool_create,tool_cancel}.go`, their admin API, the part of `scheduler.go` and `notification` they use |
| `ToolLoop` | turns and their tool calls: `act.go`, `act_tool.go`, `tools/skip_response.go`, what a request is made of (`trimMessagesToFit`, `ConvertMessages`), `filterResponse` and `isDuplicateResponse` |
| `LongTermMemory` | the table of memories and all that change it: `adapter/store/memory`, `capability/memory/{acquire,consolidate,forget}`, the admin operations |
| `Hearing` | speech to events: `voice/{vad,pipeline,session}.go`, `channel/device`, `channel/web` |
| `SequenceFacts` | lemmas about `Range` of sequences and about loops that collect one, for the proofs |
| `*_proof` | the theorems of a module |
| `MC*` | values for the constants of a module |

### EventLoop

`bus` and `channels[k]` are the Go channels; a send on a full one is an action that is not enabled.
`hand` is the event the dispatcher holds between its receive and its send: that send is not in a
`select`, so while it blocks the dispatcher sees neither other events nor the context. `worker[k]`
says where the worker of a key is: in the `select` of its loop, in a drain, in a turn, in a
catch-up pass (`catchUpStaleFor`: the batch in hand, the drain of the next one, the turn on the
newest). A drain window is closed by a timer, which may fire at any time; with `TimedDrain = FALSE`
(tests) it closes when the channel is empty. `heard[k]` is the list of events ingested, and
`stale[k]` those ingested without a turn. A turn is one step; `Cancel` is the context of `main`.
Events carry a number, a source and whether they are voice. The properties:

- `InOrder`: what a conversation hears is in order of publication, each event once.
- `StaleSuperseded`: a message ingested without a turn is followed by one that got a turn or is held
  for one, unless shutdown came.
- `DeliversInOrder`: the whole implements `OrderedDelivery`; the mapping hides every queue (an event
  is pending wherever it is) and `heard` becomes a set per key. There a delivery takes the *oldest*
  pending events of a key, none left out, and events may be dropped only while stopping.
- `EventuallyHeard`, `WorkersStop`: see Fairness.

### ContextCompaction

One conversation, one source key. The list of messages is the set `context` of entries numbered in
order of `Context.Add`; `Oldest(S, k)` is the slice `[:k]`. Each method of `Context` holds its mutex and is
one step; everything that calls two methods can be interrupted between them. The worker (`pc`)
goes through ingestion (`gate` to `perceived`), completions and tools (`complete`, `tools`, `loop`)
and reflection (`reflect`, `persist`, `save`); two compactions, `async` behind the mutex and `forced`
without it, go through acquire, replace, read and save. `posted` is what the platform has:
bootstrapping a channel's history reads it, including messages whose events still wait. `Restart`
is a crash at any point: the context is what the row of `context_snapshot` says. `handed` collects what acquire got.

Abstractions: token counts (a check of the usage ratio may go either way); a failing
`SaveSnapshot` (it is logged and the next save overwrites it) is left out; so are the bot's own posts
in a channel's history (no event carries their MessageID) and channels whose mode is disabled; the results of the
calls of one message are one entry. `turn.added` and `turn.shrunk` only observe. Properties:

- `ForgetsOnlyHanded`: a live message leaves the list only after a compaction handed it over.
- `ExtractsOnce`: not twice to long-term memory, neither by the next compaction nor by fetching the
  channel's history again.
- `ChainsIntact`: a tool result has its call, and a completion sees the results of earlier calls.
  These three are about background compactions (`MaxForced = 0`, no self prompts); `ForceCompact`, which takes
  no mutex, breaks each of them (see Disagreements).
- `LogsThisTurn`: `TurnStartIdx` never reaches back into an older turn, and if nothing was removed
  during the turn, exactly the turn is logged.

### VoiceTurn

The four goroutines and their channels: `stream` offers chunks on the unbuffered `out`, `consumer`
cuts sentences into `sentences`, `synth` turns them into `pcm`, and the worker (`main`) speaks. The
answer is the sequence of pieces 1, 2, 3, ...: non-blank text outside think blocks. Where a
sentence ends, and which piece is held back as the possible start of a tag, is open. `route` is how
`RespondStream` goes: by voice on Discord, the session gone, by text after a disconnect, on the web
by voice or without a synthesizer. Failures may come anywhere the code checks an error: the
provider, a synthesis (the sentence is skipped), `BeginSpeaking`, sending; `Cancel` is shutdown. A
sentence whose sending fails counts as unheard, although some of its frames may have been played.
Properties:

- `SpokenInOrder`: what is heard is in the order of the answer, no piece twice.
- `RecordedWasSaid`: on Discord, an answer recorded without an error was spoken, but for sentences
  the synthesizer failed on.
- `TurnEnds`: the turn ends, with `encoderMu` free and no goroutine left.

### ScheduledActions

`table[a]` is a row of `scheduled_actions` and `job[x]` an execution of the task: its step, the `now` it
began with, the copies of due rows it still has to handle and the one it handles. Every call of the
database, the LLM or Discord is a step of its own, so that anything can happen between a read and a
write: another execution (cron waits for none, and the control API starts one when asked), an edit
(`Write`), `Stop`, the end of the process. `Stop` ends the context of executions cron started, so that
their database calls fail; Discord gets no context. `MarkExecuted` reads and then writes the row; the
read only finds out whether the row is there and recurs, and no edit that is modelled between the two
would change the outcome, so they are one step. A send is posted, suppressed (quiet hours, channel
settings) or returns an error, having posted something or nothing; what was posted in part counts as posted. Time is counted
in periods of the cron expressions; an administrator's edit sets a new time and "pending", the other
fields and combinations are left out. `repeated`, `excused`, `handled` and `failures` only observe.
Properties:

- `ClosedForAReason`: "executed" was sent or suppressed, "failed" was refused as often as the limit says,
  although the count an execution writes comes from its copy.
- `PostedOnce`: no part of an action is posted twice for a time it is scheduled, but for what is excused: two
  executions held it at once, the row could not be marked after the post, or a send posted something
  (the first chunks of a long message, or one that Discord accepted before the call failed) and returned an error.
  That these three cases do post twice is what the code does: there is no lock, the post is not part of a
  transaction, and a retry sends all chunks again (`discord.go:194`). The property says that there is no fourth:
  an excuse has to be there before the second post.
- `DueIsHandled`: what is due is posted, closed or moved, whatever becomes of other actions. A
  prompt the LLM refuses is tried again for ever.

### ToolLoop

Turns of one session, from the first completion to the answer. `at` says where the worker is: it
asks the LLM (`ask`), executes tools only for their effects because `skip_response` was among them (`skip`),
waits for the goroutines of a batch (`run`), puts results into the context (`apply`) or answers
(`reply`). Each call of a batch is a goroutine (`Start`, `Finish`): a batch is one call, or all the
read-only ones in a row. Calls are numbered through the turn; a provider's ids are assumed to be
unique. The tools: two that only read, one of them returning images, which follow the result in a
message of their own; one that posts; `python_exec`, whose output is posted; `react`, which ends the
loop (StopAfter); a name that is no tool; `skip_response`. `last` is the answer `isDuplicateResponse`
compares with. A turn may be by voice (`streamed`): its first response is spoken while it is written, before
`filterResponse` sees it, and its caller sends nothing more, so a text that comes after tools is compared and
noted and not given. Whether the turn has a `channel` is another question: a Discord voice turn has that of its
voice channel (`pipeline.go:239`, `perceive.go:68`), so its answers are compared and what `python_exec` prints is
posted; turns of devices and web clients have none. The tools called beside `skip_response` may fail as well, which is
only logged (`SkipExecutes`, `skip_response.go:47`). The context is that of the turn; what is older, and a compaction, are in
`ContextCompaction`. When a call fails the context of its siblings ends; they may fail at any time
anyway. `Respond` may fail or be suppressed. `seen`, `sent`, `effects` and `failures` only observe. Properties:

- `EffectsInOrder`: a tool with effects runs alone, and effects come about in the order of the calls.
- `AnsweredInOrder`: when the LLM is asked again every call has one result, in the order of the calls.
- `RequestsComplete`: however much is cut from the front to fit the window, no result without its call
  and no call without its result is sent.
- `FailuresShown`: a turn that did not fail has shown every failure of a tool to the LLM, unless the tool was
  called beside `skip_response` in its last response (`BesideSkip`).
- `NeverRepeats`: of the answers that pass `filterResponse` in a channel, posted or spoken, none repeats the one
  that passed before it, whatever failed to arrive, was kept back or printed in between. What is heard may repeat
  itself: a streamed answer is spoken before it is compared (`RepeatedIsUnsaid`, Other disagreements).
- `TurnEnds`: see Fairness.

### LongTermMemory

`mem` is the table; a text is the set of facts it tells and a vector the text it was computed from
(`{}` for NULL), so two texts are similar when their vectors share a fact. The five parties:
extractions (`acq`: every candidate is checked for duplicates before the first is saved),
consolidations (`run`: list what has a vector, list the vectors, group, let the LLM judge batches of
groups, then per decision delete and, for a merge, save), the worker that embeds
(`worker`, woken by `signal` or a timer), the administrator, and a restart. Every call of the database,
the embedder and the LLM is a step and may fail. The LLM is assumed to judge well what it is shown
and to decide once per group, so the properties are about what the code makes of good judgments. It is
shown the first 200 runes of each text (`Shown`): all of a text in `Short`, and of a longer one what fits (`Seen`),
which may be any part, for the order of facts in a text is left open. It keeps a memory that tells what is shown of all, or
merges that into a text of the 200 characters it is asked for, or a longer one, since nobody checks. The
deletion takes whole texts, so a decision knows the facts it `cuts`. One
type of memory; the administrator makes one request at a time, with any text of `Requested`; the dry run, which
changes nothing, is left out. `known`, `gone`, `atRisk`, `erased` and `edited` only observe. Properties:

- `NothingForgotten`: what was remembered is remembered, on its way through a merge, or gone for a
  reason, for which it is added to `gone` or `atRisk`: the administrator deleted it, edited it away or left it out of a
  merge; a merge deleted and could not save; it was past the 200 runes shown or did not fit into the merged
  text; it was edited in under a running consolidation.
- `StaysDeleted`: what the administrator deleted and nobody holds does not come back by itself.
- `VectorsMatch`: the vector of a memory nobody edited is that of its text.
- `EventuallyEmbedded`, `WorkerRests`: see Fairness. Both except a blank memory, with which the code
  keeps neither.

### Hearing

A voice activity detector (VAD) gets frames, loud ones (words, numbered as they are read) or quiet
ones, and cuts them into utterances; how much time lies between two frames is open. One VAD for each
user of a voice session, one for each browser, and one for the device, used without a lock. `Process`
is one step, except for the device's (`Enter`, `Rest`): there, goroutines of older utterances reset
the VAD in between, and what tearing it finer would add has the same outcomes. An utterance is a
`task` that is transcribed, resets the VAD (hub) and is published; the receiver of a Discord
session reads nothing meanwhile (`Free`), but a session that was left may still be at its last
utterance. Joining waits for the connection with the pipeline's mutex; a join may fail, the agent may
be kicked, or moved to another channel (`Move`): the update goes to the connection (`session.go:135`),
and the session and its VADs go on. An event (`Event`) bears what the code publishes: its source, the
name its source knows, and for Discord the session, which stands for the channel that was joined: `Join` hands
that one to `handleSpeech` for good (`pipeline.go:60`). The hub knows no speaker: every event of a browser or
the device names the owner (`handler.go:141`), who may be a member of the voice channel too, as in the run. A
packet whose sender the library cannot name yet counts as speech of one more user. The hub hands out the
first device only, so there is one. One guild; the text that is spoken is `VoiceTurn`'s. Properties:

- `InOrder`: what is heard of a user in a session is in the order in which it was said.
- `Attributed`: an event of Discord names the user who said its words, one of the hub the owner and
  the kind of connection they were said to, and each the session they were said in, also when the
  agent has joined another channel since. The channel is that of the join, not the one Discord moved the
  agent to (`ChannelIsWhereSaid`, Other disagreements).
- `HeardOnce`: no word is heard twice, nor held for later once it was heard.
- `Accounted`: a word is heard, on its way, or discarded for a reason (too short, a failed
  transcription, a reset, the end of a connection).
- `EventuallyHeard`: see Fairness.

## The runs

| run | instance | what it shows |
| --- | --- | --- |
| `event_loop` | a Discord key and a web key, "cli" events that fall back to Discord; bus and channels of capacity 1, 4 events, shutdown | `TypeOK`, `InOrder`, `StaleSuperseded`, `DeliversInOrder`, `EventuallyHeard`, `WorkersStop` |
| `context_async` | 2 channels, 2 events, a history of 2, 2 completions per turn, crashes | `TypeOK`, `ExtractsOnce`, `ChainsIntact`, `ForgetsOnlyHanded`, `LogsThisTurn` |
| `context_disturbed` | 1 channel, 2 events, a forced compaction, self prompts, crashes | `LogsThisTurn` |
| `context_force_drops` | a forced compaction | `AppendedPreserved` is violated |
| `voice_turn` | all routes, an answer of 4 pieces, both channels of capacity 1, shutdown | `TypeOK`, `SpokenInOrder`, `RecordedWasSaid`, `TurnEnds` |
| `scheduled_actions` | 1 action of any kind, 2 executions, 2 writes, 1 fault (database, stop or crash), 2 retries | `TypeOK`, `ClosedForAReason`, `PostedOnce`, `DueIsHandled` |
| `scheduled_batch` | 2 actions of any kind, 1 execution, 2 writes, no fault | `DueIsHandled` |
| `tool_loop` | one turn, 2 completions, up to 2 calls each of 6 tools, any outcome | `TypeOK`, `EffectsInOrder`, `AnsweredInOrder`, `RequestsComplete`, `FailuresShown`, `TurnEnds` |
| `tool_replies` | 3 turns by text or voice, with or without a channel, 2 completions, 1 call each; two texts and one that means silence | `NeverRepeats` |
| `long_term_memory` | 3 memories, 2 facts, an extraction, a consolidation, the worker, 1 request of the administrator, 1 restart | `TypeOK`, `NothingForgotten`, `StaysDeleted` |
| `memory_vectors` | 2 memories, extractions of 2 facts, the worker, 1 request, 1 restart, no consolidation | `VectorsMatch`, `EventuallyEmbedded`, `WorkerRests` |
| `hearing` | 2 users, one of them the owner, 1 browser, 1 device, 3 words, 2 sessions, the first of which may be moved, a bus of capacity 1; VADs scaled to 1 to 3 units of time in the order of the code's limits | `TypeOK`, `InOrder`, `Attributed`, `HeardOnce`, `Accounted`, `EventuallyHeard` |

Why the bounds are enough to be interesting. *Event loop*: with capacity 1 a third event already
blocks the dispatcher and a fourth the source, while the worker is in a turn; a catch-up pass can
then take one stale batch and a newest one, and events of the other key wait behind. *Context*: with
two events the second may be posted before the first is ingested, be fetched as history, and be
ingested while a compaction holds a copy; two completions make a tool loop that reaches its limit;
crashes are not bounded, so a snapshot can come back at any stage. Messages of a third event would
only repeat the role of the second. *Voice*: with four pieces and capacity 1 a sentence can be spoken,
one queued as sound, one in synthesis and one in the buffer, all at once. *Scheduled actions*: a
recurring action created for time 0 is due a second time at 1; two writes are the creation and one
edit, at any moment of either execution; two executions suffice for a stale copy, and a fault can
hit any step. Actions meet only in the queue of an execution, which is why they have a run of their own. *Tool loop*: two calls are the smallest batch and the smallest mixture of
a tool with effects and one without; the second completion is the one that sees the results of the first, and the last
that the limit allows; with two completions and a patience of one, the second can stall. Two answers and one that means
silence, over three turns, make a repetition, one after an answer kept back, and a different answer in between.
*Memory*: with three memories two can be saved and one merged from them, while the worker holds an
older text of either; one restart or request can hit any step. One fact is a short text and two are a long one
(`OneFact`), of which nothing, either fact, or in a merge both may be told; requests carry the blank text or both
facts (`BlankOrWhole`). *Hearing*: three words
let an utterance of two, or two of one, meet a third by another speaker; the second session is
joined while an utterance of the first is transcribed, also after the agent was moved in the first;
capacity 1 makes publishers wait.

Where the system may really stop, since events, turns and words are boundedly many, a run is not
checked for deadlock. `long_term_memory` and `memory_vectors` are.

## Fairness

`EventLoop`: weak fairness of the dispatcher and of each worker: the Go scheduler runs every
goroutine that can go on, timers fire, and a turn ends because every call of a provider has a
timeout. Nothing is assumed of sources or of shutdown. `EventuallyHeard` is promised unless
shutdown comes; a source that never pauses would keep a drain window open for good, and the
bound on events hides that case: the property is about boundedly many events.

`VoiceTurn`: weak fairness of each goroutine: the provider ends its answer (with an error or not),
and calls of the synthesizer, the network and tools return. Nothing is assumed about where sentences
end, what is held back, or shutdown.

`ScheduledActions`: cron starts executions while the process is up and the bound leaves room,
executions go on (every call returns, with an error or not), a stopped process ends and one that is down is started
again by its supervisor. Nothing is assumed about edits, triggers, the LLM or Discord.

`ToolLoop`: weak fairness of the worker and of each call's goroutine: completions and tools return,
because both have timeouts. Nothing is assumed about what the LLM answers; the limit of completions
ends a turn.

`LongTermMemory`: weak fairness of the worker, whose timer fires; strong fairness of a batch that is
embedded and of a vector that is stored: the embedder and the database recover.

`Hearing`: the microphones of browsers and devices go on sending, quiet frames included, with time
between them (the firmware's loop while it streams, the widget's while it is not muted); a microphone
that is muted for good in the middle of an utterance leaves it waiting, and is excluded. Strong
fairness for the device, since a frame has to find the previous one done; weak fairness of transcriptions
(they return), of publishers and of the dispatcher. Nothing is assumed of Discord's packets: hence
`EventuallyHeard` speaks of the hub, and of Discord only once an utterance was cut.

`ContextCompaction` states safety only.

## The proofs

All are about every value of the constants, under the assumptions the modules name: limits and capacities
are natural numbers, capacities at least one, a turn of `VoiceTurn` has some route, and
the actions of `ScheduledActions` are finitely many, as the rows of a table are.

- `EventLoop_proof`: `TypeCorrect`, `HeardInOrder` and `StaleIsSuperseded`. `InOrder` is not inductive:
  that a worker appends newer events follows from the order of everything before it. The invariant
  `IInv` adds that bus, hand, channel and batch are sorted, that for each key `heard` is below
  `batch`, `batch` below the channel, the channel below `hand` and that below `bus`, and that ids do
  not exceed `published`; for `StaleSuperseded` also that a worker in `turn` or `latestTurn`
  holds a batch. One lemma per kind of step: receive, send, take, hear, drop, catch up.
  `ImplementsOrderedDelivery` proves the refinement `DeliversInOrder`: an event is pending wherever it
  waits, and the batch that is heard or dropped is the oldest pending of its key (`OnlyInBatch`, `BatchIsOldest`,
  `BatchLeaves`); receiving and sending are steps in which nothing happens.
- `ContextCompaction_proof`: `TypeCorrect`, and `ForgetsHanded` for runs without forced compactions
  and self prompts (with either the property is false, see Disagreements). The invariant says that
  the copy a compaction holds is the oldest part of the list until it drops it (`CopyIsPrefix`), and
  that its live messages were handed over by then (`CopyHanded`). The difficulty is
  `FetchRemovesNothing`: `RemoveChannelHistory` would shorten the list under a compaction, and it does
  remove entries unless none of that channel is there. So the invariant carries that every
  recalled memory of a channel is accompanied by a message of that channel that will outlive it
  (`AllGenuine`, `MemoryAnswered`, `RecallOfChannel`). On it rest, in the same mode, `HandedOnce`
  (`ExtractsOnce`: the live messages still to be handed over differ from those handed over before,
  and a new message is of a later event, `HandedApart` and `CopiesDistinct`) and `CallsKeepResults` (`ChainsIntact`: what remains
  after the copy has every call its results need, since a compaction starts between completions,
  `ContextLinked` and `AtTools`; the snapshots as well, since a crash brings them back).
  `LogsOnlyThisTurn` (`LogsThisTurn`) needs no mode: with forced compactions, self prompts and
  crashes there is a number that separates the messages of the turn from older ones, of which no more are left
  than when the turn began (`Separates`), so that an index past them never reaches too far back.
- `VoiceTurn_proof`: `TypeCorrect`, which includes that the encoder is held exactly between
  `BeginSpeaking` and `EndSpeaking`, and `HeardInOrder`. The invariant `Ordered` chains the seven places a
  piece can be (spoken, pcm, in synthesis, sentences, buffer, offer, held back): each is sorted and
  below everything after it. `Unused` says which of them are empty when. `RememberedWasSaid`
  (`RecordedWasSaid`) adds that the content is at every moment divided among those places and what the
  synthesizer skipped (`Whole`), as long as the turn can still be recorded as said (`Promised`).
- `ScheduledActions_proof`: `TypeCorrect` and `ClosedWithReason` (`ClosedForAReason`). The table alone is not
  inductive: an execution writes what its copy says, plus one. `IInv` adds that no copy and no row
  counts more refusals than happened (`Honest`, `Reasoned`), that an execution handles one copy, and that
  what it is about to mark was sent. `ResumeKeeps`, `GotoKeeps` and `RowKeeps` say what a move of an
  execution and a write of a row preserve. `NotPostedTwice` (`PostedOnce`) is about an action whose
  posts are not excused by overlapping executions, failed marks, crashes or sends that posted and failed: one execution alone holds it (`Alone`), the time
  it is about to post was not posted (`Unsent`), and its row is ahead of everything that was
  posted unless it was sent and not marked yet (`Ahead`); a row not yet created has no past (`Unborn`).
- `ToolLoop_proof`: `TypeCorrect`, `EffectsOneByOne` (`EffectsInOrder`) and `EveryCallAnswered`
  (`AnsweredInOrder`). The invariant says how far a turn has come: `Position` (calls before `next` are over, those of
  the batch may run, later ones wait), `Executed` and `EffectsSorted` (effects are sorted and none
  is beyond the calls begun), `Paired` and `CallsShown` (up to the point reached in `apply`, results
  are sorted and belong to calls, and calls have results). `FailuresReachTheLLM` (`FailuresShown`): a
  failure is in the context, or its call is still to be applied, or was made beside `skip_response` (`FailuresKnown`); and a
  failed result not yet seen by the LLM is one of the response being applied, and then not all its tools end the loop
  (`FailuresSeen`). `NothingRepeated` (`NeverRepeats`): `last` is the last answer that passed (`Noted`).
  `RequestsAreComplete` (`RequestsComplete`): in the context every call has its result after it and every result its call
  before it. What is cut off is the front, so a call that is left keeps its results, and a result that lost
  its call is left out by `ConvertMessages`. What its loop collects is `LoopCollects` (`SequenceFacts`).
- `LongTermMemory_proof`: `TypeCorrect`, `VectorsBelong` (`VectorsMatch`) and `DeletedStays`
  (`StaysDeleted`). For vectors the invariant adds that the worker's batch holds what the memories say, for those
  that are still there and were not edited (`BatchCurrent`); ids are never used again, which is why a late vector
  cannot reach another memory. For deletions: whatever is erased is neither told nor held by
  anybody who might write it, and a run's pending text is covered by what it read. `KnownIsKept`
  (`NothingForgotten`) assumes one consolidation at a time, because two refute it (Other disagreements). A decision
  stays safe from the reading on which it was made until it is carried out (`DecisionSafe`): what the run read of
  the memory it keeps is still told there, told by a memory the run has not read, or gone for a
  reason (`KeptAt`), and what it deletes is told by what it keeps or saves, but for what it `cuts` (`ChoiceFacts`); groups have no memory in common (`GroupsApart`), so one decision does not undo
  another. `Conserves` says what the steps of all others preserve.
- `Hearing_proof`: `TypeCorrect`, `HeardInOrder`, `Attribution`, `NoWordTwice` and `NothingVanishes`.
  The first invariant orders the places a word can be (published, in a task, in a detector or the frame at hand,
  not yet said) for each speaker, keeps them apart, and says that the session a detector serves is
  the current one (`Order`, `Apart`, `Closed`, `OneTask`, `AllGood`); `Named` says that an utterance is of
  the microphone its words were said into, which tells all that an event tells of a speaker (`SameMic`). The
  second traces words:
  a detector that hears nobody holds none (`Awake`), and a frame that was overtaken by a reset holds
  what the reset discarded (`Torn`).
- `SequenceFacts`: `Range` of the empty sequence, of `Append`, `Tail` and `\o`; and what a loop does that goes
  through a sequence and appends some of its elements, changed, to another. A loop is a function of the
  number of elements it has seen (`Collects`). Since theorems of the library about induction take an
  operator, induction is over a set: the numbers for which a claim holds; were there others, one would be the
  least (`LeastElement`, `SetInduction`). `Origin` is the place an element of the result comes from, and `LoopCollects` says
  that places come in order, that nothing else is in the result, and that nothing that was to be kept is missing.

### The part of liveness that is proved

The prover treats neither fairness nor ENABLED, so no `~>` is a theorem. What carries such a property
is, though: that nothing goes round for ever, and that nothing stands still before its time.

| module | it runs out | it does not stand still |
| --- | --- | --- |
| `EventLoop` | `LoopRunsOut`: each step but `Publish` and `Cancel` lowers `Backlog`, which is at most nine per event and six (`BacklogBounded`) | `RestMeansHeard`: when all wait and shutdown did not come, every event was heard; `RestMeansOver`: after shutdown every worker returned |
| `VoiceTurn` | `TurnRunsOut`: each step lowers `StepsLeft`, at most 48 per piece and 77 (`TurnIsShort`) | `NobodyBlocked`: until the turn is over somebody can go on |
| `ToolLoop` | `TurnRunsOut`: each step of a turn lowers `StepsLeft`, at most `MaxIter` rounds (`TurnIsShort`) | `NobodyBlocked`, likewise |
| `ScheduledActions` | `ExecutionsRunOut`: each step of an execution lowers its `Left`, and no other step raises it | `NobodyLeftOut`: what it has read gets its turn, unless the process ends |
| `LongTermMemory` | `BurstsEnd`: each step of the worker lowers `Toil`, unless a write fails or the embedder skips; only a new memory raises it otherwise | |

The measures count what every piece of work still costs: an event on the bus three states of the
dispatcher and six of a worker, a piece of an answer the stages it has to pass. They are weights, so that
a step which turns one kind of work into another pays for it. *Can go on* is written out as the
guards of the actions (`CanGoOn`, `DispatchCan`, `WorkerCan`, ...); on small instances TLC found them equal to
ENABLED of the actions. With weak fairness of the goroutines, a finite measure that every step lowers and the absence of
blocking give `TurnEnds` of both modules, and `EventuallyHeard` and `WorkersStop` of `EventLoop`: that last inference
is not checked by a machine for all values of the constants, and TLC checks the properties themselves on the instances.

Stuck states are where the arguments lie. In `VoiceTurn` the invariant `Live` says who waits for whom: the
synthesizer still runs when the stream waits for room in `sentences`, the speaker takes from `pcm`
until it is closed, and whoever leaves early has told the others (`Attended`). In
`ToolLoop` the goroutines of a batch are those the join waits for (`BatchIsInterval`). In `EventLoop` a dispatcher that waits for
room has a worker behind the full channel, and only shutdown ends a worker (`EndsOnShutdown`); that nothing is lost
then follows from the refinement: `Accounted` (until shutdown every event is on its way or heard) is proved of
`OrderedDelivery`'s steps. `RestMeansOver` names the one case in which `Run` stays behind, which is the
disagreement `RunReturns` below.

`VectorsRemain` is an action property besides: no step changes a vector that is there, because the worker reads only
memories without one and nobody else gives them any (`BatchBare`, `BatchReady`). It is why the vector of an edited memory
stays that of the old text (`VectorsCurrent`, Other disagreements).

Only model-checked: liveness itself (`EventuallyHeard` of `EventLoop` and `Hearing`, `WorkersStop`, `TurnEnds`, `DueIsHandled`,
`EventuallyEmbedded`, `WorkerRests`). Every other property of a passing run is the statement of a theorem.

## Disagreements between the code and its words

`AppendedPreserved` is a run that TLC refutes (`context_force_drops`): a forced compaction clears the list while a
background one holds its length, which then drops messages appended later (`reflect.go:79`, `:103`).
The same happens, with `MaySelfPrompt` instead of `MaxForced`, when `RemoveChannelHistory` removes
recalled memories. PROJECT.json quotes the words.

### Other disagreements

Stated in the modules after "Not so", and refuted by TLC from the configuration named, with that
property in place of the ones checked.

| property | start from | what happens |
| --- | --- | --- |
| `RunReturns` | `EventLoop.cfg` | `Run` hangs when shutdown comes while the dispatcher is blocked in `ch <- evt` and the worker of `ch` takes the shutdown branch first (`agent_run.go:50`), against `agent_run.go:15` |
| `VoiceNeverStale` | `EventLoop.cfg` | voice queued behind a text turn is ingested by the catch-up pass without a turn, against `agent_run.go:138` |
| `EveryMessageLogged` | `ContextForceDrops.cfg` with `MaxForced = 0` | a compaction that ends during a turn leaves `TurnStartIdx` past messages of the turn (`reflect.go:149`), against `reflect.go:141` |
| `HeardIsSaved` | the same | a message fetched as history before its event is ingested stays marked Injected and is never saved, logged or extracted (`perceive.go:166`), against `docs/v1/01-pipeline.md:210` |
| `SnapshotCurrent` | the same | worker and compaction both read and then write the snapshot; the older copy may be written last, against `docs/v1/05-memory.md:172` |
| `ExtractsOnce` | `ContextForceDrops.cfg` | `ForceCompact` takes no mutex (`reflect.go:76`): what it and a background compaction both hold is handed to long-term memory twice, against `reflect.go:57` |
| `ChainsIntact` | the same | a forced compaction between a tool call and its result clears the call, and its result is appended to the empty list (`reflect.go:103`); `ConvertMessages` leaves it out of requests, so the LLM does not see what its tool did |
| `ReturnedWasSaid` | `VoiceTurn.cfg` with `Spec`, `Route <- ByVoice`, `MaxPieces = 2` | the text of a tool loop that follows a stream is recorded as said and never sent (`act_stream.go:206`), against `agent_run.go:255` |
| `NothingHeldBack` | the same | text held back as the possible start of a tag when the stream ends is in a final chunk nobody reads, against `llm/stream.go:133` |
| `ToolsUsed` | `VoiceTurn.cfg` with `Spec`, `Route <- OnTheWeb`, `MaxPieces = 2` | on the web and on devices an answer that only calls tools is an error and its tools are not used (`device.go:360`), against `act_stream.go:18` |
| `StreamedWasSaid` | the same | a sentence for which no web client is left counts as said if another one was sent, against `agent_run.go:255` |
| `CancelledNotPosted` | `ScheduledActions.cfg` | an execution that read an action posts it although it has been cancelled since, and then marks it executed, against `tool_cancel.go:25` |
| `StopWaits` | `ScheduledActions.cfg` | `Stop` ends the context of running executions and returns a context that nobody waits for, against `scheduler.go:137` |
| `ResultsFollowCalls` | `ToolLoop.cfg` with `Spec` | the images of a result stand between it and the next one (`act_tool.go:210`), against `lib/llmconv/llmconv.go:28` |
| `SaidIsRemembered` | `ToolReplies.cfg` | the response that ends the loop for lack of progress is said and was not added to the context, against `act.go:53` |
| `RepeatedWasDelivered` | `ToolReplies.cfg` | an answer is noted as sent before it is sent; when that fails the same answer is kept back as a repetition, against `agent.go:104` |
| `RepeatedIsUnsaid` | `ToolReplies.cfg` | a streamed answer is spoken before it is compared with the one before it (`act_stream.go:164`), so a repetition is heard, against `agent.go:105` |
| `NothingForgotten` | `LongTermMemory.cfg` with `Runs = {c1, c2}`, `MaxRequest = 0`, `MaxCrash = 0` | cron's consolidation and one that is triggered by hand (`api/control/scheduler_handler.go:61`) each delete what the other keeps (`consolidate.go:92`), against `judge.go:18` |
| `LongTextsAreKept` | `LongTermMemory.cfg` | what the judge is not shown of a long text (`judge.go:51`), or cannot tell in 200 characters (`judge.go:63`), is deleted with it, against `judge.go:18` |
| `MergesLoseNothing` | `LongTermMemory.cfg` | a merge deletes its sources and then fails to save (`consolidate.go:119`) |
| `VectorsCurrent` | `LongTermMemory.cfg` | an edited memory keeps the vector of its old text, or gets it from the worker |
| `FailuresBackOff` | `MemoryVectors.cfg` | an embedder that skips failing texts makes the worker try again at once, against `docs/v1/05-memory.md:52` |
| `BlankHarmless` | `MemoryVectors.cfg` with `Facts = {f1}`, `MaxExtract = 1`, `BatchSize = 2`, `MaxCrash = 0` | a blank memory in the batch keeps the others from their vectors, against `docs/v1/05-memory.md:46` |
| `DiscordHeard` | `Hearing.cfg` | an utterance ends with a packet that comes after the silence, and none need come, against `docs/v1/06-voice.md:90` |
| `ShortIgnored` | `Hearing.cfg` | the duration of an utterance includes the silence that ended it, on Discord 800 ms of a minimum of 300 ms, against `vad.go:16` |
| `NoPhantom` | `Hearing.cfg` | a reset within `Process` leaves the zero time as the start of an utterance, which is over at once and holds no speech, against `vad.go:38` |
| `OnlyOwnReset` | `Hearing.cfg` | the utterance of a browser resets the VAD of the devices, against the reason given at `device/handler.go:127` |
| `ChannelIsWhereSaid` | `Hearing.cfg` | once Discord has moved the agent, what is said is published under the channel that was joined (`pipeline.go:60`, `pipeline.go:241`), against "チャンネル ID" of the perception, `docs/v1/01-pipeline.md:61` |
| `LeavesNobody` | `Hearing.cfg` | after an `Open` that failed the agent may be shown in the channel with no session left to leave it (`voice/session.go:153`), against `channel/discord/voice.go:152` |

## Mistakes the properties notice

An operator that stands before another in a module and is used nowhere is that operator with a
plausible mistake. With it in place TLC finds the property violated under the run's own configuration.

| run | property | operator | mistake |
| --- | --- | --- | --- |
| `event_loop` | `TypeOK` | `Room` | `RoomOverfull`: one event too many |
| | `InOrder` | `Hear` | `HearNewestFirst`: the batch before what was heard |
| | `StaleSuperseded` | `CatchUpDone` | `CatchUpForgets`: the newest batch gets no turn |
| | `DeliversInOrder` | `Hear` | `HearTextOnly`: voice is dropped |
| | `EventuallyHeard` | `Room` | `RoomOffByOne`: the dispatcher waits for a place that never comes |
| | `WorkersStop` | `WorkerStop` | `WorkerStopOnEvent`: shutdown only seen when an event waits |
| `context_async` | `TypeOK` | `Goto` | `GotoForgetsTurn`: the turn is reset too early |
| | `ExtractsOnce` | `StartAsync` | `StartAsyncUnlocked`: no mutex |
| | `ChainsIntact` | `CompactReplace` | `CompactReplaceOneMore`: off by one |
| | `ForgetsOnlyHanded` | `CompactReplace` | `CompactReplaceAll`: what was appended meanwhile goes too |
| | `LogsThisTurn` | `ToLog` | `ToLogInjected`: recalled history is logged |
| `context_disturbed` | `LogsThisTurn` | `ToLog` | `ToLogOffByOne`: the first message of the turn is missed |
| `voice_turn` | `TypeOK` | `Unlocked` | `KeepLocked`: `EndSpeaking` keeps the encoder |
| | `SpokenInOrder` | `Release` | `ReleaseAfter`: what was held back goes after the next chunk |
| | `RecordedWasSaid` | `Flush` | `FlushNothing`: the last sentence is lost |
| | `TurnEnds` | `GiveUp` | `GiveUpAtOnce`: whoever stops early no longer receives |
| `scheduled_actions` | `TypeOK` | `Resume` | `ResumeKeepsCopy`: an execution that ends keeps its last copy |
| | `ClosedForAReason` | `TooMany` | `OneTooMany`: given up one refusal early |
| | `PostedOnce` | `Due` | `DueToo`: executed rows are fetched again |
| | `DueIsHandled` | `NextTime` | `NextTimeNow`: the next time is the same one |
| `scheduled_batch` | `DueIsHandled` | `GiveUp` | `GiveUpAll`: a prompt the LLM refuses ends the execution |
| `tool_loop` | `TypeOK` | `Again` | `AgainOneMore`: a completion too many |
| | `EffectsInOrder` | `Batch` | `BatchOneMore`: a call with effects joins the ones that only read |
| | `AnsweredInOrder` | `Results` | `ResultsOfSuccess`: a failed call gets no result |
| | `RequestsComplete` | `ConvertMessages` | `ConvertKeepsResults`: results without a call are sent |
| | `FailuresShown` | `AllStopAfter` | `AllStopAfterAny`: one tool that ends the loop is enough |
| | `TurnEnds` | `Joined` | `JoinedAll`: the worker waits for calls that have not begun |
| `tool_replies` | `NeverRepeats` | `Remember` | `RememberNothing`: what was said is not noted |
| `long_term_memory` | `TypeOK` | `MergeSaveFails` | `MergeSaveFailsKeeps`: a save that failed leaves its text behind |
| | `NothingForgotten` | `Keeps` | `KeepsNothing`: "keep" deletes the memory it keeps |
| | `StaysDeleted` | `Write` | `WriteUpsert`: a vector revives a deleted memory |
| `memory_vectors` | `VectorsMatch` | `EmbeddingOf` | `EmbeddingOfLast`: the vector of another candidate |
| | `EventuallyEmbedded` | `Wake` | `WakeOnSignal`: no timer |
| | `WorkerRests` | `Load` | `LoadOnAndOn`: nothing to do is no reason to wait |
| `hearing` | `TypeOK` | `JoinBegin` | `JoinBeginOver`: joins without closing the older session |
| | `InOrder` | `Free` | `FreeAlways`: packets are read while an utterance is handled |
| | `Attributed` | `VadOf` | `VadOfAnyUser`: one VAD for all users |
| | `HeardOnce` | `Ended` | `EndedNotStopped`: the detector keeps what it delivered |
| | `Accounted` | `Publish` | `PublishOrDrop`: a full bus drops the event |
| | `EventuallyHeard` | `Room` | `RoomOffByOne`: the publisher waits for a place that never comes |

## Not modelled

The wording of prompts, formats, logs and traces; HTTP and database access, whose outcomes are
nondeterministic where they matter; the search and ranking of memories, and their periodic summaries; the admin and control APIs,
whose handlers each call one operation and which are mostly generated; the prompt providers; adapters of external services; the
benchmark and synthesis commands; the firmware, the admin SPA, the widget and the containers, which are
programs of their own. Inside what is modelled: several conversations at once in
`ContextCompaction` (an emergency compaction of a device's turn picks another key); `SpeakText`, one step of a
turn by text; the scheduler's other tasks, which each do one thing for a component of their own;
camera frames and status of devices. Gateway, roles of LLMs, settings cache, MCP bridge, vision and users are parts
that have not been reached. PROJECT.json has the reason for each.

## Plan

*Done*, in this order: `EventLoop` and `OrderedDelivery`; `ContextCompaction`; `VoiceTurn`;
`ScheduledActions`; `ToolLoop`; `LongTermMemory`; `Hearing`. Left, most important first:

1. `Connections`: MCP bridge and tool registry (a reload while tools are called), roles of LLMs and
   their fallback, gateway and startup.
2. `Initiative`: the settings cache, activity and boredom, as publishers on the bus.
3. A composition of `EventLoop` with several conversations of `ContextCompaction`.
4. For `ContextCompaction` and `Hearing`, what is proved of the others: that a turn with its completions and compactions, and
   an utterance with its transcription, run out and do not stand still.
