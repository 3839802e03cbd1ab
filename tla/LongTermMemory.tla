--------------------------- MODULE LongTermMemory ---------------------------
(***************************************************************************)
(* The long-term memory (src/agent/internal/adapter/store/memory) and the  *)
(* five parties that change it: conversations whose compaction extracts    *)
(* facts (capability/memory/acquire), the consolidation that merges        *)
(* similar memories (capability/memory/consolidate, run by the cron task   *)
(* `forget` and by hand, so runs may overlap), the worker that gives       *)
(* memories their vectors, the admin, and a restart of the process.        *)
(*                                                                         *)
(* A text is the set of facts it tells; a vector is the text it was        *)
(* computed from.  The LLM is assumed to judge well what it is shown, the  *)
(* first 200 runes of each text: it keeps a memory that tells what it is   *)
(* shown of the group, and merges into a text that does, if that fits into *)
(* the 200 characters it is asked for.  What is checked is what the code   *)
(* makes of good judgments.                                                *)
(*                                                                         *)
(* Definitions that nothing uses, placed before the one they resemble, are *)
(* mistakes the properties must notice (README, Mistakes).                 *)
(***************************************************************************)
EXTENDS Naturals, Sequences, FiniteSets

CONSTANTS
    Facts,          \* what a memory may tell
    Short,          \* the texts of at most 200 characters
    MaxId,          \* memories ever saved, a bound of the model
    Acquirers,      \* compactions that may run at the same time
    MaxExtract,     \* facts of one extraction, a bound of the model
    Runs,           \* consolidations that may run at the same time
    MaxGroup,       \* ConsolidateOpts.MaxGroupSize
    GroupsPerCall,  \* ConsolidateOpts.MaxGroupsPerLLMCall
    BatchSize,      \* batchSize of the embedding worker
    Requested,      \* the texts that a request of the admin may carry
    MaxRequest,     \* requests of the admin, a bound of the model
    MaxCrash        \* restarts, a bound of the model

ASSUME Bounds ==
    /\ Short \subseteq SUBSET Facts /\ {} \in Short /\ Requested \subseteq SUBSET Facts
    /\ MaxId \in Nat /\ MaxRequest \in Nat /\ MaxCrash \in Nat
    /\ MaxExtract \in Nat \ {0} /\ MaxGroup \in Nat \ {0}
    /\ GroupsPerCall \in Nat \ {0} /\ BatchSize \in Nat \ {0}

VARIABLES
    mem,      \* the table: what each memory says, and its vector ({}: NULL)
    last,     \* the last id given
    acq,      \* each extraction: its candidates and what the check said of them
    run,      \* each consolidation: what it read, its groups, its decisions
    worker,   \* the embedding worker: where it is, and the texts it read
    signal,   \* embedSig, a channel of capacity one
    admin,    \* a merge by the admin: what it will save
    requests, \* requests of the admin so far
    crashes,  \* restarts so far
    known,    \* observed: facts that were told by a memory
    gone,     \* observed: facts gone for a reason (NothingForgotten)
    atRisk,   \* observed: facts edited in while a consolidation was running
    erased,   \* observed: facts deleted by the admin that nobody still holds
    edited    \* observed: memories the admin edited

table    == <<mem, last>>
bounds   == <<requests, crashes>>
observed == <<known, gone, atRisk, erased, edited>>
vars     == <<mem, last, acq, run, worker, signal, admin, bounds, observed>>

Ids  == 1 .. MaxId
Row  == [says : SUBSET Facts, vec : SUBSET Facts]
None == {}
-----------------------------------------------------------------------------
(* The table.                                                              *)

Union(texts) == UNION {texts[i] : i \in DOMAIN texts}
Texts        == [i \in DOMAIN mem |-> mem[i].says]
Told         == Union(Texts)
Embedded     == {i \in DOMAIN mem : mem[i].vec # None}
Blank        == {i \in DOMAIN mem : mem[i].says = {}}

\* DeleteBatch: ids that are gone are not an error.
Delete(ids) == mem' = [i \in DOMAIN mem \ ids |-> mem[i]]

\* Save and SaveRaw: a new id; a vector comes with an acquired fact only.
Insert(says, vec) ==
    /\ last < MaxId
    /\ last' = last + 1
    /\ mem' = [i \in DOMAIN mem \cup {last + 1} |->
                 IF i = last + 1 THEN [says |-> says, vec |-> vec] ELSE mem[i]]
    /\ known' = known \cup says

\* What the others hold in memory and may still write.
HeldByAcquirers == UNION {{acq[a].facts[k] : k \in DOMAIN acq[a].facts} : a \in Acquirers}
HeldByRuns      == UNION {Union(run[c].entries) : c \in Runs}
Held            == HeldByAcquirers \cup HeldByRuns \cup admin.says
-----------------------------------------------------------------------------
(* Acquire: extract, check the whole batch, then save what is new.         *)

AcqIdle == [at |-> "idle", facts |-> <<>>, found |-> <<>>]
RunIdle == [at |-> "idle", entries |-> <<>>, groups |-> {}, todo |-> {}, says |-> {}]

Init ==
    /\ mem = <<>> /\ last = 0
    /\ acq = [a \in Acquirers |-> AcqIdle]
    /\ run = [c \in Runs |-> RunIdle]
    /\ worker = [at |-> "wait", batch |-> <<>>]
    /\ signal = FALSE
    /\ admin = [at |-> "idle", says |-> {}]
    /\ requests = 0 /\ crashes = 0
    /\ known = {} /\ gone = {} /\ atRisk = {} /\ erased = {} /\ edited = {}

Candidates == UNION {[1 .. n -> Facts] : n \in 1 .. MaxExtract}

Extract(a) ==
    /\ acq[a].at = "idle"
    /\ \E facts \in Candidates :
         /\ acq' = [acq EXCEPT ![a] = [at |-> "check", facts |-> facts, found |-> <<>>]]
         /\ erased' = erased \ {facts[k] : k \in DOMAIN facts}
    /\ UNCHANGED <<table, run, worker, signal, admin, bounds, known, gone, atRisk,
                   edited>>

\* IsDuplicate: by words any memory may match; by vector the nearest one does
\* when it was computed from the same fact.  A failed embedding is no error.
Verdicts(f) ==
    {"dup"  : i \in DOMAIN mem} \cup {"bare"}
      \cup (IF \E i \in DOMAIN mem : mem[i].vec = {f} THEN {} ELSE {"new"})

Check(a) ==
    LET A == acq[a]
        k == Len(A.found) + 1 IN
    /\ A.at = "check"
    /\ \E v \in Verdicts(A.facts[k]) :
         acq' = [acq EXCEPT ![a].found = Append(A.found, v),
                            ![a].at = IF k = Len(A.facts) THEN "save" ELSE "check"]
    /\ UNCHANGED <<table, run, worker, signal, admin, bounds, observed>>

EmbeddingOfLast(A) == IF A.found[1] = "new" THEN {A.facts[Len(A.facts)]} ELSE None

\* The vector of the check is saved with the fact.
EmbeddingOf(A) == IF A.found[1] = "new" THEN {A.facts[1]} ELSE None

Rest(A) == IF Len(A.facts) = 1 THEN AcqIdle
           ELSE [A EXCEPT !.facts = Tail(A.facts), !.found = Tail(A.found)]

\* A duplicate is skipped; a memory that cannot be saved is given up.
Skip(a) ==
    /\ acq[a].at = "save"
    /\ acq' = [acq EXCEPT ![a] = Rest(acq[a])]
    /\ UNCHANGED <<table, run, worker, signal, admin, bounds, observed>>

SaveFact(a) ==
    /\ acq[a].at = "save"
    /\ acq[a].found[1] # "dup"
    /\ Insert({acq[a].facts[1]}, EmbeddingOf(acq[a]))
    /\ signal' = (signal \/ EmbeddingOf(acq[a]) = None)
    /\ acq' = [acq EXCEPT ![a] = Rest(acq[a])]
    /\ UNCHANGED <<run, worker, admin, bounds, gone, atRisk, erased, edited>>

Acquire(a) == Extract(a) \/ Check(a) \/ Skip(a) \/ SaveFact(a)
-----------------------------------------------------------------------------
(* Consolidate: two readings, groups of similar memories, judgments of the *)
(* LLM batch by batch, and their execution.                                *)

ListEmbedded(c) ==
    /\ run[c].at = "idle"
    /\ Cardinality(Embedded) >= 2
    /\ run' = [run EXCEPT ![c] =
                 [at |-> "read", entries |-> [i \in Embedded |-> mem[i].says],
                  groups |-> {}, todo |-> {}, says |-> {}]]
    /\ UNCHANGED <<table, acq, worker, signal, admin, bounds, observed>>

\* buildSimilarityGroups: the components of "similar" among the memories of
\* both readings, with the vectors of the second.
Similar(i, j)  == mem[i].vec \cap mem[j].vec # {}
Closed(S, E)   == \A i \in S, j \in E : Similar(i, j) => j \in S
Component(i, E) == {j \in E : \A S \in SUBSET E : i \in S /\ Closed(S, E) => j \in S}
Oldest(S)      == {i \in S : Cardinality({j \in S : j < i}) < MaxGroup}
Groups(E)      == {Oldest(S) : S \in {T \in {Component(i, E) : i \in E} : Cardinality(T) >= 2}}

ListVectors(c) ==
    LET groups == Groups(DOMAIN run[c].entries \cap Embedded) IN
    /\ run[c].at = "read"
    /\ run' = [run EXCEPT ![c] = IF groups = {} THEN RunIdle
                                 ELSE [run[c] EXCEPT !.at = "judge", !.groups = groups]]
    /\ UNCHANGED <<table, acq, worker, signal, admin, bounds, observed>>

TextOf(c, S) == UNION {run[c].entries[i] : i \in S}

\* What a reader of 200 characters may see of a text, or tell of it: all, or
\* some facts when it is longer.
Seen(S) == IF S \in Short THEN {S} ELSE {T \in SUBSET S : T \in Short}

\* What the prompt may show of the texts of a group.
Shown(c, g) ==
    {s \in [g -> UNION {Seen(run[c].entries[i]) : i \in g}] :
       \A i \in g : s[i] \in Seen(run[c].entries[i])}

KeepsNothing(c, g) ==
    UNION {{[deletes |-> g, says |-> None,
             cuts |-> TextOf(c, g) \ (Union(s) \cup run[c].entries[k])] :
              k \in {j \in g : Union(s) \subseteq s[j]}} : s \in Shown(c, g)}

\* A memory is kept that tells what is shown of all; the others are deleted
\* whole, with what was not shown of them.
Keeps(c, g) ==
    UNION {{[deletes |-> g \ {k}, says |-> None,
             cuts |-> TextOf(c, g) \ (Union(s) \cup run[c].entries[k])] :
              k \in {j \in g : Union(s) \subseteq s[j]}} : s \in Shown(c, g)}

\* All are deleted, and a text of what is shown of them is saved, as much as
\* the LLM was asked for, or all of it: the length is not checked.
Merges(c, g) ==
    {[deletes |-> g, says |-> T, cuts |-> TextOf(c, g) \ T] :
       T \in UNION {{Union(s)} \cup Seen(Union(s)) : s \in Shown(c, g)}}

\* A keep that deletes nothing is ignored, and a merge without a text.
Choices(c, g) == {d \in Keeps(c, g) : d.deletes # {}}
                   \cup {d \in Merges(c, g) : d.says # None}

\* At most one decision on a group, and the groups are disjoint; a failed call
\* skips the batch.
Judge(c) ==
    /\ run[c].at = "judge"
    /\ run[c].todo = {}
    /\ \E B \in SUBSET run[c].groups, G \in SUBSET run[c].groups :
         /\ B # {} /\ G \subseteq B
         /\ B = run[c].groups \/ Cardinality(B) = GroupsPerCall
         /\ Cardinality(B) <= GroupsPerCall
         /\ \E d \in [G -> UNION {Choices(c, g) : g \in G}] :
              /\ \A g \in G : d[g].deletes \subseteq g
              /\ run' = [run EXCEPT ![c].groups = @ \ B, ![c].todo = {d[g] : g \in G}]
    /\ UNCHANGED <<table, acq, worker, signal, admin, bounds, observed>>

KeepBut(c, d, deleted) ==
    /\ Delete(deleted)
    /\ gone' = IF deleted = {} THEN gone ELSE gone \cup d.cuts
    /\ run' = [run EXCEPT ![c].todo = @ \ {d}]
    /\ UNCHANGED <<last, acq, worker, signal, admin, bounds, known, atRisk, erased, edited>>

\* "keep": the others are deleted, or the deletion fails.
Keep(c) ==
    /\ run[c].at = "judge"
    /\ \E d \in run[c].todo :
         /\ d.says = None
         /\ KeepBut(c, d, d.deletes) \/ KeepBut(c, d, {})

\* executeMerge: a deletion that fails is only logged.
MergeDelete(c) ==
    /\ run[c].at = "judge"
    /\ \E d \in run[c].todo : \E deleted \in {d.deletes, {}} :
         /\ d.says # None
         /\ Delete(deleted)
         /\ gone' = IF deleted = {} THEN gone ELSE gone \cup d.cuts
         /\ run' = [run EXCEPT ![c].todo = @ \ {d}, ![c].at = "save", ![c].says = d.says]
    /\ UNCHANGED <<last, acq, worker, signal, admin, bounds, known, atRisk, erased, edited>>

MergeSave(c) ==
    /\ run[c].at = "save"
    /\ Insert(run[c].says, None)
    /\ signal' = TRUE
    /\ run' = [run EXCEPT ![c].at = "judge", ![c].says = {}]
    /\ UNCHANGED <<acq, worker, admin, bounds, gone, atRisk, erased, edited>>

MergeSaveFailsKeeps(c) ==
    /\ run[c].at = "save"
    /\ run' = [run EXCEPT ![c].at = "judge"]
    /\ gone' = gone \cup run[c].says
    /\ UNCHANGED <<table, acq, worker, signal, admin, bounds, known, atRisk, erased, edited>>

\* The memories are deleted, and what they said is not saved.
MergeSaveFails(c) ==
    /\ run[c].at = "save"
    /\ run' = [run EXCEPT ![c].at = "judge", ![c].says = {}]
    /\ gone' = gone \cup run[c].says
    /\ UNCHANGED <<table, acq, worker, signal, admin, bounds, known, atRisk, erased, edited>>

\* All is done, or the second reading failed.
Finish(c) ==
    /\ \/ run[c].at = "judge" /\ run[c].groups = {} /\ run[c].todo = {}
       \/ run[c].at = "read"
    /\ run' = [run EXCEPT ![c] = RunIdle]
    /\ UNCHANGED <<table, acq, worker, signal, admin, bounds, observed>>

Consolidate(c) == \/ ListEmbedded(c) \/ ListVectors(c) \/ Judge(c) \/ Keep(c)
                  \/ MergeDelete(c) \/ MergeSave(c) \/ MergeSaveFails(c) \/ Finish(c)
-----------------------------------------------------------------------------
(* RunEmbeddingWorker and BackfillEmbeddings.                              *)

At(place, batch) == [at |-> place, batch |-> batch]

\* The signal, or the timer: a poll every 30 s, or the back-off.
WakeOnSignal == signal
Wake == TRUE

Awake ==
    /\ worker.at = "wait"
    /\ Wake
    /\ signal' = FALSE
    /\ worker' = At("load", <<>>)
    /\ UNCHANGED <<table, acq, run, admin, bounds, observed>>

LoadOnAndOn ==
    LET bare == DOMAIN mem \ Embedded IN
    /\ worker.at = "load"
    /\ \E B \in SUBSET bare :
         /\ Cardinality(B) <= BatchSize
         /\ B = bare \/ Cardinality(B) = BatchSize
         /\ worker' = IF B = {} THEN worker
                      ELSE At("embed", [i \in B |-> mem[i].says])
    /\ UNCHANGED <<table, acq, run, signal, admin, bounds, observed>>

\* Any BatchSize of the memories without a vector; when there is none, rest.
Load ==
    LET bare == DOMAIN mem \ Embedded IN
    /\ worker.at = "load"
    /\ \E B \in SUBSET bare :
         /\ Cardinality(B) <= BatchSize
         /\ B = bare \/ Cardinality(B) = BatchSize
         /\ worker' = IF B = {} THEN At("wait", <<>>)
                      ELSE At("embed", [i \in B |-> mem[i].says])
    /\ UNCHANGED <<table, acq, run, signal, admin, bounds, observed>>

\* The vectors that came: all, unless a text is blank, and with an embedder
\* that skips failures any of them.
Embed ==
    /\ worker.at = "embed"
    /\ \A i \in DOMAIN worker.batch : worker.batch[i] # {}
    /\ worker' = [worker EXCEPT !.at = "store"]
    /\ UNCHANGED <<table, acq, run, signal, admin, bounds, observed>>

\* One failure fails the batch of the embedder "textonly", as a failed query
\* does for any; the worker waits, longer after every failure.
EmbedFails ==
    /\ worker.at = "embed"
    /\ worker' = At("wait", <<>>)
    /\ UNCHANGED <<table, acq, run, signal, admin, bounds, observed>>

\* The embedder "gemini" skips what failed, and the batch is no failure.
EmbedSkips ==
    /\ worker.at = "embed"
    /\ \E B \in SUBSET DOMAIN worker.batch :
         /\ B # DOMAIN worker.batch
         /\ \A i \in B : worker.batch[i] # {}
         /\ worker' = At("store", [i \in B |-> worker.batch[i]])
    /\ UNCHANGED <<table, acq, run, signal, admin, bounds, observed>>

WriteUpsert(i, vec) ==
    mem' = [j \in DOMAIN mem \cup {i} |->
              IF j = i THEN [says |-> vec, vec |-> vec] ELSE mem[j]]

\* UPDATE ... WHERE id: a memory deleted in the meantime stays deleted.
Write(i, vec) == mem' = [j \in DOMAIN mem |-> IF j = i THEN [mem[j] EXCEPT !.vec = vec]
                                              ELSE mem[j]]

Stored(i) == worker' = [worker EXCEPT !.batch = [j \in DOMAIN @ \ {i} |-> @[j]]]

Store(i) ==
    /\ worker.at = "store" /\ i \in DOMAIN worker.batch
    /\ Write(i, worker.batch[i])
    /\ Stored(i)
    /\ UNCHANGED <<last, acq, run, signal, admin, bounds, observed>>

StoreFails(i) ==
    /\ worker.at = "store" /\ i \in DOMAIN worker.batch
    /\ Stored(i)
    /\ UNCHANGED <<table, acq, run, signal, admin, bounds, observed>>

\* The next batch follows at once.
Again ==
    /\ worker.at = "store" /\ worker.batch = <<>>
    /\ worker' = At("load", <<>>)
    /\ UNCHANGED <<table, acq, run, signal, admin, bounds, observed>>

StoreOne == \E i \in Ids : Store(i)
Worker == \/ Awake \/ Load \/ Embed \/ EmbedFails \/ EmbedSkips
          \/ StoreOne \/ (\E i \in Ids : StoreFails(i)) \/ Again
-----------------------------------------------------------------------------
(* The admin API, one request at a time, and a restart.                    *)

Request == requests < MaxRequest /\ requests' = requests + 1

Create ==
    /\ Request
    /\ \E says \in Requested : Insert(says, None) /\ erased' = erased \ says
    /\ signal' = TRUE
    /\ UNCHANGED <<acq, run, worker, admin, crashes, gone, atRisk, edited>>

\* Update leaves the vector; content that is not given becomes blank.
Edit ==
    /\ Request
    /\ \E i \in DOMAIN mem, says \in Requested :
         /\ mem' = [mem EXCEPT ![i].says = says]
         /\ known' = known \cup says
         /\ gone' = gone \cup (mem[i].says \ says)
         /\ atRisk' = IF \E c \in Runs : run[c].at # "idle"
                      THEN atRisk \cup says ELSE atRisk
         /\ erased' = erased \ says
         /\ edited' = edited \cup {i}
    /\ UNCHANGED <<last, acq, run, worker, signal, admin, crashes>>

DeleteOne ==
    /\ Request
    /\ \E i \in DOMAIN mem :
         /\ Delete({i})
         /\ gone' = gone \cup mem[i].says
         /\ erased' = erased \cup {f \in mem[i].says :
                        /\ f \notin Held
                        /\ \A j \in DOMAIN mem \ {i} : f \notin mem[j].says}
    /\ UNCHANGED <<last, acq, run, worker, signal, admin, crashes, known, atRisk, edited>>

\* ForgetMerge: DeleteBatch, then SaveRaw of the text of the request, without
\* a signal to the worker.  A deletion that fails is only logged.
ForgetMerge ==
    /\ Request
    /\ admin.at = "idle"
    /\ \E deleted \in SUBSET DOMAIN mem, says \in Requested :
         /\ Delete(deleted)
         /\ gone' = gone \cup (Union([i \in deleted |-> mem[i].says]) \ says)
         /\ erased' = erased \ says
         /\ admin' = [at |-> "save", says |-> says]
    /\ UNCHANGED <<last, acq, run, worker, signal, crashes, known, atRisk, edited>>

ForgetSave ==
    /\ admin.at = "save"
    /\ Insert(admin.says, None)
    /\ admin' = [at |-> "idle", says |-> {}]
    /\ UNCHANGED <<acq, run, worker, signal, bounds, gone, atRisk, erased, edited>>

ForgetSaveFails ==
    /\ admin.at = "save"
    /\ gone' = gone \cup admin.says
    /\ admin' = [at |-> "idle", says |-> {}]
    /\ UNCHANGED <<table, acq, run, worker, signal, bounds, known, atRisk, erased, edited>>

Crash ==
    /\ crashes < MaxCrash
    /\ crashes' = crashes + 1
    /\ gone' = gone \cup admin.says \cup UNION {run[c].says : c \in Runs}
    /\ acq' = [a \in Acquirers |-> AcqIdle]
    /\ run' = [c \in Runs |-> RunIdle]
    /\ worker' = At("wait", <<>>)
    /\ signal' = FALSE
    /\ admin' = [at |-> "idle", says |-> {}]
    /\ UNCHANGED <<table, requests, known, atRisk, erased, edited>>

Admin == Create \/ Edit \/ DeleteOne \/ ForgetMerge \/ ForgetSave \/ ForgetSaveFails

Next == \/ \E a \in Acquirers : Acquire(a)
        \/ \E c \in Runs : Consolidate(c)
        \/ Worker \/ Admin \/ Crash

Spec == Init /\ [][Next]_vars

\* The worker is a goroutine; the embedder and the database recover.
Fairness == /\ WF_vars(Worker)
            /\ SF_vars(Embed)
            /\ SF_vars(StoreOne)

FairSpec == Spec /\ Fairness
-----------------------------------------------------------------------------
\* Functions on a subset of S, without listing them.
Partial(f, S, T) == DOMAIN f \subseteq S /\ f \in [DOMAIN f -> T]

Decision == [deletes : SUBSET Ids, says : SUBSET Facts, cuts : SUBSET Facts]
AcqType  == [at    : {"idle", "check", "save"},
             facts : Seq(Facts), found : Seq({"dup", "new", "bare"})]
RunType(entries) ==
            [at      : {"idle", "read", "judge", "save"},
             entries : {entries},
             groups  : SUBSET SUBSET DOMAIN entries,
             todo    : SUBSET Decision,
             says    : SUBSET Facts]

TableOK == last \in 0 .. MaxId /\ Partial(mem, 1 .. last, Row)

AcqOK(A) ==
    /\ A \in AcqType
    /\ Len(A.found) <= Len(A.facts)
    /\ A.at = "check" => Len(A.found) < Len(A.facts)
    /\ A.at = "save" => A.facts # <<>> /\ Len(A.found) = Len(A.facts)

RunOK(r, n) ==
    /\ r \in RunType(r.entries)
    /\ Partial(r.entries, 1 .. n, SUBSET Facts)
    /\ r.at # "save" => r.says = {}

WorkerOK(w, n) ==
    /\ w \in [at : {"wait", "load", "embed", "store"}, batch : {w.batch}]
    /\ Partial(w.batch, 1 .. n, SUBSET Facts)
    /\ w.at \in {"wait", "load"} => w.batch = <<>>

OthersOK ==
    /\ signal \in BOOLEAN
    /\ admin \in [at : {"idle", "save"}, says : SUBSET Facts]
    /\ requests \in 0 .. MaxRequest
    /\ crashes \in 0 .. MaxCrash
    /\ edited \subseteq 1 .. last
    /\ known \cup gone \cup atRisk \cup erased \subseteq Facts

\* Every variable has its type.
TypeOK ==
    /\ TableOK
    /\ acq = [a \in Acquirers |-> acq[a]] /\ \A a \in Acquirers : AcqOK(acq[a])
    /\ run = [c \in Runs |-> run[c]] /\ \A c \in Runs : RunOK(run[c], last)
    /\ WorkerOK(worker, last)
    /\ OthersOK

\* What a merge deleted and has not saved yet.
Pending == admin.says \cup UNION {run[c].says : c \in Runs}

\* What was once remembered is remembered, on its way from one memory to
\* another, or gone for a reason: the admin deleted it, edited it away or left
\* it out of a merge; a merge was cut off between its deletion and its save; it
\* was past the 200 runes the judge is shown of a text, or did not fit into the
\* 200 characters it may merge a group into; or it was edited into a memory
\* while a consolidation was deciding on an older reading.
NothingForgotten == known \subseteq Told \cup Pending \cup gone \cup atRisk

\* What the admin deleted, and no conversation or merge still holds, does not
\* come back by itself; the worker, which read it before, does not revive it.
StaysDeleted == erased \cap Told = {}

\* A vector was computed from what its memory says, unless the admin edited
\* the memory, whether it came with the memory or from the worker.
VectorsMatch ==
    \A i \in DOMAIN mem \ edited : mem[i].vec \in {None, mem[i].says}

\* A memory gets its vector, or is deleted, or some memory is blank.
Bare(i) == i \in DOMAIN mem /\ mem[i].vec = None
EventuallyEmbedded == \A i \in Ids : Bare(i) ~> (~ Bare(i) \/ Blank # {})

\* The worker comes to rest between bursts of work, or some memory is blank.
WorkerRests == (worker.at # "wait") ~> (worker.at = "wait" \/ Blank # {})
-----------------------------------------------------------------------------
\* Not so: a merge deletes before it saves.
MergesLoseNothing == [][\A c \in Runs : run[c].says \subseteq Told' \cup run'[c].says]_vars

\* Not so: the judge sees and tells 200 characters, the deletion takes all.
LongTextsAreKept == \A c \in Runs : \A d \in run[c].todo : d.cuts = {}

\* Not so: Update leaves the vector of the old text, and the worker may store
\* the vector of a text that was edited while it was embedded.
VectorsCurrent == \A i \in DOMAIN mem : mem[i].vec \in {None, mem[i].says}

\* Not so: an embedder that skips failures makes the worker try again at once.
FailuresBackOff ==
    [][worker.at = "embed" /\ worker'.batch = <<>> => worker'.at = "wait"]_vars

\* Not so: a blank memory keeps the others from their vectors.
BlankHarmless == \A i \in Ids : (Bare(i) /\ mem[i].says # {}) ~> (~ Bare(i) \/ mem[i].says = {})
=============================================================================
