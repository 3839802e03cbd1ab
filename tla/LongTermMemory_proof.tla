------------------------ MODULE LongTermMemory_proof ------------------------
(***************************************************************************)
(* Proofs about LongTermMemory: types; vectors belong to their texts; what *)
(* was deleted does not come back; with one consolidation at a time nothing *)
(* is forgotten without a reason; vectors stay, and the worker comes to rest. *)
(***************************************************************************)
EXTENDS LongTermMemory, FiniteSetTheorems, TLAPS
-----------------------------------------------------------------------------
(* Parts of the type invariant.                                            *)

AcqTyped    == acq = [a \in Acquirers |-> acq[a]] /\ \A a \in Acquirers : AcqOK(acq[a])
RunTyped    == run = [c \in Runs |-> run[c]] /\ \A c \in Runs : RunOK(run[c], last)
WorkerTyped == WorkerOK(worker, last)

LEMMA IdleRun == ASSUME NEW n \in Nat PROVE RunOK(RunIdle, n)
BY DEF RunOK, RunIdle, RunType, Partial

LEMMA IdleAcq == AcqOK(AcqIdle)
BY DEF AcqOK, AcqIdle, AcqType

LEMMA IdleWorker == ASSUME NEW n \in Nat, NEW p \in {"wait", "load"}
                    PROVE  WorkerOK(At(p, <<>>), n)
BY DEF WorkerOK, At, Partial

\* Growing the table keeps what was typed.
LEMMA Wider == ASSUME NEW m \in Nat, NEW n \in Nat, m <= n, NEW f, NEW T, Partial(f, 1 .. m, T)
               PROVE  Partial(f, 1 .. n, T)
BY DEF Partial

LEMMA RunWider ==
    ASSUME NEW m \in Nat, NEW n \in Nat, m <= n, NEW r, RunOK(r, m) PROVE RunOK(r, n)
BY Wider DEF RunOK

LEMMA WorkerWider ==
    ASSUME NEW m \in Nat, NEW n \in Nat, m <= n, NEW w, WorkerOK(w, m) PROVE WorkerOK(w, n)
BY Wider DEF WorkerOK

LEMMA RunsKept ==
    ASSUME TypeOK, last' \in Nat, last <= last', run' = run PROVE RunTyped'
BY RunWider, Bounds DEF TypeOK, TableOK, RunTyped

LEMMA RunChanged ==
    ASSUME TypeOK, last' \in Nat, last <= last', NEW c \in Runs, NEW r,
           run' = [run EXCEPT ![c] = r], RunOK(r, last')
    PROVE  RunTyped'
BY RunWider, Bounds DEF TypeOK, TableOK, RunTyped

LEMMA AcqKept == ASSUME TypeOK, acq' = acq PROVE AcqTyped'
BY DEF TypeOK, AcqTyped, AcqOK

LEMMA AcqChanged ==
    ASSUME TypeOK, NEW a \in Acquirers, NEW A, acq' = [acq EXCEPT ![a] = A], AcqOK(A)
    PROVE  AcqTyped'
BY DEF TypeOK, AcqTyped, AcqOK

LEMMA WorkerKept ==
    ASSUME TypeOK, last' \in Nat, last <= last', worker' = worker PROVE WorkerTyped'
BY WorkerWider, Bounds DEF TypeOK, TableOK, WorkerTyped

\* What each change of the table leaves.
LEMMA InsertType ==
    ASSUME TypeOK, NEW says \in SUBSET Facts, NEW vec \in SUBSET Facts, Insert(says, vec)
    PROVE  TableOK' /\ last' = last + 1 /\ last' \in Nat /\ last <= last'
           /\ known' = known \cup says
<1>1. last \in Nat /\ last + 1 \in 0 .. MaxId
  BY Bounds DEF TypeOK, TableOK, Insert
<1>2. Partial(mem', 1 .. (last + 1), Row)
  BY <1>1 DEF TypeOK, TableOK, Insert, Partial, Row
<1> QED
  BY <1>1, <1>2 DEF TableOK, Insert

LEMMA DeleteType ==
    ASSUME TypeOK, NEW ids, Delete(ids), last' = last PROVE TableOK'
BY DEF TypeOK, TableOK, Delete, Partial

LEMMA Numbers == TypeOK => last \in Nat /\ last <= last
BY Bounds DEF TypeOK, TableOK

LEMMA TextsTyped ==
    ASSUME TypeOK PROVE  /\ \A i \in DOMAIN mem : mem[i].says \subseteq Facts
                         /\ \A i \in DOMAIN mem : i \in 1 .. last
BY DEF TypeOK, TableOK, Partial, Row
-----------------------------------------------------------------------------
LEMMA InitType == Init => TypeOK
<1> SUFFICES ASSUME Init PROVE TypeOK
  OBVIOUS
<1> USE Bounds DEF Init
<1>1. TableOK
  BY DEF TableOK, Partial
<1>2. acq = [a \in Acquirers |-> acq[a]] /\ \A a \in Acquirers : AcqOK(acq[a])
  BY IdleAcq
<1>3. run = [c \in Runs |-> run[c]] /\ \A c \in Runs : RunOK(run[c], last)
  BY IdleRun
<1>4. WorkerOK(worker, last)
  BY DEF WorkerOK, Partial
<1>5. OthersOK
  <2>1. admin \in [at : {"idle", "save"}, says : SUBSET Facts]
    OBVIOUS
  <2>2. requests \in 0 .. MaxRequest /\ crashes \in 0 .. MaxCrash
    OBVIOUS
  <2>3. signal \in BOOLEAN
    BY Zenon
  <2>4. edited \subseteq 1 .. last /\ known \cup gone \cup atRisk \cup erased \subseteq Facts
    OBVIOUS
  <2> QED
    BY <2>1, <2>2, <2>3, <2>4 DEF OthersOK
<1> QED
  BY <1>1, <1>2, <1>3, <1>4, <1>5 DEF TypeOK

LEMMA Together ==
    TableOK /\ AcqTyped /\ RunTyped /\ WorkerTyped /\ OthersOK <=> TypeOK
BY DEF TypeOK, AcqTyped, RunTyped, WorkerTyped

LEMMA TogetherAfter ==
    ASSUME TableOK', AcqTyped', RunTyped', WorkerTyped', OthersOK' PROVE TypeOK'
BY DEF TypeOK, AcqTyped, RunTyped, WorkerTyped

LEMMA TableKept == ASSUME TypeOK, UNCHANGED table PROVE TableOK' /\ last' \in Nat /\ last <= last'
BY Numbers DEF TypeOK, TableOK, table, Partial

LEMMA OthersKept ==
    ASSUME TypeOK, last' \in Nat, last <= last', UNCHANGED <<signal, admin, bounds, observed>>
    PROVE  OthersOK'
BY Numbers DEF TypeOK, OthersOK, bounds, observed

\* The facts of an extraction.
LEMMA CandidateSeq == ASSUME NEW x \in Candidates
                      PROVE  x \in Seq(Facts) /\ Len(x) \in Nat \ {0} /\ Len(x) = Len(x)
BY Bounds DEF Candidates

LEMMA ExtractType == ASSUME TypeOK, NEW a \in Acquirers, Extract(a) PROVE TypeOK'
<1>1. TableOK' /\ last' \in Nat /\ last <= last'
  BY TableKept DEF Extract
<1>2. RunTyped' /\ WorkerTyped'
  BY <1>1, RunsKept, WorkerKept DEF Extract
<1>3. AcqTyped'
  <2>1. PICK x \in Candidates :
           acq' = [acq EXCEPT ![a] = [at |-> "check", facts |-> x, found |-> <<>>]]
    BY DEF Extract
  <2>2. AcqOK([at |-> "check", facts |-> x, found |-> <<>>])
    BY <2>1, CandidateSeq DEF AcqOK, AcqType
  <2> QED
    BY <2>1, <2>2, AcqChanged
<1>4. OthersOK'
  BY <1>1 DEF Extract, OthersOK, TypeOK, bounds, table
<1> QED
  BY <1>1, <1>2, <1>3, <1>4, TogetherAfter

LEMMA CheckType == ASSUME TypeOK, NEW a \in Acquirers, Check(a) PROVE TypeOK'
<1>1. TableOK' /\ last' \in Nat /\ last <= last'
  BY TableKept DEF Check
<1>2. RunTyped' /\ WorkerTyped' /\ OthersOK'
  BY <1>1, RunsKept, WorkerKept, OthersKept DEF Check
<1>3. AcqTyped'
  <2> DEFINE A == acq[a]
             k == Len(A.found) + 1
  <2>1. A.at = "check" /\ AcqOK(A)
    BY DEF Check, TypeOK
  <2>2. PICK v \in {"dup", "new", "bare"} :
           acq' = [acq EXCEPT ![a].found = Append(A.found, v),
                              ![a].at = IF k = Len(A.facts) THEN "save" ELSE "check"]
    BY DEF Check, Verdicts
  <2> DEFINE B == [A EXCEPT !.found = Append(A.found, v),
                            !.at = IF k = Len(A.facts) THEN "save" ELSE "check"]
  <2>3. acq' = [acq EXCEPT ![a] = B]
    BY <2>2, <2>1 DEF TypeOK, AcqOK, AcqType
  <2>4. AcqOK(B)
    <3>1. A.found \in Seq({"dup", "new", "bare"}) /\ A.facts \in Seq(Facts)
          /\ Len(A.found) < Len(A.facts)
      BY <2>1 DEF AcqOK, AcqType
    <3> DEFINE found == Append(A.found, v)
               place == IF k = Len(A.facts) THEN "save" ELSE "check"
    <3>2. found \in Seq({"dup", "new", "bare"}) /\ Len(found) = k /\ k \in Nat
      BY <3>1
    <3>3. k <= Len(A.facts) /\ Len(A.facts) \in Nat
      BY <3>1
    <3>4. B.at = place /\ B.found = found /\ B.facts = A.facts /\ B \in AcqType
      BY <2>1, <3>1, <3>2 DEF AcqOK, AcqType
    <3>5. A.facts # <<>>
      BY <3>1
    <3> HIDE DEF B, found, A, k
    <3> QED
      BY <3>2, <3>3, <3>4, <3>5 DEF AcqOK
  <2> QED
    BY <2>3, <2>4, AcqChanged
<1> QED
  BY <1>1, <1>2, <1>3, TogetherAfter

LEMMA NonEmpty == ASSUME NEW S, NEW t \in Seq(S), Len(t) # 0 PROVE t # <<>>
OBVIOUS

LEMMA TailFacts ==
    ASSUME NEW S, NEW s \in Seq(S), s # <<>>
    PROVE  /\ Tail(s) \in Seq(S) /\ Len(Tail(s)) = Len(s) - 1
           /\ Len(s) # 1 => Tail(s) # <<>>
<1>1. Len(s) \in Nat \ {0}
  OBVIOUS
<1>2. Tail(s) \in Seq(S) /\ Len(Tail(s)) = Len(s) - 1
  BY <1>1
<1>3. Len(s) # 1 => Len(Tail(s)) # 0
  BY <1>1, <1>2
<1> QED
  BY <1>2, <1>3, NonEmpty

LEMMA RestType == ASSUME NEW A, AcqOK(A), A.at = "save"
                  PROVE  /\ AcqOK(Rest(A))
                         /\ A.facts[1] \in Facts /\ A.facts[Len(A.facts)] \in Facts
<1>1. /\ A.facts \in Seq(Facts) /\ A.found \in Seq({"dup", "new", "bare"})
      /\ A.facts # <<>> /\ Len(A.found) = Len(A.facts)
  BY DEF AcqOK, AcqType
<1>2. A.facts[1] \in Facts /\ A.facts[Len(A.facts)] \in Facts
      /\ Len(A.facts) \in Nat \ {0}
  BY <1>1
<1>3. CASE Len(A.facts) = 1
  BY <1>2, <1>3, IdleAcq DEF Rest
<1>4. CASE Len(A.facts) # 1
  <2> DEFINE facts == Tail(A.facts)
             found == Tail(A.found)
             B == [A EXCEPT !.facts = facts, !.found = found]
  <2>1. facts \in Seq(Facts) /\ Len(facts) = Len(A.facts) - 1 /\ facts # <<>>
    BY <1>1, <1>4, TailFacts
  <2>2. found \in Seq({"dup", "new", "bare"}) /\ Len(found) = Len(A.found) - 1
    <3>1. A.found # <<>>
      BY <1>1, <1>2
    <3> QED
      BY <3>1, <1>1, TailFacts
  <2>3. B \in AcqType /\ B.at = "save" /\ B.facts = facts /\ B.found = found
    BY <2>1, <2>2 DEF AcqOK, AcqType
  <2>4. Rest(A) = B
    BY <1>4 DEF Rest
  <2> HIDE DEF B, facts, found
  <2>5. AcqOK(B)
    BY <1>1, <1>2, <2>1, <2>2, <2>3 DEF AcqOK
  <2> QED
    BY <1>2, <2>4, <2>5
<1> QED
  BY <1>3, <1>4

LEMMA SkipType == ASSUME TypeOK, NEW a \in Acquirers, Skip(a) PROVE TypeOK'
<1>1. TableOK' /\ last' \in Nat /\ last <= last'
  BY TableKept DEF Skip
<1>2. RunTyped' /\ WorkerTyped' /\ OthersOK'
  BY <1>1, RunsKept, WorkerKept, OthersKept DEF Skip
<1>3. AcqTyped'
  <2>1. AcqOK(acq[a]) /\ acq[a].at = "save"
    BY DEF TypeOK, Skip
  <2>2. AcqOK(Rest(acq[a]))
    BY <2>1, RestType
  <2> QED
    BY <2>2, AcqChanged DEF Skip
<1> QED
  BY <1>1, <1>2, <1>3, TogetherAfter

LEMMA SaveFactType == ASSUME TypeOK, NEW a \in Acquirers, SaveFact(a) PROVE TypeOK'
<1>1. AcqOK(acq[a]) /\ acq[a].at = "save"
  BY DEF TypeOK, SaveFact
<1>2. acq[a].facts[1] \in Facts /\ AcqOK(Rest(acq[a]))
  BY <1>1, RestType
<1>3. {acq[a].facts[1]} \in SUBSET Facts /\ EmbeddingOf(acq[a]) \in SUBSET Facts
  BY <1>2 DEF EmbeddingOf, None
<1>4. /\ TableOK' /\ last' \in Nat /\ last <= last' /\ last' = last + 1
      /\ known' = known \cup {acq[a].facts[1]}
  BY <1>3, InsertType DEF SaveFact
<1>5. RunTyped' /\ WorkerTyped'
  BY <1>4, RunsKept, WorkerKept DEF SaveFact
<1>6. AcqTyped'
  BY <1>2, AcqChanged DEF SaveFact
<1>7. OthersOK'
  <2>1. signal' \in BOOLEAN
    BY Zenon DEF SaveFact
  <2> QED
    BY <2>1, <1>2, <1>4, Numbers DEF SaveFact, OthersOK, TypeOK, bounds
<1> QED
  BY <1>4, <1>5, <1>6, <1>7, TogetherAfter
-----------------------------------------------------------------------------
(* A step of a consolidation replaces its record.                          *)

LEMMA RunFields ==
    ASSUME TypeOK, NEW c \in Runs
    PROVE  /\ RunOK(run[c], last)
           /\ DOMAIN run[c].entries \subseteq 1 .. last
           /\ \A i \in DOMAIN run[c].entries : run[c].entries[i] \subseteq Facts
           /\ run[c].groups \subseteq SUBSET DOMAIN run[c].entries /\ run[c].todo \subseteq Decision
           /\ run[c].says \subseteq Facts
BY DEF TypeOK, RunOK, RunType, Partial

LEMMA RunRecord ==
    ASSUME NEW n \in Nat, NEW place \in {"read", "judge", "save"}, NEW e,
           Partial(e, 1 .. n, SUBSET Facts), NEW g \in SUBSET SUBSET DOMAIN e,
           NEW t \in SUBSET Decision, NEW says \in SUBSET Facts,
           place # "save" => says = {}
    PROVE  RunOK([at |-> place, entries |-> e, groups |-> g, todo |-> t, says |-> says], n)
BY DEF RunOK, RunType

LEMMA OldestIds == ASSUME NEW S \in SUBSET Ids PROVE Oldest(S) \subseteq S
BY DEF Oldest

LEMMA GroupsOf == ASSUME NEW E, NEW g \in Groups(E) PROVE g \subseteq E
BY DEF Groups, Oldest, Component

LEMMA QuietTable ==
    ASSUME TypeOK, UNCHANGED <<table, acq, worker, signal, admin, bounds, observed>>
    PROVE  /\ TableOK' /\ AcqTyped' /\ WorkerTyped' /\ OthersOK'
           /\ last' \in Nat /\ last <= last' /\ last' = last
BY TableKept, AcqKept, WorkerKept, OthersKept DEF table

LEMMA ListEmbeddedType == ASSUME TypeOK, NEW c \in Runs, ListEmbedded(c) PROVE TypeOK'
<1>1. TableOK' /\ AcqTyped' /\ WorkerTyped' /\ OthersOK' /\ last' \in Nat /\ last <= last'
      /\ last' = last
  BY QuietTable DEF ListEmbedded
<1> DEFINE e == [i \in Embedded |-> mem[i].says]
           r == [at |-> "read", entries |-> e, groups |-> {}, todo |-> {}, says |-> {}]
<1>2. run' = [run EXCEPT ![c] = r]
  BY DEF ListEmbedded
<1>3. Partial(e, 1 .. last', SUBSET Facts)
  BY <1>1, TextsTyped DEF Partial, Embedded
<1> HIDE DEF e
<1>4. RunOK(r, last')
  BY <1>1, <1>3, RunRecord
<1> QED
  BY <1>1, <1>2, <1>4, RunChanged, TogetherAfter

LEMMA GroupIds == ASSUME NEW c \in Runs
                  PROVE  Groups(DOMAIN run[c].entries \cap Embedded)
                           \in SUBSET SUBSET DOMAIN run[c].entries
BY GroupsOf

LEMMA EntryIds == ASSUME TypeOK, NEW c \in Runs PROVE DOMAIN run[c].entries \subseteq Ids
BY RunFields, Bounds DEF Ids, TypeOK, TableOK

LEMMA ListVectorsType == ASSUME TypeOK, NEW c \in Runs, ListVectors(c) PROVE TypeOK'
<1>1. TableOK' /\ AcqTyped' /\ WorkerTyped' /\ OthersOK' /\ last' \in Nat /\ last <= last'
      /\ last' = last
  BY QuietTable DEF ListVectors
<1> DEFINE g == Groups(DOMAIN run[c].entries \cap Embedded)
           r == [run[c] EXCEPT !.at = "judge", !.groups = g]
<1>2. RunTyped'
  <2>1. CASE g = {}
    BY <2>1, <1>1, IdleRun, RunChanged DEF ListVectors
  <2>2. CASE g # {}
    <3>1. run' = [run EXCEPT ![c] = r] /\ run[c].at = "read"
      BY <2>2 DEF ListVectors
    <3>2. g \in SUBSET SUBSET DOMAIN run[c].entries
      BY GroupIds
    <3>3. RunOK(run[c], last')
      BY <1>1, RunFields
    <3> HIDE DEF g
    <3>4. RunOK(r, last')
      BY <3>1, <3>2, <3>3 DEF RunOK, RunType
    <3> HIDE DEF r
    <3> QED
      BY <1>1, <3>1, <3>4, RunChanged
  <2> QED
    BY <2>1, <2>2
<1> QED
  BY <1>1, <1>2, TogetherAfter

LEMMA SeenPart == ASSUME NEW S, NEW T \in Seen(S) PROVE T \subseteq S
BY DEF Seen

LEMMA ShownPart ==
    ASSUME NEW c \in Runs, NEW g, NEW s \in Shown(c, g)
    PROVE  /\ \A i \in g : s[i] \subseteq run[c].entries[i]
           /\ Union(s) \subseteq TextOf(c, g)
<1>1. DOMAIN s = g /\ \A i \in g : s[i] \in Seen(run[c].entries[i])
  BY DEF Shown
<1>2. \A i \in g : s[i] \subseteq run[c].entries[i]
  BY <1>1, SeenPart
<1> QED
  BY <1>1, <1>2 DEF Union, TextOf

\* What a judgment of a group deletes is kept in a memory, or told by the text
\* of the merge, but for what was cut.
LEMMA ChoiceFacts ==
    ASSUME NEW c \in Runs, NEW g, NEW d \in Choices(c, g)
    PROVE  /\ d = [deletes |-> d.deletes, says |-> d.says, cuts |-> d.cuts]
           /\ d.deletes # {} /\ d.deletes \subseteq g
           /\ d.says \subseteq TextOf(c, g) /\ d.cuts \subseteq TextOf(c, g)
           /\ d.says = {} => \E k \in g : /\ d.deletes = g \ {k}
                                          /\ TextOf(c, g) \subseteq run[c].entries[k] \cup d.cuts
           /\ d.says # {} => d.deletes = g /\ TextOf(c, g) \subseteq d.says \cup d.cuts
<1>1. CASE d \in Keeps(c, g) /\ d.deletes # {}
  <2>1. PICK s \in Shown(c, g) :
           d \in {[deletes |-> g \ {k}, says |-> None,
                   cuts |-> TextOf(c, g) \ (Union(s) \cup run[c].entries[k])] :
                    k \in {j \in g : Union(s) \subseteq s[j]}}
    BY <1>1 DEF Keeps
  <2>2. PICK k \in g :
           /\ Union(s) \subseteq s[k]
           /\ d = [deletes |-> g \ {k}, says |-> None,
                   cuts |-> TextOf(c, g) \ (Union(s) \cup run[c].entries[k])]
    BY <2>1
  <2>3. /\ d.deletes = g \ {k} /\ d.says = {}
        /\ d.cuts = TextOf(c, g) \ (Union(s) \cup run[c].entries[k])
    BY <2>2 DEF None
  <2>4. Union(s) \subseteq run[c].entries[k]
    BY <2>2, ShownPart
  <2>5. TextOf(c, g) \subseteq run[c].entries[k] \cup d.cuts
    BY <2>3, <2>4
  <2> QED
    BY <1>1, <2>2, <2>3, <2>5
<1>2. CASE d \in Merges(c, g) /\ d.says # None
  <2>0. PICK T \in UNION {{Union(s)} \cup Seen(Union(s)) : s \in Shown(c, g)} :
           d = [deletes |-> g, says |-> T, cuts |-> TextOf(c, g) \ T]
    BY <1>2 DEF Merges
  <2>1. PICK s \in Shown(c, g) : T = Union(s) \/ T \in Seen(Union(s))
    OBVIOUS
  <2>2. /\ d.deletes = g /\ d.says = T /\ d.cuts = TextOf(c, g) \ T /\ T # {}
    BY <1>2, <2>0 DEF None
  <2>3. T \subseteq TextOf(c, g)
    BY <2>1, SeenPart, ShownPart
  <2>4. g # {}
    BY <2>2, <2>3 DEF TextOf
  <2> QED
    BY <2>0, <2>2, <2>3, <2>4
<1> QED
  BY <1>1, <1>2 DEF Choices

LEMMA ChoicesTyped ==
    ASSUME TypeOK, NEW c \in Runs, NEW g \in run[c].groups, NEW d \in Choices(c, g)
    PROVE  d \in Decision
<1>1. g \subseteq DOMAIN run[c].entries /\ g \in SUBSET Ids
  BY RunFields, EntryIds
<1>2. TextOf(c, g) \in SUBSET Facts
  BY <1>1, RunFields DEF TextOf
<1>3. /\ d = [deletes |-> d.deletes, says |-> d.says, cuts |-> d.cuts]
      /\ d.deletes \in SUBSET Ids /\ d.says \in SUBSET Facts /\ d.cuts \in SUBSET Facts
  BY <1>1, <1>2, ChoiceFacts
<1> QED
  BY <1>3 DEF Decision

LEMMA JudgeType == ASSUME TypeOK, NEW c \in Runs, Judge(c) PROVE TypeOK'
<1>1. TableOK' /\ AcqTyped' /\ WorkerTyped' /\ OthersOK' /\ last' \in Nat /\ last <= last'
      /\ last' = last
  BY QuietTable DEF Judge
<1>a. PICK B \in SUBSET run[c].groups, G \in SUBSET run[c].groups :
         \E d \in [G -> UNION {Choices(c, g) : g \in G}] :
           /\ \A g \in G : d[g].deletes \subseteq g
           /\ run' = [run EXCEPT ![c].groups = @ \ B, ![c].todo = {d[g] : g \in G}]
  BY DEF Judge
<1>2. PICK d \in [G -> UNION {Choices(c, g) : g \in G}] :
         /\ \A g \in G : d[g].deletes \subseteq g
         /\ run' = [run EXCEPT ![c].groups = @ \ B, ![c].todo = {d[g] : g \in G}]
  BY <1>a
<1> DEFINE groups == run[c].groups \ B
           todo == {d[g] : g \in G}
           r == [run[c] EXCEPT !.groups = groups, !.todo = todo]
<1>3. todo \in SUBSET Decision
  <2>1. \A g \in G : d[g] \in UNION {Choices(c, h) : h \in G}
    BY <1>2
  <2> QED
    BY <2>1, ChoicesTyped
<1>4. run' = [run EXCEPT ![c] = r]
  BY <1>2 DEF TypeOK
<1>5. RunOK(run[c], last') /\ groups \in SUBSET SUBSET DOMAIN run[c].entries
  BY <1>1, RunFields
<1> HIDE DEF todo, groups
<1>6. RunOK(r, last')
  BY <1>3, <1>5 DEF RunOK, RunType
<1> HIDE DEF r
<1> QED
  BY <1>1, <1>4, <1>6, RunChanged, TogetherAfter

\* A deletion changes the table and a run.
LEMMA DeleteQuiet ==
    ASSUME TypeOK, NEW ids, Delete(ids), NEW c \in Runs, NEW d \in run[c].todo,
           gone' = IF ids = {} THEN gone ELSE gone \cup d.cuts,
           UNCHANGED <<last, acq, worker, signal, admin, bounds, known, atRisk, erased, edited>>
    PROVE  /\ TableOK' /\ AcqTyped' /\ WorkerTyped' /\ OthersOK'
           /\ last' \in Nat /\ last <= last' /\ last' = last
<1>1. d.cuts \subseteq Facts
  BY RunFields DEF Decision
<1>2. OthersOK'
  BY <1>1 DEF TypeOK, OthersOK, bounds
<1> QED
  BY <1>2, Numbers, DeleteType, AcqKept, WorkerKept

LEMMA KeepType == ASSUME TypeOK, NEW c \in Runs, Keep(c) PROVE TypeOK'
<1>0. PICK d \in run[c].todo : \E ids \in {d.deletes, {}} : KeepBut(c, d, ids)
  BY DEF Keep
<1>1. PICK ids \in {d.deletes, {}} : KeepBut(c, d, ids)
  BY <1>0
<1>2. TableOK' /\ AcqTyped' /\ WorkerTyped' /\ OthersOK' /\ last' \in Nat /\ last <= last'
      /\ last' = last
  BY <1>1, DeleteQuiet DEF KeepBut
<1> DEFINE r == [run[c] EXCEPT !.todo = run[c].todo \ {d}]
<1>3. run' = [run EXCEPT ![c] = r]
  BY <1>1 DEF KeepBut
<1>4. RunOK(r, last')
  <2>1. RunOK(run[c], last') /\ run[c].todo \ {d} \in SUBSET Decision
    BY <1>2, RunFields
  <2> QED
    BY <2>1 DEF RunOK, RunType
<1> HIDE DEF r
<1> QED
  BY <1>2, <1>3, <1>4, RunChanged, TogetherAfter

LEMMA MergeDeleteType == ASSUME TypeOK, NEW c \in Runs, MergeDelete(c) PROVE TypeOK'
<1>0. PICK d \in run[c].todo : \E ids \in {d.deletes, {}} :
         /\ Delete(ids)
         /\ gone' = IF ids = {} THEN gone ELSE gone \cup d.cuts
         /\ run' = [run EXCEPT ![c].todo = @ \ {d}, ![c].at = "save", ![c].says = d.says]
  BY DEF MergeDelete
<1>1. PICK ids \in {d.deletes, {}} :
         /\ Delete(ids)
         /\ gone' = IF ids = {} THEN gone ELSE gone \cup d.cuts
         /\ run' = [run EXCEPT ![c].todo = @ \ {d}, ![c].at = "save", ![c].says = d.says]
  BY <1>0
<1>2. TableOK' /\ AcqTyped' /\ WorkerTyped' /\ OthersOK' /\ last' \in Nat /\ last <= last'
      /\ last' = last
  BY <1>1, DeleteQuiet DEF MergeDelete
<1> DEFINE r == [run[c] EXCEPT !.todo = run[c].todo \ {d}, !.at = "save", !.says = d.says]
<1>3. run' = [run EXCEPT ![c] = r]
  BY <1>1 DEF TypeOK
<1>4. d.says \in SUBSET Facts /\ RunOK(run[c], last')
  BY <1>2, RunFields DEF Decision
<1>5. RunOK(r, last')
  BY <1>4 DEF RunOK, RunType
<1> HIDE DEF r
<1> QED
  BY <1>2, <1>3, <1>5, RunChanged, TogetherAfter

LEMMA Saved == ASSUME TypeOK, NEW c \in Runs, NEW n \in Nat, last <= n
               PROVE  RunOK([run[c] EXCEPT !.at = "judge", !.says = {}], n)
<1>1. RunOK(run[c], n)
  BY RunWider, RunFields, Numbers
<1> QED
  BY <1>1 DEF RunOK, RunType

LEMMA MergeSaveType == ASSUME TypeOK, NEW c \in Runs, MergeSave(c) PROVE TypeOK'
<1>1. run[c].says \in SUBSET Facts /\ None \in SUBSET Facts
  BY RunFields DEF None
<1>2. /\ TableOK' /\ last' = last + 1 /\ last' \in Nat /\ last <= last'
      /\ known' = known \cup run[c].says
  BY <1>1, InsertType DEF MergeSave
<1>3. AcqTyped' /\ WorkerTyped'
  BY <1>2, AcqKept, WorkerKept DEF MergeSave
<1> DEFINE r == [run[c] EXCEPT !.at = "judge", !.says = {}]
<1>4. RunTyped'
  <2>1. run' = [run EXCEPT ![c] = r]
    BY DEF MergeSave, TypeOK
  <2>2. RunOK(r, last')
    BY <1>2, Saved
  <2> HIDE DEF r
  <2> QED
    BY <1>2, <2>1, <2>2, RunChanged
<1>5. OthersOK'
  BY <1>1, <1>2, Numbers DEF MergeSave, OthersOK, TypeOK, bounds
<1> QED
  BY <1>2, <1>3, <1>4, <1>5, TogetherAfter

LEMMA MergeSaveFailsType == ASSUME TypeOK, NEW c \in Runs, MergeSaveFails(c) PROVE TypeOK'
<1>1. TableOK' /\ last' \in Nat /\ last <= last' /\ last' = last
  BY TableKept DEF MergeSaveFails, table
<1>2. AcqTyped' /\ WorkerTyped'
  BY <1>1, AcqKept, WorkerKept DEF MergeSaveFails
<1> DEFINE r == [run[c] EXCEPT !.at = "judge", !.says = {}]
<1>3. RunTyped'
  <2>1. run' = [run EXCEPT ![c] = r]
    BY DEF MergeSaveFails, TypeOK
  <2>2. RunOK(r, last')
    BY <1>1, Saved
  <2> HIDE DEF r
  <2> QED
    BY <1>1, <2>1, <2>2, RunChanged
<1>4. OthersOK'
  BY <1>1, RunFields, Numbers DEF MergeSaveFails, OthersOK, TypeOK, bounds
<1> QED
  BY <1>1, <1>2, <1>3, <1>4, TogetherAfter

LEMMA FinishType == ASSUME TypeOK, NEW c \in Runs, Finish(c) PROVE TypeOK'
<1>1. TableOK' /\ AcqTyped' /\ WorkerTyped' /\ OthersOK' /\ last' \in Nat /\ last <= last'
  BY QuietTable DEF Finish
<1> QED
  BY <1>1, IdleRun, RunChanged, TogetherAfter DEF Finish
-----------------------------------------------------------------------------
(* The worker.                                                             *)

LEMMA QuietWorker ==
    ASSUME TypeOK, UNCHANGED <<acq, run, signal, admin, bounds, observed, last>>
    PROVE  /\ AcqTyped' /\ RunTyped' /\ OthersOK'
           /\ last' \in Nat /\ last <= last' /\ last' = last
BY Numbers, AcqKept, RunsKept, OthersKept DEF table

LEMMA TableQuiet == ASSUME TypeOK, UNCHANGED table PROVE TableOK' /\ last' = last
BY TableKept DEF table

LEMMA SmallerBatch ==
    ASSUME NEW w, NEW n \in Nat, WorkerOK(w, n), NEW B \in SUBSET DOMAIN w.batch
    PROVE  WorkerOK(At("store", [i \in B |-> w.batch[i]]), n)
<1> DEFINE b == [i \in B |-> w.batch[i]]
<1>1. Partial(b, 1 .. n, SUBSET Facts)
  BY DEF WorkerOK, Partial
<1>2. At("store", [i \in B |-> w.batch[i]]) = [at |-> "store", batch |-> b]
  BY DEF At
<1> HIDE DEF b
<1>3. WorkerOK([at |-> "store", batch |-> b], n)
  BY <1>1 DEF WorkerOK
<1> QED
  BY <1>2, <1>3

LEMMA AwakeType == ASSUME TypeOK, Awake PROVE TypeOK'
<1>1. TableOK' /\ last' = last /\ AcqTyped' /\ RunTyped' /\ last' \in Nat
  BY TableQuiet, Numbers, AcqKept, RunsKept DEF Awake, table
<1>2. WorkerTyped'
  BY <1>1, IdleWorker DEF Awake, WorkerTyped
<1>3. OthersOK'
  <2>1. signal' \in BOOLEAN
    BY Zenon DEF Awake
  <2> QED
    BY <2>1, <1>1 DEF Awake, OthersOK, TypeOK, bounds, observed
<1> QED
  BY <1>1, <1>2, <1>3, TogetherAfter

LEMMA LoadType == ASSUME TypeOK, Load PROVE TypeOK'
<1>1. TableOK' /\ last' = last /\ AcqTyped' /\ RunTyped' /\ OthersOK' /\ last' \in Nat
  BY TableQuiet, QuietWorker DEF Load, table
<1>2. WorkerTyped'
  <2>1. PICK B \in SUBSET (DOMAIN mem \ Embedded) :
           worker' = IF B = {} THEN At("wait", <<>>)
                     ELSE At("embed", [i \in B |-> mem[i].says])
    BY DEF Load
  <2>2. CASE B = {}
    BY <1>1, <2>1, <2>2, IdleWorker DEF WorkerTyped
  <2>3. CASE B # {}
    <3> DEFINE b == [i \in B |-> mem[i].says]
    <3>1. Partial(b, 1 .. last', SUBSET Facts)
      BY <1>1, TextsTyped DEF Partial
    <3>2. worker' = At("embed", b)
      BY <2>1, <2>3
    <3> HIDE DEF b
    <3> QED
      BY <3>1, <3>2 DEF WorkerTyped, WorkerOK, At
  <2> QED
    BY <2>2, <2>3
<1> QED
  BY <1>1, <1>2, TogetherAfter

LEMMA EmbedType == ASSUME TypeOK, Embed \/ EmbedFails \/ EmbedSkips PROVE TypeOK'
<1>1. TableOK' /\ last' = last /\ AcqTyped' /\ RunTyped' /\ OthersOK' /\ last' \in Nat
  BY TableQuiet, QuietWorker DEF Embed, EmbedFails, EmbedSkips, table
<1>2. WorkerOK(worker, last')
  BY <1>1 DEF TypeOK
<1>3. CASE Embed
  <2>1. worker' = [worker EXCEPT !.at = "store"]
    BY <1>3 DEF Embed
  <2> QED
    BY <1>1, <1>2, <2>1, TogetherAfter DEF WorkerTyped, WorkerOK
<1>4. CASE EmbedFails
  BY <1>1, <1>4, IdleWorker, TogetherAfter DEF EmbedFails, WorkerTyped
<1>5. CASE EmbedSkips
  <2>1. PICK B \in SUBSET DOMAIN worker.batch :
           worker' = At("store", [i \in B |-> worker.batch[i]])
    BY <1>5 DEF EmbedSkips
  <2> QED
    BY <1>1, <1>2, <2>1, SmallerBatch, TogetherAfter DEF WorkerTyped
<1> QED
  BY <1>3, <1>4, <1>5

LEMMA StoredType ==
    ASSUME TypeOK, NEW i, worker.at = "store", Stored(i), last' = last
    PROVE  WorkerTyped'
<1> DEFINE b == [j \in DOMAIN worker.batch \ {i} |-> worker.batch[j]]
<1>1. Partial(b, 1 .. last', SUBSET Facts)
  BY DEF TypeOK, WorkerOK, Partial
<1>2. worker' = [worker EXCEPT !.batch = b]
  BY DEF Stored
<1>3. WorkerOK(worker, last)
  BY DEF TypeOK
<1> HIDE DEF b
<1> QED
  BY <1>1, <1>2, <1>3 DEF WorkerTyped, WorkerOK

LEMMA StoreType == ASSUME TypeOK, NEW i \in Ids, Store(i) PROVE TypeOK'
<1>1. last' = last /\ AcqTyped' /\ RunTyped' /\ OthersOK' /\ last' \in Nat
  BY QuietWorker DEF Store
<1>2. WorkerTyped'
  BY <1>1, StoredType DEF Store
<1>3. TableOK'
  <2>1. worker.batch[i] \in SUBSET Facts
    BY DEF Store, TypeOK, WorkerOK, Partial
  <2> QED
    BY <1>1, <2>1 DEF Store, Write, TypeOK, TableOK, Partial, Row
<1> QED
  BY <1>1, <1>2, <1>3, TogetherAfter

LEMMA StoreFailsType == ASSUME TypeOK, NEW i \in Ids, StoreFails(i) PROVE TypeOK'
<1>1. TableOK' /\ last' = last /\ AcqTyped' /\ RunTyped' /\ OthersOK' /\ last' \in Nat
  BY TableQuiet, QuietWorker DEF StoreFails, table
<1> QED
  BY <1>1, StoredType, TogetherAfter DEF StoreFails

LEMMA AgainType == ASSUME TypeOK, Again PROVE TypeOK'
<1>1. TableOK' /\ last' = last /\ AcqTyped' /\ RunTyped' /\ OthersOK' /\ last' \in Nat
  BY TableQuiet, QuietWorker DEF Again, table
<1> QED
  BY <1>1, IdleWorker, TogetherAfter DEF Again, WorkerTyped
-----------------------------------------------------------------------------
(* The admin and a restart.                                                *)

LEMMA CreateType == ASSUME TypeOK, Create PROVE TypeOK'
<1>1. PICK says \in SUBSET Facts : Insert(says, None) /\ erased' = erased \ says
  BY Bounds DEF Create
<1>2. /\ TableOK' /\ last' = last + 1 /\ last' \in Nat /\ last <= last'
      /\ known' = known \cup says
  BY <1>1, InsertType DEF None
<1>3. AcqTyped' /\ RunTyped' /\ WorkerTyped'
  BY <1>2, AcqKept, RunsKept, WorkerKept DEF Create
<1>4. OthersOK'
  <2>1. signal' \in BOOLEAN
    BY Zenon DEF Create
  <2>2. requests' \in 0 .. MaxRequest
    BY Bounds DEF Create, Request, TypeOK, OthersOK
  <2>3. admin' = admin /\ crashes' = crashes /\ edited' = edited /\ gone' = gone
        /\ atRisk' = atRisk
    BY DEF Create
  <2> QED
    BY <1>1, <1>2, <2>1, <2>2, <2>3, Numbers DEF OthersOK, TypeOK
<1> QED
  BY <1>2, <1>3, <1>4, TogetherAfter

LEMMA EditType == ASSUME TypeOK, Edit PROVE TypeOK'
<1>1. PICK i \in DOMAIN mem, says \in SUBSET Facts :
         /\ mem' = [mem EXCEPT ![i].says = says]
         /\ known' = known \cup says
         /\ gone' = gone \cup (mem[i].says \ says)
         /\ atRisk' = IF \E c \in Runs : run[c].at # "idle"
                      THEN atRisk \cup says ELSE atRisk
         /\ erased' = erased \ says
         /\ edited' = edited \cup {i}
  BY Bounds DEF Edit
<1>2. last' = last /\ last' \in Nat
  BY Numbers DEF Edit
<1>3. AcqTyped' /\ RunTyped' /\ WorkerTyped'
  BY <1>2, AcqKept, RunsKept, WorkerKept DEF Edit
<1>4. TableOK'
  BY <1>1, <1>2 DEF TypeOK, TableOK, Partial, Row
<1>5. OthersOK'
  <2>1. requests' \in 0 .. MaxRequest
    BY Bounds DEF Edit, Request, TypeOK, OthersOK
  <2>2. signal' = signal /\ admin' = admin /\ crashes' = crashes
    BY DEF Edit
  <2>3. i \in 1 .. last /\ mem[i].says \subseteq Facts
    BY TextsTyped
  <2>4. atRisk' \subseteq atRisk \cup says
    BY <1>1
  <2> QED
    BY <1>1, <1>2, <2>1, <2>2, <2>3, <2>4 DEF OthersOK, TypeOK
<1> QED
  BY <1>3, <1>4, <1>5, TogetherAfter

LEMMA DeleteOneType == ASSUME TypeOK, DeleteOne PROVE TypeOK'
<1>1. PICK i \in DOMAIN mem :
         /\ Delete({i})
         /\ gone' = gone \cup mem[i].says
         /\ erased' = erased \cup {f \in mem[i].says :
                        /\ f \notin Held
                        /\ \A j \in DOMAIN mem \ {i} : f \notin mem[j].says}
  BY DEF DeleteOne
<1>2. last' = last /\ last' \in Nat
  BY Numbers DEF DeleteOne
<1>3. AcqTyped' /\ RunTyped' /\ WorkerTyped'
  BY <1>2, AcqKept, RunsKept, WorkerKept DEF DeleteOne
<1>4. TableOK'
  BY <1>1, <1>2, DeleteType
<1>5. OthersOK'
  <2>1. requests' \in 0 .. MaxRequest
    BY Bounds DEF DeleteOne, Request, TypeOK, OthersOK
  <2>2. signal' = signal /\ admin' = admin /\ crashes' = crashes
        /\ known' = known /\ atRisk' = atRisk /\ edited' = edited
    BY DEF DeleteOne
  <2>3. mem[i].says \subseteq Facts
    BY TextsTyped
  <2>4. erased' \subseteq erased \cup mem[i].says
    BY <1>1
  <2> QED
    BY <1>1, <1>2, <2>1, <2>2, <2>3, <2>4 DEF OthersOK, TypeOK
<1> QED
  BY <1>3, <1>4, <1>5, TogetherAfter

LEMMA ForgetMergeType == ASSUME TypeOK, ForgetMerge PROVE TypeOK'
<1>1. PICK deleted \in SUBSET DOMAIN mem, says \in SUBSET Facts :
         /\ Delete(deleted)
         /\ gone' = gone \cup (Union([i \in deleted |-> mem[i].says]) \ says)
         /\ erased' = erased \ says
         /\ admin' = [at |-> "save", says |-> says]
  BY Bounds DEF ForgetMerge
<1>2. last' = last /\ last' \in Nat
  BY Numbers DEF ForgetMerge
<1>3. AcqTyped' /\ RunTyped' /\ WorkerTyped'
  BY <1>2, AcqKept, RunsKept, WorkerKept DEF ForgetMerge
<1>4. TableOK'
  BY <1>1, <1>2, DeleteType
<1>5. OthersOK'
  <2>1. requests' \in 0 .. MaxRequest
    BY Bounds DEF ForgetMerge, Request, TypeOK, OthersOK
  <2>2. /\ signal' = signal /\ crashes' = crashes /\ known' = known /\ atRisk' = atRisk
        /\ edited' = edited
    BY DEF ForgetMerge
  <2>3. admin' \in [at : {"idle", "save"}, says : SUBSET Facts]
    BY <1>1
  <2>4. gone' \subseteq Facts
    <3>1. Union([i \in deleted |-> mem[i].says]) \subseteq Facts
      BY TextsTyped DEF Union
    <3> QED
      BY <1>1, <3>1 DEF TypeOK, OthersOK
  <2> QED
    BY <1>1, <1>2, <2>1, <2>2, <2>3, <2>4 DEF OthersOK, TypeOK
<1> QED
  BY <1>3, <1>4, <1>5, TogetherAfter

LEMMA AdminSays == TypeOK => admin.says \in SUBSET Facts
BY DEF TypeOK, OthersOK

LEMMA ForgetSaveType == ASSUME TypeOK, ForgetSave PROVE TypeOK'
<1>1. /\ TableOK' /\ last' = last + 1 /\ last' \in Nat /\ last <= last'
      /\ known' = known \cup admin.says
  <2>1. admin.says \in SUBSET Facts /\ None \in SUBSET Facts
    BY AdminSays DEF None
  <2> QED
    BY <2>1, InsertType DEF ForgetSave
<1>2. AcqTyped' /\ RunTyped' /\ WorkerTyped'
  BY <1>1, AcqKept, RunsKept, WorkerKept DEF ForgetSave
<1>3. OthersOK'
  <2>1. admin' \in [at : {"idle", "save"}, says : SUBSET Facts]
    BY DEF ForgetSave
  <2> QED
    BY <1>1, <2>1, AdminSays, Numbers DEF ForgetSave, OthersOK, TypeOK, bounds
<1> QED
  BY <1>1, <1>2, <1>3, TogetherAfter

LEMMA ForgetSaveFailsType == ASSUME TypeOK, ForgetSaveFails PROVE TypeOK'
<1>1. TableOK' /\ last' = last /\ last' \in Nat
  BY TableQuiet, Numbers DEF ForgetSaveFails, table
<1>2. AcqTyped' /\ RunTyped' /\ WorkerTyped'
  BY <1>1, AcqKept, RunsKept, WorkerKept DEF ForgetSaveFails
<1>3. OthersOK'
  <2>1. admin' \in [at : {"idle", "save"}, says : SUBSET Facts]
    BY DEF ForgetSaveFails
  <2> QED
    BY <1>1, <2>1, AdminSays DEF ForgetSaveFails, OthersOK, TypeOK, bounds
<1> QED
  BY <1>1, <1>2, <1>3, TogetherAfter

LEMMA CrashType == ASSUME TypeOK, Crash PROVE TypeOK'
<1>1. TableOK' /\ last' = last /\ last' \in Nat
  BY TableQuiet, Numbers DEF Crash, table
<1>2. AcqTyped'
  BY IdleAcq DEF Crash, AcqTyped
<1>3. RunTyped'
  BY <1>1, IdleRun DEF Crash, RunTyped
<1>4. WorkerTyped'
  BY <1>1, IdleWorker DEF Crash, WorkerTyped
<1>5. OthersOK'
  <2>1. admin' \in [at : {"idle", "save"}, says : SUBSET Facts]
    BY DEF Crash
  <2>2. signal' \in BOOLEAN
    BY Zenon DEF Crash
  <2>3. crashes' \in 0 .. MaxCrash
    BY Bounds DEF Crash, TypeOK, OthersOK
  <2>4. gone' \subseteq Facts
    BY AdminSays, RunFields DEF Crash, TypeOK, OthersOK
  <2>5. requests' = requests /\ known' = known /\ atRisk' = atRisk
        /\ erased' = erased /\ edited' = edited
    BY DEF Crash
  <2> QED
    BY <1>1, <2>1, <2>2, <2>3, <2>4, <2>5 DEF OthersOK, TypeOK
<1> QED
  BY <1>1, <1>2, <1>3, <1>4, <1>5, TogetherAfter
-----------------------------------------------------------------------------
\* The steps, one by one.
LEMMA StepCases ==
    ASSUME Next
    PROVE  \/ \E a \in Acquirers : Extract(a) \/ Check(a) \/ Skip(a) \/ SaveFact(a)
           \/ \E c \in Runs : \/ ListEmbedded(c) \/ ListVectors(c) \/ Judge(c) \/ Keep(c)
                              \/ MergeDelete(c) \/ MergeSave(c) \/ MergeSaveFails(c)
                              \/ Finish(c)
           \/ Awake \/ Load \/ (Embed \/ EmbedFails \/ EmbedSkips) \/ Again
           \/ \E i \in Ids : Store(i) \/ StoreFails(i)
           \/ Create \/ Edit \/ DeleteOne \/ ForgetMerge \/ ForgetSave \/ ForgetSaveFails
           \/ Crash
BY DEF Next, Acquire, Consolidate, Worker, StoreOne, Admin

LEMMA StepType == TypeOK /\ [Next]_vars => TypeOK'
<1> SUFFICES ASSUME TypeOK, [Next]_vars PROVE TypeOK'
  OBVIOUS
<1>1. CASE Next
  BY <1>1, StepCases, ExtractType, CheckType, SkipType, SaveFactType, ListEmbeddedType,
     ListVectorsType, JudgeType, KeepType, MergeDeleteType, MergeSaveType,
     MergeSaveFailsType, FinishType, AwakeType, LoadType, EmbedType, AgainType, StoreType,
     StoreFailsType, CreateType, EditType, DeleteOneType, ForgetMergeType,
     ForgetSaveType, ForgetSaveFailsType, CrashType
<1>2. CASE UNCHANGED vars
  <2>1. TableOK' /\ last' = last /\ last' \in Nat
    BY <1>2, TableQuiet, Numbers DEF vars, table
  <2>2. AcqTyped' /\ RunTyped' /\ WorkerTyped' /\ OthersOK'
    BY <1>2, <2>1, AcqKept, RunsKept, WorkerKept, OthersKept DEF vars, bounds
  <2> QED
    BY <2>1, <2>2, TogetherAfter
<1> QED
  BY <1>1, <1>2

\* Every variable has its type, with any number of extractions and
\* consolidations at a time and any bounds.
THEOREM TypeCorrect == Spec => []TypeOK
<1>1. Init => TypeOK
  BY InitType
<1>2. TypeOK /\ [Next]_vars => TypeOK'
  BY StepType
<1> QED
  BY <1>1, <1>2, PTL DEF Spec
-----------------------------------------------------------------------------
(* Vectors.  A batch of the worker holds the texts of its memories as long *)
(* as they are there and not edited.                                       *)

BatchCurrent == \A i \in (DOMAIN worker.batch \cap DOMAIN mem) \ edited :
                   worker.batch[i] = mem[i].says
VectorInv    == VectorsMatch /\ BatchCurrent

LEMMA VectorKept ==
    ASSUME VectorInv, mem' = mem, worker' = worker, edited' = edited PROVE VectorInv'
BY DEF VectorInv, VectorsMatch, BatchCurrent

LEMMA VectorDelete ==
    ASSUME VectorInv, NEW ids, Delete(ids), worker' = worker, edited' = edited
    PROVE  VectorInv'
BY DEF VectorInv, VectorsMatch, BatchCurrent, Delete

LEMMA VectorInsert ==
    ASSUME TypeOK, VectorInv, NEW says, NEW vec \in {None, says}, Insert(says, vec),
           worker' = worker, edited' = edited
    PROVE  VectorInv'
<1>1. /\ DOMAIN mem' = DOMAIN mem \cup {last + 1}
      /\ \A i \in DOMAIN mem : i # last + 1 => mem'[i] = mem[i]
      /\ mem'[last + 1] = [says |-> says, vec |-> vec]
  BY DEF Insert
<1>2. last + 1 \notin DOMAIN worker.batch
  BY Numbers DEF TypeOK, WorkerOK, Partial
<1>3. VectorsMatch'
  BY <1>1 DEF VectorInv, VectorsMatch
<1>4. BatchCurrent'
  BY <1>1, <1>2 DEF VectorInv, BatchCurrent
<1> QED
  BY <1>3, <1>4 DEF VectorInv

\* A smaller batch is as current.
LEMMA VectorBatch ==
    ASSUME VectorInv, mem' = mem, edited' = edited,
           DOMAIN worker'.batch \subseteq DOMAIN worker.batch,
           \A i \in DOMAIN worker'.batch : worker'.batch[i] = worker.batch[i]
    PROVE  VectorInv'
BY DEF VectorInv, VectorsMatch, BatchCurrent

LEMMA VectorWorker ==
    ASSUME TypeOK, VectorInv,
           Awake \/ Load \/ (Embed \/ EmbedFails \/ EmbedSkips) \/ Again
    PROVE  VectorInv'
<1>1. mem' = mem /\ edited' = edited
  BY DEF Awake, Load, Embed, EmbedFails, EmbedSkips, Again, table, observed
<1>2. CASE Awake \/ EmbedFails \/ Again
  <2>1. DOMAIN worker'.batch = {}
    BY <1>2 DEF Awake, EmbedFails, Again, At
  <2> QED
    BY <1>1, <2>1, VectorBatch
<1>3. CASE Embed
  <2>1. worker'.batch = worker.batch
    BY <1>3 DEF Embed, TypeOK, WorkerOK
  <2> QED
    BY <1>1, <2>1, VectorBatch
<1>4. CASE EmbedSkips
  BY <1>1, <1>4, VectorBatch DEF EmbedSkips, At
<1>5. CASE Load
  <2>1. \A i \in DOMAIN worker'.batch : worker'.batch[i] = mem[i].says
    BY <1>5 DEF Load, At
  <2> QED
    BY <1>1, <2>1 DEF VectorInv, VectorsMatch, BatchCurrent
<1> QED
  BY <1>2, <1>3, <1>4, <1>5

LEMMA VectorStore ==
    ASSUME TypeOK, VectorInv, NEW i \in Ids, Store(i) \/ StoreFails(i) PROVE VectorInv'
<1>1. /\ edited' = edited /\ i \in DOMAIN worker.batch
      /\ DOMAIN worker'.batch \subseteq DOMAIN worker.batch
      /\ \A j \in DOMAIN worker'.batch : worker'.batch[j] = worker.batch[j]
  BY DEF Store, StoreFails, Stored, observed, TypeOK, WorkerOK
<1>2. CASE StoreFails(i)
  BY <1>1, <1>2, VectorBatch DEF StoreFails, table
<1>3. CASE Store(i)
  <2>1. /\ DOMAIN mem' = DOMAIN mem
        /\ \A j \in DOMAIN mem : j # i => mem'[j] = mem[j]
        /\ i \in DOMAIN mem => mem'[i].says = mem[i].says /\ mem'[i].vec = worker.batch[i]
    BY <1>3 DEF Store, Write, TypeOK, TableOK, Partial, Row
  <2>2. VectorsMatch'
    BY <1>1, <2>1 DEF VectorInv, VectorsMatch, BatchCurrent
  <2>3. BatchCurrent'
    <3> SUFFICES ASSUME NEW j \in (DOMAIN worker'.batch \cap DOMAIN mem') \ edited'
                 PROVE  worker'.batch[j] = mem'[j].says
      BY DEF BatchCurrent
    <3> QED
      BY <1>1, <2>1 DEF VectorInv, BatchCurrent
  <2> QED
    BY <2>2, <2>3 DEF VectorInv
<1> QED
  BY <1>2, <1>3

LEMMA VectorEdit == ASSUME TypeOK, VectorInv, Edit PROVE VectorInv'
<1>1. PICK i \in DOMAIN mem, says \in SUBSET Facts :
         mem' = [mem EXCEPT ![i].says = says] /\ edited' = edited \cup {i}
  BY Bounds DEF Edit
<1>2. worker' = worker
  BY DEF Edit
<1>3. DOMAIN mem' = DOMAIN mem /\ \A j \in DOMAIN mem : j # i => mem'[j] = mem[j]
  BY <1>1
<1> QED
  BY <1>1, <1>2, <1>3 DEF VectorInv, VectorsMatch, BatchCurrent

LEMMA VectorAcquire ==
    ASSUME TypeOK, VectorInv, NEW a \in Acquirers,
           Extract(a) \/ Check(a) \/ Skip(a) \/ SaveFact(a)
    PROVE  VectorInv'
<1>1. CASE Extract(a) \/ Check(a) \/ Skip(a)
  BY <1>1, VectorKept DEF Extract, Check, Skip, table, observed
<1>2. CASE SaveFact(a)
  <2>1. EmbeddingOf(acq[a]) \in {None, {acq[a].facts[1]}}
    BY DEF EmbeddingOf
  <2> QED
    BY <1>2, <2>1, VectorInsert DEF SaveFact
<1> QED
  BY <1>1, <1>2

LEMMA VectorConsolidate ==
    ASSUME TypeOK, VectorInv, NEW c \in Runs, Consolidate(c) PROVE VectorInv'
<1>1. CASE ListEmbedded(c) \/ ListVectors(c) \/ Judge(c) \/ MergeSaveFails(c) \/ Finish(c)
  BY <1>1, VectorKept DEF ListEmbedded, ListVectors, Judge, MergeSaveFails, Finish, table,
     observed
<1>2. CASE Keep(c)
  BY <1>2, VectorDelete DEF Keep, KeepBut, observed
<1>3. CASE MergeDelete(c)
  BY <1>3, VectorDelete DEF MergeDelete, observed
<1>4. CASE MergeSave(c)
  BY <1>4, VectorInsert DEF MergeSave
<1> QED
  BY <1>1, <1>2, <1>3, <1>4 DEF Consolidate

LEMMA VectorAdmin == ASSUME TypeOK, VectorInv, Admin PROVE VectorInv'
<1>1. CASE Create
  BY <1>1, VectorInsert DEF Create
<1>2. CASE DeleteOne
  BY <1>2, VectorDelete DEF DeleteOne
<1>3. CASE ForgetMerge
  BY <1>3, VectorDelete DEF ForgetMerge, observed
<1>4. CASE ForgetSave
  BY <1>4, VectorInsert DEF ForgetSave
<1>5. CASE ForgetSaveFails
  BY <1>5, VectorKept DEF ForgetSaveFails, table
<1> QED
  BY <1>1, <1>2, <1>3, <1>4, <1>5, VectorEdit DEF Admin

LEMMA VectorCrash == ASSUME TypeOK, VectorInv, Crash PROVE VectorInv'
<1>1. mem' = mem /\ edited' = edited /\ DOMAIN worker'.batch = {}
  BY DEF Crash, table, At
<1> QED
  BY <1>1, VectorBatch

\* A vector was computed from what its memory says, unless the admin edited the
\* memory: for any extractions, consolidations, failures and restarts.
THEOREM VectorsBelong == Spec => []VectorsMatch
<1>1. Init => VectorInv
  BY DEF Init, VectorInv, VectorsMatch, BatchCurrent
<1>2. TypeOK /\ VectorInv /\ [Next]_vars => VectorInv'
  <2> SUFFICES ASSUME TypeOK, VectorInv, [Next]_vars PROVE VectorInv'
    OBVIOUS
  <2>1. CASE Next
    BY <2>1, VectorAcquire, VectorConsolidate, VectorWorker, VectorStore, VectorAdmin,
       VectorCrash DEF Next, Acquire, Worker, StoreOne
  <2>2. CASE UNCHANGED vars
    BY <2>2, VectorKept DEF vars, observed
  <2> QED
    BY <2>1, <2>2
<1>3. VectorInv => VectorsMatch
  BY DEF VectorInv
<1> QED
  BY <1>1, <1>2, <1>3, TypeCorrect, PTL DEF Spec
-----------------------------------------------------------------------------
(* Deletion.  What a decision saves, its run has read.                     *)

RunTexts == \A c \in Runs : /\ \A d \in run[c].todo : d.says \subseteq Union(run[c].entries)
                            /\ run[c].says \subseteq Union(run[c].entries)
Gone      == erased \cap (Told \cup Held) = {}
ErasedInv == RunTexts /\ Gone

LEMMA InTold == \A f : f \in Told <=> \E i \in DOMAIN mem : f \in mem[i].says
BY DEF Told, Union, Texts

LEMMA InToldAfter == \A f : f \in Told' <=> \E i \in DOMAIN mem' : f \in mem'[i].says
BY DEF Told, Union, Texts

InHand(f) == \/ \E a \in Acquirers : \E k \in DOMAIN acq[a].facts : f = acq[a].facts[k]
             \/ \E c \in Runs : \E i \in DOMAIN run[c].entries : f \in run[c].entries[i]
             \/ f \in admin.says

LEMMA InHeld == \A f : f \in Held <=> InHand(f)
<1> TAKE f
<1>1. f \in HeldByAcquirers
      <=> \E a \in Acquirers : \E k \in DOMAIN acq[a].facts : f = acq[a].facts[k]
  BY DEF HeldByAcquirers
<1>2. f \in HeldByRuns <=> \E c \in Runs : f \in Union(run[c].entries)
  BY DEF HeldByRuns
<1>3. \A c \in Runs : f \in Union(run[c].entries)
         <=> \E i \in DOMAIN run[c].entries : f \in run[c].entries[i]
  BY DEF Union
<1> QED
  BY <1>1, <1>2, <1>3 DEF Held, InHand

LEMMA InHeldAfter == \A f : f \in Held' <=> InHand(f)'
<1> TAKE f
<1>1. f \in HeldByAcquirers'
      <=> \E a \in Acquirers : \E k \in DOMAIN acq'[a].facts : f = acq'[a].facts[k]
  BY DEF HeldByAcquirers
<1>2. f \in HeldByRuns' <=> \E c \in Runs : f \in Union(run'[c].entries)
  BY DEF HeldByRuns
<1>3. \A c \in Runs : f \in Union(run'[c].entries)
         <=> \E i \in DOMAIN run'[c].entries : f \in run'[c].entries[i]
  BY DEF Union
<1> QED
  BY <1>1, <1>2, <1>3 DEF Held, InHand

LEMMA HeldKept == ASSUME acq' = acq, run' = run, admin' = admin PROVE Held' = Held
BY DEF Held, HeldByAcquirers, HeldByRuns

LEMMA RunTextsKept == ASSUME RunTexts, run' = run PROVE RunTexts'
BY DEF RunTexts

LEMMA GoneKept ==
    ASSUME Gone, NEW X, erased' \cap X = {}, erased' \subseteq erased,
           Told' \subseteq Told \cup Held \cup X, Held' \subseteq Told \cup Held \cup X
    PROVE  Gone'
BY DEF Gone

LEMMA ToldSame == ASSUME mem' = mem PROVE Told' = Told
BY DEF Told, Texts

LEMMA ToldDelete == ASSUME NEW ids, Delete(ids) PROVE Told' \subseteq Told
BY InTold, InToldAfter DEF Delete

LEMMA ToldInsert ==
    ASSUME NEW says, NEW vec, Insert(says, vec) PROVE Told' \subseteq Told \cup says
<1>1. \A i \in DOMAIN mem' : (i \in DOMAIN mem /\ mem'[i] = mem[i]) \/ mem'[i].says = says
  BY DEF Insert
<1> QED
  BY <1>1, InTold, InToldAfter

\* An extraction goes on with facts it has.
LEMMA RestFacts ==
    ASSUME NEW A, AcqOK(A), A.at = "save", NEW k \in DOMAIN Rest(A).facts
    PROVE  \E j \in DOMAIN A.facts : A.facts[j] = Rest(A).facts[k]
<1>1. A.facts \in Seq(Facts) /\ A.facts # <<>>
  BY DEF AcqOK, AcqType
<1>2. CASE Len(A.facts) = 1
  BY <1>2 DEF Rest, AcqIdle
<1>3. CASE Len(A.facts) # 1
  <2>1. Rest(A).facts = Tail(A.facts)
    BY <1>3 DEF Rest, AcqOK, AcqType
  <2>2. k \in 1 .. (Len(A.facts) - 1) /\ Tail(A.facts)[k] = A.facts[k + 1]
        /\ Len(A.facts) \in Nat /\ DOMAIN A.facts = 1 .. Len(A.facts)
    BY <1>1, <2>1
  <2>3. k + 1 \in DOMAIN A.facts
    BY <2>2
  <2> QED
    BY <2>1, <2>2, <2>3
<1> QED
  BY <1>2, <1>3

LEMMA HeldRest ==
    ASSUME TypeOK, NEW a \in Acquirers, acq[a].at = "save",
           acq' = [acq EXCEPT ![a] = Rest(acq[a])], run' = run, admin' = admin
    PROVE  Held' \subseteq Held
<1>1. AcqOK(acq[a]) /\ acq'[a] = Rest(acq[a]) /\ \A b \in Acquirers \ {a} : acq'[b] = acq[b]
  BY DEF TypeOK
<1>2. \A k \in DOMAIN acq'[a].facts : \E j \in DOMAIN acq[a].facts :
         acq[a].facts[j] = acq'[a].facts[k]
  BY <1>1, RestFacts
<1> SUFFICES ASSUME NEW f \in Held' PROVE f \in Held
  OBVIOUS
<1>3. InHand(f)'
  BY InHeldAfter
<1>4. InHand(f)
  BY <1>1, <1>2, <1>3 DEF InHand
<1> QED
  BY <1>4, InHeld

LEMMA ErasedAcquire ==
    ASSUME TypeOK, ErasedInv, NEW a \in Acquirers,
           Extract(a) \/ Check(a) \/ Skip(a) \/ SaveFact(a)
    PROVE  ErasedInv'
<1>1. run' = run /\ admin' = admin /\ RunTexts'
  BY RunTextsKept DEF Extract, Check, Skip, SaveFact, ErasedInv
<1>2. CASE Extract(a)
  <2>1. PICK x \in Candidates :
           /\ acq' = [acq EXCEPT ![a] = [at |-> "check", facts |-> x, found |-> <<>>]]
           /\ erased' = erased \ {x[k] : k \in DOMAIN x}
    BY <1>2 DEF Extract
  <2>2. Told' = Told
    BY <1>2, ToldSame DEF Extract, table
  <2>3. acq'[a].facts = x /\ \A b \in Acquirers \ {a} : acq'[b] = acq[b]
    BY <2>1 DEF TypeOK
  <2>4. Held' \subseteq Held \cup {x[k] : k \in DOMAIN x}
    <3> SUFFICES ASSUME NEW f \in Held' PROVE f \in Held \cup {x[k] : k \in DOMAIN x}
      OBVIOUS
    <3>1. InHand(f)'
      BY InHeldAfter
    <3>2. InHand(f) \/ f \in {x[k] : k \in DOMAIN x}
      BY <1>1, <2>3, <3>1 DEF InHand
    <3> QED
      BY <3>2, InHeld
  <2>5. erased' \cap {x[k] : k \in DOMAIN x} = {} /\ erased' \subseteq erased
    BY <2>1
  <2> QED
    BY <1>1, <2>2, <2>4, <2>5, GoneKept DEF ErasedInv
<1>3. CASE Check(a)
  <2>1. \A b \in Acquirers : acq'[b].facts = acq[b].facts
    <3> DEFINE A == acq[a]
               k == Len(A.found) + 1
    <3>1. PICK v :
             acq' = [acq EXCEPT ![a].found = Append(A.found, v),
                                ![a].at = IF k = Len(A.facts) THEN "save" ELSE "check"]
      BY <1>3 DEF Check
    <3>2. \A b \in Acquirers \ {a} : acq'[b] = acq[b]
      BY <3>1 DEF TypeOK
    <3>3. acq'[a] = [acq[a] EXCEPT !.found = Append(A.found, v),
                                  !.at = IF k = Len(A.facts) THEN "save" ELSE "check"]
      BY <3>1 DEF TypeOK
    <3>4. acq[a] \in AcqType
      BY DEF TypeOK, AcqOK
    <3> HIDE DEF A, k
    <3>5. acq'[a].facts = acq[a].facts
      BY <3>3, <3>4 DEF AcqType
    <3> QED
      BY <3>2, <3>5
  <2>2. \A f : InHand(f)' <=> InHand(f)
    BY <1>1, <2>1 DEF InHand
  <2>3. Held' = Held
    BY <2>2, InHeld, InHeldAfter
  <2>4. Told' = Told /\ erased' = erased
    BY <1>3, ToldSame DEF Check, table, observed
  <2> QED
    BY <1>1, <2>3, <2>4 DEF ErasedInv, Gone
<1>4. CASE Skip(a)
  <2>1. Held' \subseteq Held
    BY <1>1, <1>4, HeldRest DEF Skip
  <2>2. Told' = Told /\ erased' = erased
    BY <1>4, ToldSame DEF Skip, table, observed
  <2> QED
    BY <1>1, <2>1, <2>2 DEF ErasedInv, Gone
<1>5. CASE SaveFact(a)
  <2>1. Held' \subseteq Held
    BY <1>1, <1>5, HeldRest DEF SaveFact
  <2>2. Told' \subseteq Told \cup {acq[a].facts[1]} /\ erased' = erased
    BY <1>5, ToldInsert DEF SaveFact
  <2>3. 1 \in DOMAIN acq[a].facts
    <3>1. acq[a].facts \in Seq(Facts) /\ acq[a].facts # <<>>
      BY <1>5 DEF SaveFact, TypeOK, AcqOK, AcqType
    <3> QED
      BY <3>1
  <2>4. acq[a].facts[1] \in Held
    BY <2>3, InHeld DEF InHand
  <2> QED
    BY <1>1, <2>1, <2>2, <2>4 DEF ErasedInv, Gone
<1> QED
  BY <1>2, <1>3, <1>4, <1>5

\* A step of a run that keeps what it read, or forgets it, or reads the table.
LEMMA HeldRun ==
    ASSUME TypeOK, NEW c \in Runs, acq' = acq, admin' = admin,
           \A b \in Runs \ {c} : run'[b] = run[b],
           NEW X, Union(run'[c].entries) \subseteq X
    PROVE  Held' \subseteq Held \cup X
<1> SUFFICES ASSUME NEW f \in Held' PROVE f \in Held \cup X
  OBVIOUS
<1>1. InHand(f)'
  BY InHeldAfter
<1>2. InHand(f) \/ f \in Union(run'[c].entries)
  BY <1>1 DEF InHand, Union
<1> QED
  BY <1>2, InHeld

LEMMA UnionHeld == ASSUME NEW c \in Runs PROVE Union(run[c].entries) \subseteq Held
BY InHeld DEF InHand, Union

\* What a step of run c leaves of the others.
LEMMA OneRun ==
    ASSUME TypeOK, NEW c \in Runs, NEW r, run' = [run EXCEPT ![c] = r]
    PROVE  run'[c] = r /\ \A b \in Runs \ {c} : run'[b] = run[b]
BY DEF TypeOK

\* The run after each step that keeps what was read.
LEMMA KeptRun ==
    ASSUME TypeOK, NEW c \in Runs,
           Judge(c) \/ Keep(c) \/ MergeDelete(c) \/ MergeSave(c) \/ MergeSaveFails(c)
    PROVE  /\ run'[c].entries = run[c].entries
           /\ \A b \in Runs \ {c} : run'[b] = run[b]
<1>1. run[c] \in RunType(run[c].entries)
  BY RunFields DEF RunOK
<1>2. CASE Judge(c)
  <2>1. PICK g, x : run' = [run EXCEPT ![c].groups = g, ![c].todo = x]
    BY <1>2 DEF Judge
  <2> QED
    BY <1>1, <2>1 DEF TypeOK, RunType
<1>3. CASE Keep(c)
  <2>1. PICK x : run' = [run EXCEPT ![c].todo = x]
    BY <1>3 DEF Keep, KeepBut
  <2> QED
    BY <1>1, <2>1 DEF TypeOK, RunType
<1>4. CASE MergeDelete(c)
  <2>1. PICK x, s : run' = [run EXCEPT ![c].todo = x, ![c].at = "save", ![c].says = s]
    BY <1>4 DEF MergeDelete
  <2> QED
    BY <1>1, <2>1 DEF TypeOK, RunType
<1>5. CASE MergeSave(c) \/ MergeSaveFails(c)
  <2>1. run' = [run EXCEPT ![c].at = "judge", ![c].says = {}]
    BY <1>5 DEF MergeSave, MergeSaveFails
  <2> QED
    BY <1>1, <2>1 DEF TypeOK, RunType
<1> QED
  BY <1>2, <1>3, <1>4, <1>5

LEMMA TextOfRead ==
    ASSUME TypeOK, NEW c \in Runs, NEW g \in run[c].groups, NEW d \in Choices(c, g)
    PROVE  d.says \subseteq Union(run[c].entries)
<1>1. g \subseteq DOMAIN run[c].entries
  BY RunFields
<1>2. TextOf(c, g) \subseteq Union(run[c].entries)
  BY <1>1 DEF TextOf, Union
<1> QED
  BY <1>2, ChoiceFacts

LEMMA RunTextsStep ==
    ASSUME TypeOK, RunTexts, NEW c \in Runs, Consolidate(c) PROVE RunTexts'
<1>1. RunOK(run[c], last) /\ run[c] \in RunType(run[c].entries)
  BY RunFields DEF RunOK
<1>2. CASE ListEmbedded(c) \/ Finish(c)
  <2>1. PICK e : run' = [run EXCEPT ![c] = [at |-> "read", entries |-> e, groups |-> {},
                                           todo |-> {}, says |-> {}]]
                 \/ run' = [run EXCEPT ![c] = RunIdle]
    BY <1>2 DEF ListEmbedded, Finish
  <2> QED
    BY <2>1 DEF RunTexts, RunIdle, TypeOK
<1>3. CASE ListVectors(c)
  <2>1. run' = [run EXCEPT ![c] = RunIdle]
        \/ \E g : run' = [run EXCEPT ![c] = [run[c] EXCEPT !.at = "judge", !.groups = g]]
    BY <1>3 DEF ListVectors
  <2>2. CASE run' = [run EXCEPT ![c] = RunIdle]
    BY <2>2 DEF RunTexts, RunIdle, TypeOK
  <2>3. CASE \E g : run' = [run EXCEPT ![c] = [run[c] EXCEPT !.at = "judge", !.groups = g]]
    <3>1. /\ run'[c].entries = run[c].entries /\ run'[c].todo = run[c].todo
          /\ run'[c].says = run[c].says
          /\ \A b \in Runs \ {c} : run'[b] = run[b]
      BY <1>1, <2>3 DEF TypeOK, RunType
    <3> QED
      BY <3>1 DEF RunTexts
  <2> QED
    BY <2>1, <2>2, <2>3
<1>4. CASE Judge(c)
  <2>1. PICK B \in SUBSET run[c].groups, G \in SUBSET run[c].groups :
           \E d \in [G -> UNION {Choices(c, g) : g \in G}] :
             /\ \A g \in G : d[g].deletes \subseteq g
             /\ run' = [run EXCEPT ![c].groups = @ \ B, ![c].todo = {d[g] : g \in G}]
    BY <1>4 DEF Judge
  <2>2. PICK d \in [G -> UNION {Choices(c, g) : g \in G}] :
             /\ \A g \in G : d[g].deletes \subseteq g
             /\ run' = [run EXCEPT ![c].groups = @ \ B, ![c].todo = {d[g] : g \in G}]
    BY <2>1
  <2> DEFINE todo == {d[g] : g \in G}
             groups == run[c].groups \ B
  <2>3. \A x \in todo : x.says \subseteq Union(run[c].entries)
    <3>1. \A g \in G : d[g] \in UNION {Choices(c, h) : h \in G}
      BY <2>2
    <3> QED
      BY <3>1, TextOfRead
  <2>4. run' = [run EXCEPT ![c].groups = groups, ![c].todo = todo]
    BY <2>2
  <2> HIDE DEF todo, groups
  <2>5. run'[c].todo = todo /\ run'[c].says = run[c].says /\ run'[c].entries = run[c].entries
        /\ \A b \in Runs \ {c} : run'[b] = run[b]
    BY <1>1, <2>4 DEF TypeOK, RunType
  <2> QED
    BY <2>3, <2>5 DEF RunTexts
<1>5. CASE Keep(c) \/ MergeDelete(c) \/ MergeSave(c) \/ MergeSaveFails(c)
  <2>1. /\ run'[c].entries = run[c].entries
        /\ \A b \in Runs \ {c} : run'[b] = run[b]
    BY <1>5, KeptRun
  <2>2. CASE Keep(c)
    <3>1. PICK d \in run[c].todo : run' = [run EXCEPT ![c].todo = @ \ {d}]
      BY <2>2 DEF Keep, KeepBut
    <3>2. run'[c].todo \subseteq run[c].todo /\ run'[c].says = run[c].says
      BY <1>1, <3>1 DEF TypeOK, RunType
    <3> QED
      BY <2>1, <3>2 DEF RunTexts
  <2>3. CASE MergeDelete(c)
    <3>1. PICK d \in run[c].todo :
             run' = [run EXCEPT ![c].todo = @ \ {d}, ![c].at = "save", ![c].says = d.says]
      BY <2>3 DEF MergeDelete
    <3>2. run'[c].todo \subseteq run[c].todo /\ run'[c].says = d.says
      BY <1>1, <3>1 DEF TypeOK, RunType
    <3> QED
      BY <2>1, <3>2 DEF RunTexts
  <2>4. CASE MergeSave(c) \/ MergeSaveFails(c)
    <3>1. run' = [run EXCEPT ![c].at = "judge", ![c].says = {}]
      BY <2>4 DEF MergeSave, MergeSaveFails
    <3>2. run'[c].todo = run[c].todo /\ run'[c].says = {}
      BY <1>1, <3>1 DEF TypeOK, RunType
    <3> QED
      BY <2>1, <3>2 DEF RunTexts
  <2> QED
    BY <1>5, <2>2, <2>3, <2>4
<1> QED
  BY <1>2, <1>3, <1>4, <1>5 DEF Consolidate

LEMMA ErasedConsolidate ==
    ASSUME TypeOK, ErasedInv, NEW c \in Runs, Consolidate(c) PROVE ErasedInv'
<1>1. RunTexts'
  BY RunTextsStep DEF ErasedInv
<1>2. acq' = acq /\ admin' = admin /\ erased' = erased
  BY DEF Consolidate, ListEmbedded, ListVectors, Judge, Keep, KeepBut, MergeDelete,
     MergeSave, MergeSaveFails, Finish, observed
<1>3. Union(run'[c].entries) \subseteq Told \cup Held
      /\ \A b \in Runs \ {c} : run'[b] = run[b]
  <2>1. CASE ListEmbedded(c)
    <3>1. run'[c].entries = [i \in Embedded |-> mem[i].says]
          /\ \A b \in Runs \ {c} : run'[b] = run[b]
      BY <2>1 DEF ListEmbedded, TypeOK
    <3> QED
      BY <3>1, InTold DEF Union, Embedded
  <2>2. CASE ListVectors(c)
    <3>1. run'[c].entries \in {<<>>, run[c].entries} /\ \A b \in Runs \ {c} : run'[b] = run[b]
      BY <2>2, RunFields DEF ListVectors, TypeOK, RunIdle, RunOK, RunType
    <3> QED
      BY <3>1, UnionHeld DEF Union
  <2>3. CASE Finish(c)
    BY <2>3 DEF Finish, TypeOK, RunIdle, Union
  <2> QED
    BY <2>1, <2>2, <2>3, KeptRun, UnionHeld DEF Consolidate
<1>4. Held' \subseteq Told \cup Held
  BY <1>2, <1>3, HeldRun
<1>5. Told' \subseteq Told \cup Held
  <2>1. CASE Keep(c) \/ MergeDelete(c)
    BY <2>1, ToldDelete DEF Keep, KeepBut, MergeDelete
  <2>2. CASE MergeSave(c)
    BY <2>2, ToldInsert, UnionHeld DEF MergeSave, ErasedInv, RunTexts
  <2>3. CASE ListEmbedded(c) \/ ListVectors(c) \/ Judge(c) \/ MergeSaveFails(c) \/ Finish(c)
    BY <2>3, ToldSame DEF ListEmbedded, ListVectors, Judge, MergeSaveFails, Finish, table
  <2> QED
    BY <2>1, <2>2, <2>3 DEF Consolidate
<1> QED
  BY <1>1, <1>2, <1>4, <1>5 DEF ErasedInv, Gone

LEMMA ErasedWorker == ASSUME TypeOK, ErasedInv, Worker PROVE ErasedInv'
<1>1. acq' = acq /\ run' = run /\ admin' = admin /\ erased' = erased
  BY DEF Worker, Awake, Load, Embed, EmbedFails, EmbedSkips, StoreOne, Store, StoreFails,
     Again, observed
<1>2. Told' = Told
  <2>1. CASE StoreOne
    <3>1. /\ DOMAIN mem' = DOMAIN mem
          /\ \A j \in DOMAIN mem : mem'[j].says = mem[j].says
      BY <2>1 DEF StoreOne, Store, Write, TypeOK, TableOK, Partial, Row
    <3> QED
      BY <3>1, InTold, InToldAfter
  <2>2. CASE ~ StoreOne
    BY <2>2, ToldSame DEF Worker, Awake, Load, Embed, EmbedFails, EmbedSkips, StoreFails,
       Again, table
  <2> QED
    BY <2>1, <2>2
<1>3. Held' = Held /\ RunTexts'
  BY <1>1, HeldKept, RunTextsKept DEF ErasedInv
<1> QED
  BY <1>1, <1>2, <1>3 DEF ErasedInv, Gone

LEMMA AdminSaysHeld == admin.says \subseteq Held
BY DEF Held

LEMMA HeldAdmin ==
    ASSUME acq' = acq, run' = run PROVE Held' \subseteq Held \cup admin'.says
BY DEF Held, HeldByAcquirers, HeldByRuns

LEMMA ErasedAdmin == ASSUME TypeOK, ErasedInv, Admin PROVE ErasedInv'
<1>1. acq' = acq /\ run' = run /\ RunTexts'
  BY RunTextsKept DEF Admin, Create, Edit, DeleteOne, ForgetMerge, ForgetSave,
     ForgetSaveFails, ErasedInv
<1>2. CASE Create
  <2>1. PICK says \in SUBSET Facts : Insert(says, None) /\ erased' = erased \ says
    BY <1>2, Bounds DEF Create
  <2>2. Held' = Held
    BY <1>1, <1>2, HeldKept DEF Create
  <2> QED
    BY <1>1, <2>1, <2>2, ToldInsert, GoneKept DEF ErasedInv
<1>3. CASE Edit
  <2>1. PICK i \in DOMAIN mem, says \in SUBSET Facts :
           mem' = [mem EXCEPT ![i].says = says] /\ erased' = erased \ says
    BY <1>3, Bounds DEF Edit
  <2>2. Held' = Held
    BY <1>1, <1>3, HeldKept DEF Edit
  <2>3. \A j \in DOMAIN mem' : j \in DOMAIN mem /\ (mem'[j].says = mem[j].says
                                                    \/ mem'[j].says = says)
    BY <2>1 DEF TypeOK, TableOK, Partial, Row
  <2>4. Told' \subseteq Told \cup says
    BY <2>3, InTold, InToldAfter
  <2> QED
    BY <1>1, <2>1, <2>2, <2>4, GoneKept DEF ErasedInv
<1>4. CASE DeleteOne
  <2>1. PICK i \in DOMAIN mem :
         /\ Delete({i})
         /\ erased' = erased \cup {f \in mem[i].says :
                        /\ f \notin Held
                        /\ \A j \in DOMAIN mem \ {i} : f \notin mem[j].says}
    BY <1>4 DEF DeleteOne
  <2>2. Held' = Held
    BY <1>1, <1>4, HeldKept DEF DeleteOne
  <2>3. Told' \subseteq Told /\ \A f \in Told' : \E j \in DOMAIN mem \ {i} : f \in mem[j].says
    BY <2>1, InTold, InToldAfter DEF Delete
  <2>4. Gone'
    BY <2>1, <2>2, <2>3 DEF Gone, ErasedInv
  <2> QED
    BY <1>1, <2>4 DEF ErasedInv
<1>5. CASE ForgetMerge
  <2>1. PICK deleted \in SUBSET DOMAIN mem, says \in SUBSET Facts :
         /\ Delete(deleted)
         /\ erased' = erased \ says
         /\ admin' = [at |-> "save", says |-> says]
    BY <1>5, Bounds DEF ForgetMerge
  <2>2. Held' \subseteq Held \cup says /\ Told' \subseteq Told
    BY <1>1, <2>1, HeldAdmin, ToldDelete
  <2> QED
    BY <1>1, <2>1, <2>2 DEF ErasedInv, Gone
<1>6. CASE ForgetSave \/ ForgetSaveFails
  <2>1. admin'.says = {} /\ erased' = erased
    BY <1>6 DEF ForgetSave, ForgetSaveFails
  <2>2. Held' \subseteq Held
    BY <1>1, <2>1, HeldAdmin
  <2>3. Told' \subseteq Told \cup Held
    BY <1>6, ToldInsert, ToldSame, AdminSaysHeld DEF ForgetSave, ForgetSaveFails, table
  <2> QED
    BY <1>1, <2>1, <2>2, <2>3 DEF ErasedInv, Gone
<1> QED
  BY <1>2, <1>3, <1>4, <1>5, <1>6 DEF Admin

LEMMA ErasedCrash == ASSUME TypeOK, ErasedInv, Crash PROVE ErasedInv'
<1>1. RunTexts'
  BY DEF Crash, RunTexts, RunIdle
<1>2. \A f : ~ InHand(f)'
  BY DEF Crash, InHand, AcqIdle, RunIdle
<1>3. Held' = {}
  BY <1>2, InHeldAfter
<1>4. Told' = Told /\ erased' = erased
  BY ToldSame DEF Crash, table
<1> QED
  BY <1>1, <1>3, <1>4 DEF ErasedInv, Gone

\* What the admin deleted, and no conversation or merge still held, stays
\* deleted until it is learned or entered again: the worker never revives it.
THEOREM DeletedStays == Spec => []StaysDeleted
<1>1. Init => ErasedInv
  BY DEF Init, ErasedInv, RunTexts, RunIdle, Gone
<1>2. TypeOK /\ ErasedInv /\ [Next]_vars => ErasedInv'
  <2> SUFFICES ASSUME TypeOK, ErasedInv, [Next]_vars PROVE ErasedInv'
    OBVIOUS
  <2>1. CASE Next
    BY <2>1, ErasedAcquire, ErasedConsolidate, ErasedWorker, ErasedAdmin, ErasedCrash
       DEF Next, Acquire
  <2>2. CASE UNCHANGED vars
    BY <2>2, HeldKept, ToldSame, RunTextsKept DEF vars, observed, ErasedInv, Gone
  <2> QED
    BY <2>1, <2>2
<1>3. ErasedInv => StaysDeleted
  BY DEF ErasedInv, Gone, StaysDeleted
<1> QED
  BY <1>1, <1>2, <1>3, TypeCorrect, PTL DEF Spec
-----------------------------------------------------------------------------
(* Nothing forgotten, with one consolidation at a time.  A run deletes what *)
(* it decided to delete only while what it read of the memory it keeps is   *)
(* still somewhere: in that memory, in one that the run has not read, or    *)
(* gone for one of the reasons NothingForgotten allows.                     *)

Passed == Pending \cup gone \cup atRisk

Elsewhere(c, f) == \E j \in DOMAIN mem \ DOMAIN run[c].entries : f \in mem[j].says

KeptAt(c, k, f) == \/ k \in DOMAIN mem /\ f \in mem[k].says
                   \/ f \in Passed
                   \/ Elsewhere(c, f)

Intact(c, k) == \A f \in run[c].entries[k] : KeptAt(c, k, f)

Covered(c, d) == \E k \in DOMAIN run[c].entries :
    /\ TextOf(c, d.deletes) \subseteq run[c].entries[k] \cup d.cuts
    /\ Intact(c, k)
    /\ \A g \in run[c].groups : k \notin g
    /\ \A e \in run[c].todo : k \notin e.deletes

DecisionSafe(c, d) ==
    /\ d.deletes \subseteq DOMAIN run[c].entries
    /\ d.says = {} => Covered(c, d)
    /\ d.says # {} => TextOf(c, d.deletes) \subseteq d.says \cup d.cuts

GroupsSafe(c) ==
    /\ \A g \in run[c].groups : /\ g \subseteq DOMAIN run[c].entries
                                /\ \A k \in g : Intact(c, k)
    /\ \A g, h \in run[c].groups : g = h \/ g \cap h = {}
    /\ \A g \in run[c].groups, d \in run[c].todo : g \cap d.deletes = {}

ReadSafe(c) ==
    /\ run[c].at = "idle" => DOMAIN run[c].entries = {}
    /\ run[c].at \in {"idle", "read"} => run[c].groups = {} /\ run[c].todo = {}
    /\ run[c].at = "read" => \A k \in DOMAIN run[c].entries : Intact(c, k)
    /\ \A i \in DOMAIN mem \cap DOMAIN run[c].entries :
          mem[i].says \subseteq run[c].entries[i] \cup atRisk

RunSafe(c) == ReadSafe(c) /\ GroupsSafe(c) /\ \A d \in run[c].todo : DecisionSafe(c, d)

SafeInv == /\ NothingForgotten
           /\ admin.at = "idle" => admin.says = {}
           /\ \A c \in Runs : RunSafe(c)

\* What a step conserves: texts, unless they passed; what passed, unless a new
\* memory tells it; and the texts that a run has read.
TextsStay == \A j \in DOMAIN mem : \A f \in mem[j].says :
                (j \in DOMAIN mem' /\ f \in mem'[j].says) \/ f \in Passed'
PassedStays == \A f \in Passed : f \in Passed' \/ \E j \in DOMAIN mem' :
                                                      j = last + 1 /\ f \in mem'[j].says
ReadStays == /\ atRisk \subseteq atRisk'
             /\ \A c \in Runs : \A i \in DOMAIN mem' \cap DOMAIN run[c].entries :
                   i \in DOMAIN mem /\ mem'[i].says \subseteq mem[i].says \cup atRisk'
Conserves == TextsStay /\ PassedStays /\ ReadStays

\* The run goes on with what it has.
SameRun(c) == /\ run'[c].entries = run[c].entries
              /\ run'[c].groups = run[c].groups /\ run'[c].todo = run[c].todo
              /\ run'[c].at = run[c].at \/ run'[c].at \in {"judge", "save"}

LEMMA InPending == \A f : f \in Pending
                      <=> f \in admin.says \/ \E c \in Runs : f \in run[c].says
BY DEF Pending

LEMMA InPendingAfter == \A f : f \in Pending'
                           <=> f \in admin'.says \/ \E c \in Runs : f \in run'[c].says
BY DEF Pending

LEMMA NewIsElsewhere ==
    ASSUME TypeOK, NEW c \in Runs, SameRun(c), NEW f, NEW j \in DOMAIN mem', j = last + 1,
           f \in mem'[j].says
    PROVE  Elsewhere(c, f)'
<1>1. last \in Nat /\ DOMAIN run[c].entries \subseteq 1 .. last
  BY RunFields, Numbers
<1>2. j \notin DOMAIN run'[c].entries
  BY <1>1 DEF SameRun
<1> QED
  BY <1>2 DEF Elsewhere

LEMMA KeptStays ==
    ASSUME TypeOK, NEW c \in Runs, SameRun(c), TextsStay, PassedStays, NEW k, NEW f,
           KeptAt(c, k, f)
    PROVE  KeptAt(c, k, f)'
<1>1. CASE k \in DOMAIN mem /\ f \in mem[k].says
  BY <1>1 DEF TextsStay, KeptAt
<1>2. CASE f \in Passed
  BY <1>2, NewIsElsewhere DEF PassedStays, KeptAt
<1>3. CASE Elsewhere(c, f)
  BY <1>3 DEF Elsewhere, TextsStay, SameRun, KeptAt
<1> QED
  BY <1>1, <1>2, <1>3 DEF KeptAt

LEMMA RunStays ==
    ASSUME TypeOK, NEW c \in Runs, SameRun(c), Conserves, RunSafe(c) PROVE RunSafe(c)'
<1>1. \A k \in DOMAIN run[c].entries : Intact(c, k) => Intact(c, k)'
  BY KeptStays DEF Intact, SameRun, Conserves
<1>2. \A S : TextOf(c, S)' = TextOf(c, S)
  BY DEF TextOf, SameRun
<1>3. \A d \in run[c].todo : DecisionSafe(c, d) => DecisionSafe(c, d)'
  <2> SUFFICES ASSUME NEW d \in run[c].todo, DecisionSafe(c, d) PROVE DecisionSafe(c, d)'
    OBVIOUS
  <2>1. Covered(c, d) => Covered(c, d)'
    BY <1>1, <1>2 DEF Covered, SameRun
  <2> QED
    BY <1>2, <2>1 DEF DecisionSafe, SameRun
<1>4. GroupsSafe(c)'
  BY <1>1 DEF RunSafe, GroupsSafe, SameRun
<1>5. ReadSafe(c)'
  BY <1>1 DEF RunSafe, ReadSafe, SameRun, Conserves, ReadStays
<1> QED
  BY <1>3, <1>4, <1>5 DEF RunSafe, SameRun

LEMMA KnownStay ==
    ASSUME NothingForgotten, TextsStay, PassedStays, known' \subseteq known \cup Told'
    PROVE  NothingForgotten'
<1> SUFFICES ASSUME NEW f \in known PROVE f \in Told' \cup Passed'
  BY DEF NothingForgotten, Passed
<1>1. CASE f \in Told
  BY <1>1, InTold, InToldAfter DEF TextsStay
<1>2. CASE f \in Passed
  BY <1>2, InToldAfter DEF PassedStays
<1> QED
  BY <1>1, <1>2 DEF NothingForgotten, Passed

\* A step of others than the run, in one fact.
LEMMA Conserved ==
    ASSUME TypeOK, SafeInv, Conserves, \A c \in Runs : SameRun(c),
           known' \subseteq known \cup Told', admin'.at = "idle" => admin'.says = {}
    PROVE  SafeInv'
BY KnownStay, RunStays DEF SafeInv, Conserves

LEMMA InsertStays ==
    ASSUME TypeOK, NEW says, NEW vec, Insert(says, vec)
    PROVE  /\ \A j \in DOMAIN mem : j \in DOMAIN mem' /\ mem'[j] = mem[j]
           /\ \A i \in DOMAIN mem' : i # last + 1 => i \in DOMAIN mem
           /\ last + 1 \in DOMAIN mem' /\ mem'[last + 1].says = says
           /\ known' \subseteq known \cup Told'
           /\ \A c \in Runs : \A i \in DOMAIN mem' \cap DOMAIN run[c].entries :
                 i \in DOMAIN mem /\ mem'[i] = mem[i]
<1>1. last \in Nat /\ \A i \in DOMAIN mem : i \in 1 .. last
  BY Numbers, TextsTyped
<1>2. last + 1 \notin DOMAIN mem
  BY <1>1
<1>3. /\ \A j \in DOMAIN mem : j \in DOMAIN mem' /\ mem'[j] = mem[j]
      /\ \A i \in DOMAIN mem' : i # last + 1 => i \in DOMAIN mem
      /\ last + 1 \in DOMAIN mem' /\ mem'[last + 1].says = says
      /\ known' = known \cup says
  BY <1>2 DEF Insert
<1>4. known' \subseteq known \cup Told'
  BY <1>3, InToldAfter
<1>5. \A c \in Runs : last + 1 \notin DOMAIN run[c].entries
  BY <1>1, RunFields
<1> QED
  BY <1>3, <1>4, <1>5

LEMMA SafeAcquire == ASSUME TypeOK, SafeInv, NEW a \in Acquirers, Acquire(a) PROVE SafeInv'
<1>1. /\ run' = run /\ admin' = admin /\ gone' = gone
      /\ atRisk' = atRisk /\ Passed' = Passed
  BY DEF Acquire, Extract, Check, Skip, SaveFact, observed, Passed, Pending
<1>2. CASE mem' = mem /\ known' = known
  BY <1>1, <1>2, Conserved DEF Conserves, TextsStay, PassedStays, ReadStays, SameRun, SafeInv
<1>3. CASE SaveFact(a)
  BY <1>1, <1>3, InsertStays, Conserved
     DEF SaveFact, Conserves, TextsStay, PassedStays, ReadStays, SameRun, SafeInv
<1> QED
  BY <1>2, <1>3 DEF Acquire, Extract, Check, Skip, table, observed

LEMMA SafeWorker == ASSUME TypeOK, SafeInv, Worker PROVE SafeInv'
<1>1. /\ run' = run /\ admin' = admin /\ gone' = gone
      /\ atRisk' = atRisk /\ Passed' = Passed /\ known' = known
  BY DEF Worker, Awake, Load, Embed, EmbedFails, EmbedSkips, StoreOne, Store, StoreFails,
     Again, observed, Passed, Pending
<1>2. /\ DOMAIN mem' = DOMAIN mem
      /\ \A j \in DOMAIN mem : mem'[j].says = mem[j].says
  <2>1. CASE StoreOne
    BY <2>1 DEF StoreOne, Store, Write, TypeOK, TableOK, Partial, Row
  <2>2. CASE ~ StoreOne
    BY <2>2 DEF Worker, Awake, Load, Embed, EmbedFails, EmbedSkips, StoreFails, Again, table
  <2> QED
    BY <2>1, <2>2
<1> QED
  BY <1>1, <1>2, Conserved DEF Conserves, TextsStay, PassedStays, ReadStays, SameRun, SafeInv

LEMMA SafeAdmin == ASSUME TypeOK, SafeInv, Admin PROVE SafeInv'
<1>1. run' = run /\ \A c \in Runs : SameRun(c)
  BY DEF Admin, Create, Edit, DeleteOne, ForgetMerge, ForgetSave, ForgetSaveFails, SameRun
<1>2. CASE Create
  <2>1. PICK says \in SUBSET Facts : Insert(says, None)
    BY <1>2, Bounds DEF Create
  <2>2. admin' = admin /\ atRisk' = atRisk /\ Passed' = Passed
    BY <1>1, <1>2 DEF Create, Passed, Pending
  <2> QED
    BY <1>1, <2>1, <2>2, InsertStays, Conserved
       DEF Conserves, TextsStay, PassedStays, ReadStays, SafeInv
<1>3. CASE Edit
  <2>1. PICK i \in DOMAIN mem, says \in SUBSET Facts :
         /\ mem' = [mem EXCEPT ![i].says = says]
         /\ known' = known \cup says
         /\ gone' = gone \cup (mem[i].says \ says)
         /\ atRisk' = IF \E c \in Runs : run[c].at # "idle"
                      THEN atRisk \cup says ELSE atRisk
    BY <1>3, Bounds DEF Edit
  <2>2. admin' = admin /\ Pending' = Pending
    BY <1>1, <1>3 DEF Edit, Pending
  <2>3. Passed \subseteq Passed' /\ mem[i].says \ says \subseteq Passed'
    BY <2>1, <2>2 DEF Passed
  <2>4. /\ DOMAIN mem' = DOMAIN mem /\ mem'[i].says = says
        /\ \A j \in DOMAIN mem \ {i} : mem'[j] = mem[j]
    BY <2>1 DEF TypeOK, TableOK, Partial, Row
  <2>5. TextsStay /\ PassedStays
    BY <2>3, <2>4 DEF TextsStay, PassedStays
  <2>6. ASSUME NEW c \in Runs, NEW j \in DOMAIN mem' \cap DOMAIN run[c].entries
        PROVE  j \in DOMAIN mem /\ mem'[j].says \subseteq mem[j].says \cup atRisk'
    <3>1. run[c].at # "idle"
      BY <2>6 DEF SafeInv, RunSafe, ReadSafe
    <3> QED
      BY <2>1, <2>4, <2>6, <3>1
  <2>7. ReadStays
    BY <2>1, <2>6 DEF ReadStays
  <2>8. known' \subseteq known \cup Told'
    BY <2>1, <2>4, InToldAfter
  <2> QED
    BY <1>1, <2>2, <2>5, <2>7, <2>8, Conserved DEF Conserves, SafeInv
<1>4. CASE DeleteOne
  <2>1. PICK i \in DOMAIN mem : Delete({i}) /\ gone' = gone \cup mem[i].says
    BY <1>4 DEF DeleteOne
  <2>2. /\ admin' = admin /\ atRisk' = atRisk /\ known' = known
        /\ Pending' = Pending
    BY <1>1, <1>4 DEF DeleteOne, Pending
  <2>3. Passed \subseteq Passed' /\ mem[i].says \subseteq Passed'
    BY <2>1, <2>2 DEF Passed
  <2>4. DOMAIN mem' = DOMAIN mem \ {i} /\ \A j \in DOMAIN mem' : mem'[j] = mem[j]
    BY <2>1 DEF Delete
  <2> QED
    BY <1>1, <2>2, <2>3, <2>4, Conserved
       DEF Conserves, TextsStay, PassedStays, ReadStays, SafeInv
<1>5. CASE ForgetMerge
  <2>1. PICK deleted \in SUBSET DOMAIN mem, says \in SUBSET Facts :
         /\ Delete(deleted)
         /\ gone' = gone \cup (Union([i \in deleted |-> mem[i].says]) \ says)
         /\ admin' = [at |-> "save", says |-> says]
    BY <1>5, Bounds DEF ForgetMerge
  <2>2. /\ admin.says = {} /\ known' = known /\ atRisk' = atRisk
    BY <1>5 DEF ForgetMerge, SafeInv
  <2>3. Passed \subseteq Passed'
    BY <1>1, <2>1, <2>2, InPending, InPendingAfter DEF Passed
  <2>4. \A j \in deleted : mem[j].says \subseteq Passed'
    <3>1. \A j \in deleted : mem[j].says \subseteq gone' \cup says
      BY <2>1 DEF Union
    <3>2. says \subseteq Pending'
      BY <2>1, InPendingAfter
    <3> QED
      BY <3>1, <3>2 DEF Passed
  <2>5. DOMAIN mem' = DOMAIN mem \ deleted /\ \A j \in DOMAIN mem' : mem'[j] = mem[j]
    BY <2>1 DEF Delete
  <2>6. admin'.at = "save"
    BY <2>1
  <2> QED
    BY <1>1, <2>2, <2>3, <2>4, <2>5, <2>6, Conserved
       DEF Conserves, TextsStay, PassedStays, ReadStays, SafeInv
<1>6. CASE ForgetSave
  <2>1. /\ Insert(admin.says, None) /\ admin'.says = {} /\ gone' = gone
        /\ atRisk' = atRisk
    BY <1>6 DEF ForgetSave
  <2>2. \A f \in Passed : f \in Passed' \/ f \in admin.says
    BY <1>1, <2>1, InPending, InPendingAfter DEF Passed
  <2> QED
    BY <1>1, <2>1, <2>2, InsertStays, Conserved
       DEF Conserves, TextsStay, PassedStays, ReadStays, SafeInv
<1>7. CASE ForgetSaveFails
  <2>1. /\ mem' = mem /\ admin'.says = {} /\ known' = known
        /\ gone' = gone \cup admin.says /\ atRisk' = atRisk
    BY <1>7 DEF ForgetSaveFails, table
  <2>2. Passed \subseteq Passed'
    BY <1>1, <2>1, InPending, InPendingAfter DEF Passed
  <2> QED
    BY <1>1, <2>1, <2>2, Conserved
       DEF Conserves, TextsStay, PassedStays, ReadStays, SafeInv
<1> QED
  BY <1>2, <1>3, <1>4, <1>5, <1>6, <1>7 DEF Admin

LEMMA SafeCrash == ASSUME TypeOK, SafeInv, Crash PROVE SafeInv'
<1>1. /\ mem' = mem /\ known' = known /\ atRisk' = atRisk
      /\ gone' = gone \cup admin.says \cup UNION {run[c].says : c \in Runs}
      /\ admin'.says = {} /\ \A c \in Runs : run'[c] = RunIdle
  BY DEF Crash, table
<1>2. Passed \subseteq Passed'
  BY <1>1, InPending DEF Passed
<1>3. NothingForgotten'
  BY <1>1, <1>2, KnownStay DEF TextsStay, PassedStays, SafeInv
<1>4. \A c \in Runs : RunSafe(c)'
  BY <1>1 DEF RunSafe, ReadSafe, GroupsSafe, RunIdle
<1> QED
  BY <1>1, <1>3, <1>4 DEF SafeInv

\* Groups of one reading have no memory in common.
LEMMA ComponentsApart ==
    ASSUME NEW E, NEW i \in E, NEW j \in E, NEW l \in Component(i, E) \cap Component(j, E)
    PROVE  Component(i, E) = Component(j, E)
<1>1. ASSUME NEW x \in E, NEW y \in Component(x, E) PROVE x \in Component(y, E)
  <2> SUFFICES ASSUME NEW S \in SUBSET E, y \in S, Closed(S, E), x \notin S PROVE FALSE
    BY <1>1 DEF Component
  <2>1. Closed(E \ S, E)
    BY DEF Closed, Similar
  <2>2. y \in E \ S
    BY <1>1, <2>1 DEF Component
  <2> QED
    BY <2>2
<1>2. ASSUME NEW x \in E, NEW y \in Component(x, E), NEW z \in Component(y, E)
      PROVE  z \in Component(x, E)
  BY <1>2 DEF Component
<1>3. l \in E
  BY DEF Component
<1>4. ASSUME NEW x \in E, l \in Component(x, E) PROVE Component(x, E) = Component(l, E)
  BY <1>1, <1>2, <1>3, <1>4
<1> QED
  BY <1>4

LEMMA GroupsApart ==
    ASSUME NEW E, NEW g \in Groups(E), NEW h \in Groups(E) PROVE g = h \/ g \cap h = {}
<1>1. PICK i \in E, j \in E : g = Oldest(Component(i, E)) /\ h = Oldest(Component(j, E))
  BY DEF Groups
<1>2. g \subseteq Component(i, E) /\ h \subseteq Component(j, E)
  BY <1>1 DEF Oldest
<1>3. CASE g \cap h # {}
  <2>1. PICK l : l \in Component(i, E) \cap Component(j, E)
    BY <1>2, <1>3
  <2>2. Component(i, E) = Component(j, E)
    BY <2>1, ComponentsApart
  <2> QED
    BY <1>1, <2>2
<1> QED
  BY <1>3

\* A decision of run c is carried out: nothing but what it deletes goes.
LEMMA DeletesSafely ==
    ASSUME TypeOK, NEW c \in Runs, RunSafe(c), NEW d \in run[c].todo, NEW ids,
           ids \in {d.deletes, {}}, Delete(ids),
           run'[c].entries = run[c].entries, run'[c].groups = run[c].groups,
           run'[c].todo = run[c].todo \ {d}, run'[c].at \in {"judge", "save"},
           atRisk' = atRisk, Passed \subseteq Passed'
    PROVE  /\ RunSafe(c)'
           /\ \A k, f : k \notin d.deletes /\ KeptAt(c, k, f) => KeptAt(c, k, f)'
<1>1. DOMAIN mem' = DOMAIN mem \ ids /\ \A j \in DOMAIN mem' : mem'[j] = mem[j]
  BY DEF Delete
<1>2. d.deletes \subseteq DOMAIN run[c].entries /\ ids \subseteq d.deletes
  BY DEF RunSafe, DecisionSafe
<1>3. \A k, f : k \notin d.deletes /\ KeptAt(c, k, f) => KeptAt(c, k, f)'
  BY <1>1, <1>2 DEF KeptAt, Elsewhere
<1>4. \A k : k \notin d.deletes /\ Intact(c, k) => Intact(c, k)'
  BY <1>3 DEF Intact
<1>5. \A S : TextOf(c, S)' = TextOf(c, S)
  BY DEF TextOf
<1>6. ASSUME NEW e \in run'[c].todo PROVE DecisionSafe(c, e)'
  <2>1. e \in run[c].todo /\ DecisionSafe(c, e)
    BY <1>6 DEF RunSafe
  <2>2. ASSUME Covered(c, e) PROVE Covered(c, e)'
    <3>1. PICK k \in DOMAIN run[c].entries :
             /\ TextOf(c, e.deletes) \subseteq run[c].entries[k] \cup e.cuts
             /\ Intact(c, k)
             /\ \A g \in run[c].groups : k \notin g
             /\ \A x \in run[c].todo : k \notin x.deletes
      BY <2>2 DEF Covered
    <3>2. Intact(c, k)'
      BY <1>4, <3>1
    <3> QED
      BY <1>5, <3>1, <3>2 DEF Covered
  <2> QED
    BY <1>5, <2>1, <2>2 DEF DecisionSafe
<1>7. GroupsSafe(c)'
  <2>1. ASSUME NEW g \in run[c].groups, NEW k \in g PROVE Intact(c, k)'
    <3>1. Intact(c, k) /\ k \notin d.deletes
      BY <2>1 DEF RunSafe, GroupsSafe
    <3> QED
      BY <1>4, <3>1
  <2> QED
    BY <2>1 DEF RunSafe, GroupsSafe
<1>8. ReadSafe(c)'
  BY <1>1 DEF RunSafe, ReadSafe
<1> QED
  BY <1>3, <1>6, <1>7, <1>8 DEF RunSafe

\* A step of the run that only changes where it is, or forgets what it read.
LEMMA QuietRun ==
    ASSUME TypeOK, SafeInv, NEW c \in Runs, \A b \in Runs : b = c,
           mem' = mem, known' = known, gone' = gone, atRisk' = atRisk,
           admin' = admin, run'[c].says = run[c].says, RunSafe(c)'
    PROVE  SafeInv'
<1>1. Passed' = Passed
  <2>1. \A f : f \in Pending' <=> f \in Pending
    BY InPending, InPendingAfter
  <2> QED
    BY <2>1 DEF Passed
<1>2. NothingForgotten'
  BY <1>1, KnownStay DEF SafeInv, TextsStay, PassedStays
<1> QED
  BY <1>2 DEF SafeInv

LEMMA QuietKept ==
    ASSUME NEW c \in Runs, \A b \in Runs : b = c, mem' = mem, gone' = gone,
           atRisk' = atRisk, admin' = admin, run'[c].says = run[c].says,
           run'[c].entries = run[c].entries
    PROVE  \A k : Intact(c, k)' <=> Intact(c, k)
<1>1. Passed' = Passed
  <2>1. \A f : f \in Pending' <=> f \in Pending
    BY InPending, InPendingAfter
  <2> QED
    BY <2>1 DEF Passed
<1> QED
  BY <1>1 DEF Intact, KeptAt, Elsewhere

LEMMA SafeList ==
    ASSUME TypeOK, SafeInv, NEW c \in Runs, \A b \in Runs : b = c,
           ListEmbedded(c) \/ ListVectors(c) \/ Finish(c)
    PROVE  SafeInv'
<1>1. /\ mem' = mem /\ known' = known /\ gone' = gone
      /\ atRisk' = atRisk /\ admin' = admin
  BY DEF ListEmbedded, ListVectors, Finish, table, observed
<1>2. RunOK(run[c], last) /\ run[c] \in RunType(run[c].entries) /\ RunSafe(c)
  BY RunFields DEF RunOK, SafeInv
<1>i. ASSUME run' = [run EXCEPT ![c] = RunIdle], run[c].at # "save" PROVE SafeInv'
  <2>1. run'[c] = RunIdle /\ run[c].says = {}
    BY <1>2, <1>i DEF TypeOK, RunOK
  <2>2. RunSafe(c)'
    BY <2>1 DEF RunSafe, ReadSafe, GroupsSafe, RunIdle
  <2>3. run'[c].says = run[c].says
    BY <2>1 DEF RunIdle
  <2> QED
    BY <1>1, <2>2, <2>3, QuietRun
<1>3. CASE ListEmbedded(c)
  <2>1. /\ run'[c].at = "read" /\ run'[c].entries = [i \in Embedded |-> mem[i].says]
        /\ run'[c].groups = {} /\ run'[c].todo = {} /\ run'[c].says = {} /\ run[c].says = {}
    BY <1>2, <1>3 DEF ListEmbedded, TypeOK, RunOK
  <2>2. \A k \in DOMAIN run'[c].entries : k \in DOMAIN mem /\ run'[c].entries[k] = mem[k].says
    BY <2>1 DEF Embedded
  <2>3. \A k \in DOMAIN run'[c].entries : Intact(c, k)'
    BY <1>1, <2>2 DEF Intact, KeptAt
  <2>4. RunSafe(c)'
    BY <1>1, <2>1, <2>2, <2>3 DEF RunSafe, ReadSafe, GroupsSafe
  <2> QED
    BY <1>1, <2>1, <2>4, QuietRun
<1>4. CASE ListVectors(c)
  <2> DEFINE groups == Groups(DOMAIN run[c].entries \cap Embedded)
  <2>1. run[c].at = "read" /\ run' = [run EXCEPT ![c] = IF groups = {} THEN RunIdle
                                 ELSE [run[c] EXCEPT !.at = "judge", !.groups = groups]]
    BY <1>4 DEF ListVectors
  <2>2. /\ \A g \in groups : g \subseteq DOMAIN run[c].entries
        /\ \A g, h \in groups : g = h \/ g \cap h = {}
    BY GroupsOf, GroupsApart
  <2> HIDE DEF groups
  <2>3. CASE groups = {}
    BY <1>i, <2>1, <2>3
  <2>4. CASE groups # {}
    <3>1. /\ run'[c].at = "judge" /\ run'[c].entries = run[c].entries
          /\ run'[c].groups = groups /\ run'[c].todo = run[c].todo
          /\ run'[c].says = run[c].says
      BY <1>2, <2>1, <2>4 DEF TypeOK, RunType
    <3>2. run[c].todo = {} /\ \A k \in DOMAIN run[c].entries : Intact(c, k)'
      BY <1>1, <1>2, <2>1, <3>1, QuietKept DEF RunSafe, ReadSafe
    <3>3. RunSafe(c)'
      BY <1>1, <1>2, <2>2, <3>1, <3>2 DEF RunSafe, ReadSafe, GroupsSafe
    <3> QED
      BY <1>1, <3>1, <3>3, QuietRun
  <2> QED
    BY <2>3, <2>4
<1>5. CASE Finish(c)
  BY <1>i, <1>5 DEF Finish
<1> QED
  BY <1>3, <1>4, <1>5

\* A good judgment of a group is one that can be carried out safely.
LEMMA SafeJudge ==
    ASSUME TypeOK, SafeInv, NEW c \in Runs, \A b \in Runs : b = c, Judge(c) PROVE SafeInv'
<1>1. /\ mem' = mem /\ known' = known /\ gone' = gone
      /\ atRisk' = atRisk /\ admin' = admin
  BY DEF Judge, table, observed
<1>2. run[c] \in RunType(run[c].entries) /\ RunSafe(c) /\ GroupsSafe(c)
  BY RunFields DEF RunOK, SafeInv, RunSafe
<1>3. PICK B \in SUBSET run[c].groups, G \in SUBSET run[c].groups :
         /\ G \subseteq B
         /\ \E d \in [G -> UNION {Choices(c, g) : g \in G}] :
              /\ \A g \in G : d[g].deletes \subseteq g
              /\ run' = [run EXCEPT ![c].groups = @ \ B, ![c].todo = {d[g] : g \in G}]
  BY DEF Judge
<1>4. PICK d \in [G -> UNION {Choices(c, g) : g \in G}] :
         /\ \A g \in G : d[g].deletes \subseteq g
         /\ run' = [run EXCEPT ![c].groups = @ \ B, ![c].todo = {d[g] : g \in G}]
  BY <1>3
<1> DEFINE todo == {d[g] : g \in G}
           groups == run[c].groups \ B
<1>5. run' = [run EXCEPT ![c].groups = groups, ![c].todo = todo] /\ run[c].at = "judge"
  BY <1>4 DEF Judge
<1>6. \A e \in todo : \E g \in G : e = d[g]
  OBVIOUS
<1> HIDE DEF todo
<1>7. /\ run'[c].entries = run[c].entries /\ run'[c].groups = groups
      /\ run'[c].todo = todo /\ run'[c].says = run[c].says /\ run'[c].at = "judge"
  BY <1>2, <1>5 DEF TypeOK, RunType
<1>8. \A k : Intact(c, k)' <=> Intact(c, k)
  BY <1>1, <1>7, QuietKept
<1>9. \A S : TextOf(c, S)' = TextOf(c, S)
  BY <1>7 DEF TextOf
<1>10. ASSUME NEW g \in G
       PROVE  /\ d[g].deletes \subseteq g
              /\ d[g].says = {} => \E k \in g :
                    /\ d[g].deletes = g \ {k}
                    /\ TextOf(c, g) \subseteq run[c].entries[k] \cup d[g].cuts
              /\ d[g].says # {} => TextOf(c, g) \subseteq d[g].says \cup d[g].cuts
  <2>1. d[g] \in UNION {Choices(c, h) : h \in G} /\ d[g].deletes \subseteq g
    BY <1>4
  <2>2. PICK h \in G : d[g] \in Choices(c, h)
    BY <2>1
  <2>3. d[g].deletes # {} /\ d[g].deletes \subseteq h
    BY <2>2, ChoiceFacts
  <2>4. h = g
    BY <1>2, <2>1, <2>3 DEF GroupsSafe
  <2> QED
    BY <2>1, <2>2, <2>4, ChoiceFacts
<1>11. ASSUME NEW e \in todo PROVE DecisionSafe(c, e)'
  <2>1. PICK g \in G : e = d[g]
    BY <1>6, <1>11
  <2>2. g \in run[c].groups /\ g \in B /\ g \subseteq DOMAIN run[c].entries /\ e.deletes \subseteq g
    BY <1>2, <1>3, <1>10, <2>1 DEF GroupsSafe
  <2>3. TextOf(c, e.deletes) \subseteq TextOf(c, g)
    BY <2>2 DEF TextOf
  <2>4. ASSUME e.says = {} PROVE Covered(c, e)'
    <3>1. PICK k \in g : e.deletes = g \ {k} /\ TextOf(c, g) \subseteq run[c].entries[k] \cup e.cuts
      BY <1>10, <2>1, <2>4
    <3>2. \A h \in groups : k \notin h
      BY <1>2, <2>2, <3>1 DEF GroupsSafe
    <3>3. ASSUME NEW x \in todo PROVE k \notin x.deletes
      <4>1. PICK h \in G : x = d[h]
        BY <1>6, <3>3
      <4>2. CASE h = g
        BY <2>1, <3>1, <4>1, <4>2
      <4>3. CASE h # g
        BY <1>2, <1>10, <2>2, <3>1, <4>1, <4>3 DEF GroupsSafe
      <4> QED
        BY <4>2, <4>3
    <3>4. Intact(c, k)' /\ k \in DOMAIN run'[c].entries
      BY <1>2, <1>7, <1>8, <2>2, <3>1 DEF GroupsSafe
    <3> QED
      BY <1>7, <1>9, <2>3, <3>1, <3>2, <3>3, <3>4 DEF Covered
  <2>5. e.says # {} => TextOf(c, e.deletes)' \subseteq e.says \cup e.cuts
    BY <1>9, <1>10, <2>1, <2>3
  <2> QED
    BY <1>7, <2>2, <2>4, <2>5 DEF DecisionSafe
<1>12. GroupsSafe(c)'
  <2>1. ASSUME NEW g \in groups, NEW e \in todo PROVE g \cap e.deletes = {}
    <3>1. PICK h \in G : e = d[h]
      BY <1>6, <2>1
    <3>2. e.deletes \subseteq h /\ h # g /\ h \in run[c].groups /\ g \in run[c].groups
      BY <1>3, <1>10, <2>1, <3>1
    <3> QED
      BY <1>2, <3>2 DEF GroupsSafe
  <2> QED
    BY <1>2, <1>7, <1>8, <2>1 DEF GroupsSafe
<1>13. ReadSafe(c)'
  BY <1>1, <1>2, <1>5, <1>7 DEF RunSafe, ReadSafe
<1>14. RunSafe(c)'
  BY <1>7, <1>11, <1>12, <1>13 DEF RunSafe
<1> QED
  BY <1>1, <1>7, <1>14, QuietRun

\* What a decision deletes is in the memory it keeps, or in the text it saves.
LEMMA SafeDelete ==
    ASSUME TypeOK, SafeInv, NEW c \in Runs, \A b \in Runs : b = c, Keep(c) \/ MergeDelete(c)
    PROVE  SafeInv'
<1>1. /\ known' = known /\ atRisk' = atRisk
      /\ admin' = admin /\ run[c].at = "judge"
  BY DEF Keep, KeepBut, MergeDelete
<1>2. /\ run[c] \in RunType(run[c].entries) /\ RunSafe(c) /\ run[c].says = {}
  BY <1>1, RunFields DEF RunOK, SafeInv
<1>3. PICK d \in run[c].todo :
         \E ids \in {d.deletes, {}} :
           /\ Delete(ids)
           /\ gone' = IF ids = {} THEN gone ELSE gone \cup d.cuts
           /\ \/ d.says = {} /\ run' = [run EXCEPT ![c].todo = @ \ {d}]
              \/ /\ d.says # {}
                 /\ run' = [run EXCEPT ![c].todo = @ \ {d}, ![c].at = "save",
                                       ![c].says = d.says]
  BY DEF Keep, KeepBut, MergeDelete, None
<1>4. PICK ids \in {d.deletes, {}} :
           /\ Delete(ids)
           /\ gone' = IF ids = {} THEN gone ELSE gone \cup d.cuts
           /\ \/ d.says = {} /\ run' = [run EXCEPT ![c].todo = @ \ {d}]
              \/ /\ d.says # {}
                 /\ run' = [run EXCEPT ![c].todo = @ \ {d}, ![c].at = "save",
                                       ![c].says = d.says]
  BY <1>3
<1>5. /\ run'[c].entries = run[c].entries /\ run'[c].groups = run[c].groups
      /\ run'[c].todo = run[c].todo \ {d} /\ run'[c].at \in {"judge", "save"}
      /\ run'[c].says = d.says
  <2>1. CASE d.says = {} /\ run' = [run EXCEPT ![c].todo = @ \ {d}]
    BY <1>1, <1>2, <2>1 DEF TypeOK, RunType
  <2>2. CASE run' = [run EXCEPT ![c].todo = @ \ {d}, ![c].at = "save", ![c].says = d.says]
    BY <1>1, <1>2, <2>2 DEF TypeOK, RunType
  <2> QED
    BY <1>4, <2>1, <2>2
<1>6. /\ Passed \subseteq Passed' /\ d.says \subseteq Passed'
      /\ ids # {} => d.cuts \subseteq Passed'
  <2>1. gone \subseteq gone' /\ (ids # {} => d.cuts \subseteq gone')
    BY <1>4
  <2>2. Pending \subseteq Pending' /\ d.says \subseteq Pending'
    BY <1>1, <1>2, <1>5, InPending, InPendingAfter
  <2> QED
    BY <1>1, <2>1, <2>2 DEF Passed
<1>7. /\ RunSafe(c)'
      /\ \A k, f : k \notin d.deletes /\ KeptAt(c, k, f) => KeptAt(c, k, f)'
  BY <1>1, <1>2, <1>4, <1>5, <1>6, DeletesSafely
<1>8. DOMAIN mem' = DOMAIN mem \ ids /\ \A j \in DOMAIN mem' : mem'[j] = mem[j]
  BY <1>4 DEF Delete
<1>9. DecisionSafe(c, d)
  BY <1>2 DEF RunSafe
<1>10. ASSUME NEW k, NEW f, KeptAt(c, k, f)' PROVE f \in Told' \cup Passed'
  BY <1>10, InToldAfter DEF KeptAt, Elsewhere
<1>11. ASSUME NEW f \in known PROVE f \in Told' \cup Passed'
  <2>1. CASE f \in Passed
    BY <1>6, <2>1
  <2>2. ASSUME NEW j \in DOMAIN mem, f \in mem[j].says PROVE f \in Told' \cup Passed'
    <3>1. CASE j \notin d.deletes
      BY <1>4, <1>8, <2>2, <3>1, InToldAfter
    <3>2. CASE ids = {}
      BY <1>8, <2>2, <3>2, InToldAfter
    <3>3. CASE ids # {} /\ j \in d.deletes
      <4>1. j \in DOMAIN run[c].entries /\ f \in run[c].entries[j] \cup atRisk
        BY <1>2, <1>9, <2>2, <3>3 DEF DecisionSafe, RunSafe, ReadSafe
      <4>2. CASE f \in atRisk
        BY <1>1, <4>2 DEF Passed
      <4>3. CASE f \in run[c].entries[j]
        <5>1. f \in TextOf(c, d.deletes)
          BY <3>3, <4>3 DEF TextOf
        <5>2. CASE d.says # {}
          BY <1>6, <1>9, <3>3, <5>1, <5>2 DEF DecisionSafe
        <5>3. CASE d.says = {}
          <6>1. PICK k \in DOMAIN run[c].entries :
                   /\ TextOf(c, d.deletes) \subseteq run[c].entries[k] \cup d.cuts
                   /\ Intact(c, k)
                   /\ \A e \in run[c].todo : k \notin e.deletes
            BY <1>9, <5>3 DEF DecisionSafe, Covered
          <6>2. CASE f \in d.cuts
            BY <1>6, <3>3, <6>2
          <6>3. CASE f \in run[c].entries[k]
            <7>1. KeptAt(c, k, f) /\ k \notin d.deletes
              BY <6>1, <6>3 DEF Intact
            <7> QED
              BY <1>7, <1>10, <7>1
          <6> QED
            BY <5>1, <6>1, <6>2, <6>3
        <5> QED
          BY <5>2, <5>3
      <4> QED
        BY <4>1, <4>2, <4>3
    <3> QED
      BY <3>1, <3>2, <3>3
  <2> QED
    BY <2>1, <2>2, InTold DEF SafeInv, NothingForgotten, Passed
<1>12. NothingForgotten'
  BY <1>1, <1>11 DEF NothingForgotten, Passed
<1> QED
  BY <1>1, <1>7, <1>12 DEF SafeInv

LEMMA SafeSave ==
    ASSUME TypeOK, SafeInv, NEW c \in Runs, \A b \in Runs : b = c,
           MergeSave(c) \/ MergeSaveFails(c)
    PROVE  SafeInv'
<1>1. /\ atRisk' = atRisk /\ admin' = admin
      /\ run' = [run EXCEPT ![c].at = "judge", ![c].says = {}]
  BY DEF MergeSave, MergeSaveFails
<1>2. run[c] \in RunType(run[c].entries)
  BY RunFields DEF RunOK
<1>3. SameRun(c) /\ run'[c].says = {}
  BY <1>1, <1>2 DEF TypeOK, RunType, SameRun
<1>4. CASE MergeSave(c)
  <2>1. Insert(run[c].says, None) /\ gone' = gone
    BY <1>4 DEF MergeSave
  <2>2. \A f \in Passed : f \in Passed' \/ f \in run[c].says
    BY <1>1, <2>1, InPending, InPendingAfter DEF Passed
  <2> QED
    BY <1>1, <1>3, <2>1, <2>2, InsertStays, Conserved
       DEF Conserves, TextsStay, PassedStays, ReadStays, SafeInv
<1>5. CASE MergeSaveFails(c)
  <2>1. mem' = mem /\ known' = known /\ gone' = gone \cup run[c].says
    BY <1>5 DEF MergeSaveFails, table
  <2>2. Passed \subseteq Passed'
    BY <1>1, <2>1, InPending, InPendingAfter DEF Passed
  <2> QED
    BY <1>1, <1>3, <2>1, <2>2, Conserved
       DEF Conserves, TextsStay, PassedStays, ReadStays, SafeInv
<1> QED
  BY <1>4, <1>5

\* With one consolidation at a time, and whatever the conversations, the admin
\* and a restart do meanwhile, what was remembered is lost only to the causes
\* that NothingForgotten names; two at a time may each delete what the other
\* keeps.
THEOREM KnownIsKept ==
    ASSUME \A b, c \in Runs : b = c
    PROVE  Spec => []NothingForgotten
<1>1. Init => SafeInv
  BY DEF Init, SafeInv, NothingForgotten, RunSafe, ReadSafe, GroupsSafe, RunIdle
<1>2. TypeOK /\ SafeInv /\ [Next]_vars => SafeInv'
  <2> SUFFICES ASSUME TypeOK, SafeInv, [Next]_vars PROVE SafeInv'
    OBVIOUS
  <2>1. CASE \E c \in Runs : Consolidate(c)
    BY <2>1, SafeList, SafeJudge, SafeDelete, SafeSave DEF Consolidate
  <2>2. CASE UNCHANGED vars
    <3>1. /\ run' = run /\ mem' = mem /\ admin' = admin /\ known' = known /\ atRisk' = atRisk
          /\ Passed' = Passed
      BY <2>2 DEF vars, table, observed, Passed, Pending
    <3> QED
      BY <3>1, Conserved DEF Conserves, TextsStay, PassedStays, ReadStays, SameRun, SafeInv
  <2> QED
    BY <2>1, <2>2, SafeAcquire, SafeWorker, SafeAdmin, SafeCrash DEF Next
<1>3. SafeInv => NothingForgotten
  BY DEF SafeInv
<1> QED
  BY <1>1, <1>2, <1>3, TypeCorrect, PTL DEF Spec
-----------------------------------------------------------------------------
(* The worker.  What it reads has no vector and gets one from nobody else. *)

Bares == {i \in DOMAIN mem : mem[i].vec = None}
Batch == DOMAIN worker.batch

BatchBare  == Batch \cap Embedded = {}
BatchReady == worker.at = "store" => \A i \in Batch : worker.batch[i] # None
BatchInv   == BatchBare /\ BatchReady

\* A vector, once given, stays until its memory is deleted.
VectorsStay ==
    [][\A i \in Embedded : i \in DOMAIN mem' => mem'[i].vec = mem[i].vec]_vars

\* What is left to do in a burst: four steps for a memory without a vector,
\* one of which is paid when it is in the batch.
StageOf(place) == IF place = "load" THEN 3 ELSE IF place = "embed" THEN 5 ELSE 4
Toil == IF worker.at = "wait" THEN 0
        ELSE 4 * Cardinality(Bares \ Batch) + Cardinality(Batch) + StageOf(worker.at)

\* Only a new memory, a failed write and an embedder that skips make a burst
\* longer; every other step of the worker makes it shorter.
BurstShrinks ==
    [][worker.at # "wait" /\ last' = last /\ ~ EmbedSkips /\ (\A i \in Ids : ~ StoreFails(i))
         => IF Worker THEN Toil' < Toil ELSE Toil' <= Toil]_vars

LEMMA BareIsNotEmbedded == Bares = DOMAIN mem \ Embedded
BY DEF Bares, Embedded

LEMMA SomeIds ==
    ASSUME NEW n \in Nat, NEW S \in SUBSET (1 .. n)
    PROVE  IsFiniteSet(S) /\ Cardinality(S) \in Nat
<1>1. IsFiniteSet(1 .. n)
  BY FS_Interval
<1>2. IsFiniteSet(S)
  BY <1>1, FS_Subset
<1> QED
  BY <1>2, FS_CardinalityType

LEMMA FewerIds ==
    ASSUME NEW n \in Nat, NEW S \in SUBSET (1 .. n), NEW T \in SUBSET S
    PROVE  Cardinality(T) <= Cardinality(S)
BY SomeIds, FS_Subset

LEMMA Sizes ==
    ASSUME TypeOK
    PROVE  /\ Bares \in SUBSET (1 .. last) /\ Batch \in SUBSET (1 .. last) /\ last \in Nat
           /\ Cardinality(Bares \ Batch) \in Nat /\ Cardinality(Batch) \in Nat
           /\ Toil \in Nat
<1>1. last \in Nat /\ Bares \in SUBSET (1 .. last) /\ Batch \in SUBSET (1 .. last)
  BY Numbers DEF TypeOK, TableOK, WorkerOK, Partial, Bares, Batch
<1>2. Cardinality(Bares \ Batch) \in Nat /\ Cardinality(Batch) \in Nat
  BY <1>1, SomeIds
<1>3. Toil \in Nat
  BY <1>2 DEF Toil, StageOf
<1> QED
  BY <1>1, <1>2, <1>3

\* What a step leaves of the vectors, and of the memories without one.
Tame ==
    /\ BatchInv'
    /\ \A i \in Embedded : i \in DOMAIN mem' => mem'[i].vec = mem[i].vec

LEMMA TameDelete ==
    ASSUME BatchInv, NEW ids, Delete(ids), worker' = worker
    PROVE  Tame /\ Bares' \subseteq Bares
BY DEF BatchInv, BatchBare, BatchReady, Batch, Embedded, Bares, Delete, Tame

LEMMA TameInsert ==
    ASSUME TypeOK, BatchInv, NEW says, NEW vec, Insert(says, vec), worker' = worker
    PROVE  Tame /\ last' # last
<1>1. /\ DOMAIN mem' = DOMAIN mem \cup {last + 1}
      /\ \A i \in DOMAIN mem : i # last + 1 => mem'[i] = mem[i]
      /\ last' = last + 1
  BY DEF Insert
<1>2. last \in Nat /\ last + 1 \notin Batch /\ last + 1 \notin DOMAIN mem
  BY Numbers DEF TypeOK, TableOK, WorkerOK, Partial, Batch
<1>3. BatchInv'
  BY <1>1, <1>2 DEF BatchInv, BatchBare, BatchReady, Batch, Embedded
<1> QED
  BY <1>1, <1>2, <1>3 DEF Tame, Embedded

LEMMA TameKept ==
    ASSUME BatchInv, mem' = mem, worker' = worker
    PROVE  Tame /\ Bares' \subseteq Bares
BY DEF BatchInv, BatchBare, BatchReady, Batch, Embedded, Bares, Tame

\* Nobody but the worker gives vectors to memories that are there.
Others ==
    \/ \E a \in Acquirers : Acquire(a)
    \/ \E c \in Runs : Consolidate(c)
    \/ Admin

LEMMA OthersTame ==
    ASSUME TypeOK, BatchInv, Others
    PROVE  Tame /\ worker' = worker /\ (last' = last => Bares' \subseteq Bares)
<1>1. ASSUME NEW a \in Acquirers, Acquire(a)
      PROVE  Tame /\ worker' = worker /\ (last' = last => Bares' \subseteq Bares)
  <2>1. CASE Extract(a) \/ Check(a) \/ Skip(a)
    BY <2>1, TameKept DEF Extract, Check, Skip, table
  <2>2. CASE SaveFact(a)
    BY <2>2, TameInsert DEF SaveFact
  <2> QED
    BY <1>1, <2>1, <2>2 DEF Acquire
<1>2. ASSUME NEW c \in Runs, Consolidate(c)
      PROVE  Tame /\ worker' = worker /\ (last' = last => Bares' \subseteq Bares)
  <2>1. CASE ListEmbedded(c) \/ ListVectors(c) \/ Judge(c) \/ MergeSaveFails(c) \/ Finish(c)
    BY <2>1, TameKept DEF ListEmbedded, ListVectors, Judge, MergeSaveFails, Finish, table
  <2>2. CASE Keep(c)
    BY <2>2, TameDelete DEF Keep, KeepBut
  <2>3. CASE MergeDelete(c)
    BY <2>3, TameDelete DEF MergeDelete
  <2>4. CASE MergeSave(c)
    BY <2>4, TameInsert DEF MergeSave
  <2> QED
    BY <1>2, <2>1, <2>2, <2>3, <2>4 DEF Consolidate
<1>3. CASE Admin
  <2>1. CASE Create
    BY <2>1, TameInsert DEF Create
  <2>2. CASE Edit
    <3>1. PICK i \in DOMAIN mem, says \in SUBSET Facts : mem' = [mem EXCEPT ![i].says = says]
      BY <2>2, Bounds DEF Edit
    <3>2. DOMAIN mem' = DOMAIN mem /\ \A j \in DOMAIN mem : mem'[j].vec = mem[j].vec
      BY <3>1 DEF TypeOK, TableOK, Partial, Row
    <3>3. worker' = worker
      BY <2>2 DEF Edit
    <3> QED
      BY <3>2, <3>3 DEF BatchInv, BatchBare, BatchReady, Batch, Embedded, Bares, Tame
  <2>3. CASE DeleteOne
    BY <2>3, TameDelete DEF DeleteOne
  <2>4. CASE ForgetMerge
    BY <2>4, TameDelete DEF ForgetMerge
  <2>5. CASE ForgetSave
    BY <2>5, TameInsert DEF ForgetSave
  <2>6. CASE ForgetSaveFails
    BY <2>6, TameKept DEF ForgetSaveFails, table
  <2> QED
    BY <1>3, <2>1, <2>2, <2>3, <2>4, <2>5, <2>6 DEF Admin
<1> QED
  BY <1>1, <1>2, <1>3 DEF Others

\* A burst the others disturb is not longer for it.
LEMMA OthersShrink ==
    ASSUME TypeOK, BatchInv, Bares' \subseteq Bares, worker' = worker
    PROVE  Toil' <= Toil
<1>1. Batch' = Batch /\ Bares' \ Batch' \subseteq Bares \ Batch
  BY DEF Batch
<1>2. Bares \ Batch \in SUBSET (1 .. last) /\ last \in Nat
  BY Sizes
<1>3. Cardinality(Bares' \ Batch') <= Cardinality(Bares \ Batch)
  BY <1>1, <1>2, FewerIds
<1>4. Cardinality(Bares' \ Batch') \in Nat
  BY <1>1, <1>2, SomeIds
<1>5. StageOf(worker.at) \in Nat
  BY DEF StageOf
<1> QED
  BY <1>1, <1>3, <1>4, <1>5, Sizes DEF Toil

\* The steps of the worker.
LEMMA LoadShrinks ==
    ASSUME TypeOK, BatchInv, Load
    PROVE  Tame /\ Toil' < Toil
<1>1. PICK B \in SUBSET Bares :
         worker' = IF B = {} THEN At("wait", <<>>) ELSE At("embed", [i \in B |-> mem[i].says])
  BY BareIsNotEmbedded DEF Load
<1>2. mem' = mem /\ worker.at = "load" /\ Batch = {}
  BY DEF Load, table, TypeOK, WorkerOK, Batch
<1>3. Toil = 4 * Cardinality(Bares) + 3 /\ Cardinality(Bares) \in Nat
  <2>1. Bares \ Batch = Bares /\ Cardinality(Batch) = 0
    BY <1>2, FS_EmptySet
  <2> QED
    BY <1>2, <2>1, Sizes DEF Toil, StageOf
<1>4. Bares' = Bares /\ Embedded' = Embedded
  BY <1>2 DEF Bares, Embedded
<1>5. CASE B = {}
  <2>1. worker'.at = "wait" /\ Batch' = {}
    BY <1>1, <1>5 DEF At, Batch
  <2>2. Toil' = 0
    BY <2>1 DEF Toil
  <2>3. Tame
    BY <1>2, <2>1 DEF Tame, BatchInv, BatchBare, BatchReady, Embedded
  <2> QED
    BY <1>3, <2>2, <2>3
<1>6. CASE B # {}
  <2>1. worker'.at = "embed" /\ Batch' = B
    BY <1>1, <1>6 DEF At, Batch
  <2>2. IsFiniteSet(Bares) /\ IsFiniteSet(B) /\ Cardinality(B) \in Nat
    BY Sizes, SomeIds
  <2>3. Cardinality(Bares \ B) = Cardinality(Bares) - Cardinality(B)
    <3>1. Bares \cap B = B
      OBVIOUS
    <3> QED
      BY <2>2, <3>1, FS_Difference
  <2>4. Cardinality(B) # 0
    BY <1>6, <2>2, FS_EmptySet
  <2>5. Toil' = 4 * Cardinality(Bares \ B) + Cardinality(B) + 5
    BY <1>4, <2>1 DEF Toil, StageOf
  <2>6. Tame
    BY <1>2, <1>4, <2>1, BareIsNotEmbedded DEF Tame, BatchInv, BatchBare, BatchReady
  <2> QED
    BY <1>3, <2>2, <2>3, <2>4, <2>5, <2>6
<1> QED
  BY <1>5, <1>6

LEMMA EmbedShrinks ==
    ASSUME TypeOK, BatchInv, Embed
    PROVE  Tame /\ Toil' < Toil
<1>1. worker.at = "embed" /\ worker'.at = "store" /\ worker'.batch = worker.batch
  BY DEF Embed, TypeOK, WorkerOK
<1>2. mem' = mem
  BY DEF Embed, table
<1>3. Batch' = Batch /\ Bares' = Bares /\ Embedded' = Embedded
  BY <1>1, <1>2 DEF Batch, Bares, Embedded
<1>4. Toil' = Toil - 1
  BY <1>1, <1>3, Sizes DEF Toil, StageOf
<1>5. \A i \in Batch : worker.batch[i] # None
  BY DEF Embed, Batch, None
<1>6. Tame
  BY <1>1, <1>2, <1>3, <1>5 DEF Tame, BatchInv, BatchBare, BatchReady
<1> QED
  BY <1>4, <1>6, Sizes

LEMMA RestShrinks ==
    ASSUME TypeOK, BatchInv, EmbedFails \/ Again
    PROVE  Tame /\ Toil' < Toil
<1>1. mem' = mem /\ worker.at # "wait" /\ Batch' = {}
  BY DEF EmbedFails, Again, table, At, Batch
<1>2. Bares' = Bares /\ Embedded' = Embedded
  BY <1>1 DEF Bares, Embedded
<1>3. Cardinality({}) = 0 /\ \A S : S \ {} = S
  BY FS_EmptySet
<1>4. CASE EmbedFails
  <2>1. worker.at = "embed" /\ worker'.at = "wait"
    BY <1>4 DEF EmbedFails, At
  <2>2. Toil' = 0 /\ Toil >= 5
    BY <2>1, Sizes DEF Toil, StageOf
  <2>3. Tame
    BY <1>1, <1>2, <2>1 DEF Tame, BatchInv, BatchBare, BatchReady
  <2> QED
    BY <2>2, <2>3, Sizes
<1>5. CASE Again
  <2>1. worker.at = "store" /\ Batch = {} /\ worker'.at = "load"
    BY <1>5 DEF Again, At, Batch
  <2>2. Toil' = 4 * Cardinality(Bares) + 3 /\ Toil = 4 * Cardinality(Bares) + 4
    <3>1. Bares \ Batch = Bares /\ Bares' \ Batch' = Bares /\ Cardinality(Batch) = 0
          /\ Cardinality(Batch') = 0
      BY <1>1, <1>2, <1>3, <2>1
    <3>2. Cardinality(Bares) \in Nat
      BY Sizes, SomeIds
    <3> QED
      BY <2>1, <3>1, <3>2 DEF Toil, StageOf
  <2>3. Cardinality(Bares) \in Nat
    BY Sizes, SomeIds
  <2>4. Tame
    BY <1>1, <1>2, <2>1 DEF Tame, BatchInv, BatchBare, BatchReady
  <2> QED
    BY <2>2, <2>3, <2>4
<1> QED
  BY <1>4, <1>5

\* A write takes one memory out of the batch.
LEMMA Taken ==
    ASSUME TypeOK, NEW i, worker.at = "store", i \in Batch, Stored(i)
    PROVE  /\ worker'.at = "store" /\ Batch' = Batch \ {i}
           /\ \A j \in Batch' : worker'.batch[j] = worker.batch[j]
BY DEF TypeOK, WorkerOK, Stored, Batch

LEMMA StoreShrinks ==
    ASSUME TypeOK, BatchInv, NEW i \in Ids, Store(i)
    PROVE  Tame /\ Toil' < Toil
<1>1. /\ worker.at = "store" /\ worker'.at = "store" /\ i \in Batch /\ Batch' = Batch \ {i}
      /\ \A j \in Batch' : worker'.batch[j] = worker.batch[j]
  BY Taken DEF Store, Batch
<1>2. /\ DOMAIN mem' = DOMAIN mem
      /\ \A j \in DOMAIN mem : j # i => mem'[j] = mem[j]
      /\ i \in DOMAIN mem => mem'[i].vec = worker.batch[i]
  BY DEF Store, Write, TypeOK, TableOK, Partial, Row
<1>3. worker.batch[i] # None /\ i \notin Embedded
  BY <1>1 DEF BatchInv, BatchBare, BatchReady
<1>4. Bares' \ Batch' = Bares \ Batch
  BY <1>1, <1>2, <1>3 DEF Bares
<1>5. Cardinality(Batch') = Cardinality(Batch) - 1
  <2>1. IsFiniteSet(Batch)
    BY Sizes, SomeIds
  <2> QED
    BY <1>1, <2>1, FS_RemoveElement
<1>6. Toil' = Toil - 1
  <2>1. /\ Toil = 4 * Cardinality(Bares \ Batch) + Cardinality(Batch) + 4
        /\ Toil' = 4 * Cardinality(Bares \ Batch) + (Cardinality(Batch) - 1) + 4
    BY <1>1, <1>4, <1>5 DEF Toil, StageOf
  <2> QED
    BY <2>1, Sizes
<1>7. Tame
  BY <1>1, <1>2, <1>3 DEF Tame, BatchInv, BatchBare, BatchReady, Embedded
<1> QED
  BY <1>6, <1>7, Sizes

LEMMA AwakeTame == ASSUME BatchInv, Awake PROVE Tame
<1>1. mem' = mem /\ worker'.at = "load" /\ Batch' = {}
  BY DEF Awake, table, At, Batch
<1> QED
  BY <1>1 DEF Tame, BatchInv, BatchBare, BatchReady, Embedded

LEMMA SkipsTame == ASSUME BatchInv, EmbedSkips PROVE Tame
<1>1. PICK B \in SUBSET DOMAIN worker.batch :
         /\ \A i \in B : worker.batch[i] # {}
         /\ worker' = At("store", [i \in B |-> worker.batch[i]])
  BY DEF EmbedSkips
<1>2. /\ mem' = mem /\ Batch' = B /\ B \subseteq Batch
      /\ \A i \in B : worker'.batch[i] = worker.batch[i]
  BY <1>1 DEF EmbedSkips, table, At, Batch
<1> QED
  BY <1>1, <1>2 DEF Tame, BatchInv, BatchBare, BatchReady, Embedded, None

LEMMA StoreFailsTame == ASSUME TypeOK, BatchInv, NEW i \in Ids, StoreFails(i) PROVE Tame
<1>1. /\ mem' = mem /\ worker.at = "store" /\ Batch' \subseteq Batch
      /\ \A j \in Batch' : worker'.batch[j] = worker.batch[j]
  BY Taken DEF StoreFails, table, Batch
<1> QED
  BY <1>1 DEF Tame, BatchInv, BatchBare, BatchReady, Embedded

LEMMA CrashTame == ASSUME TypeOK, BatchInv, Crash PROVE Tame /\ Toil' <= Toil
<1>1. mem' = mem /\ worker'.at = "wait" /\ Batch' = {}
  BY DEF Crash, table, At, Batch
<1>2. Toil' = 0
  BY <1>1 DEF Toil
<1> QED
  BY <1>1, <1>2, Sizes DEF Tame, BatchInv, BatchBare, BatchReady, Embedded

\* One step, as the two properties see it.
LEMMA WorkerStep ==
    TypeOK /\ BatchInv /\ [Next]_vars =>
      /\ Tame
      /\ worker.at # "wait" /\ last' = last /\ ~ EmbedSkips /\ (\A i \in Ids : ~ StoreFails(i))
           => IF Worker THEN Toil' < Toil ELSE Toil' <= Toil
<1> SUFFICES ASSUME TypeOK, BatchInv, [Next]_vars
             PROVE  /\ Tame
                    /\ worker.at # "wait" /\ last' = last /\ ~ EmbedSkips
                         /\ (\A i \in Ids : ~ StoreFails(i))
                         => IF Worker THEN Toil' < Toil ELSE Toil' <= Toil
  OBVIOUS
<1>1. CASE Worker
  <2>1. CASE Awake
    BY <1>1, <2>1, AwakeTame DEF Awake
  <2>2. CASE Load \/ Embed \/ EmbedFails \/ Again \/ StoreOne
    BY <1>1, <2>2, LoadShrinks, EmbedShrinks, RestShrinks, StoreShrinks DEF StoreOne
  <2>3. CASE EmbedSkips
    BY <2>3, SkipsTame
  <2>4. CASE \E i \in Ids : StoreFails(i)
    BY <2>4, StoreFailsTame
  <2> QED
    BY <1>1, <2>1, <2>2, <2>3, <2>4 DEF Worker
<1>2. CASE ~ Worker /\ Others
  BY <1>2, OthersTame, OthersShrink
<1>3. CASE ~ Worker /\ Crash
  BY <1>3, CrashTame
<1>4. CASE ~ Worker /\ UNCHANGED vars
  <2>1. mem' = mem /\ worker' = worker
    BY <1>4 DEF vars
  <2> QED
    BY <1>4, <2>1, TameKept, OthersShrink
<1> QED
  BY <1>1, <1>2, <1>3, <1>4 DEF Next, Others

LEMMA BatchAlways == Spec => [](TypeOK /\ BatchInv)
<1>1. Init => BatchInv
  BY DEF Init, BatchInv, BatchBare, BatchReady, Batch
<1>2. TypeOK /\ BatchInv /\ [Next]_vars => BatchInv'
  BY WorkerStep DEF Tame
<1> QED
  BY <1>1, <1>2, TypeCorrect, PTL DEF Spec

\* No step gives a memory that has a vector another one: the worker reads only
\* those without, Update leaves the old vector and nobody computes it anew.
THEOREM VectorsRemain == Spec => VectorsStay
<1>1. TypeOK /\ BatchInv /\ [Next]_vars =>
        [\A i \in Embedded : i \in DOMAIN mem' => mem'[i].vec = mem[i].vec]_vars
  BY WorkerStep DEF Tame
<1> QED
  BY <1>1, BatchAlways, PTL DEF Spec, VectorsStay

\* The worker, which takes the next batch at once, comes to rest: it goes round
\* as long as memories are added, writes fail or the embedder skips texts.
THEOREM BurstsEnd == Spec => BurstShrinks
<1>1. TypeOK /\ BatchInv /\ [Next]_vars =>
        [worker.at # "wait" /\ last' = last /\ ~ EmbedSkips /\ (\A i \in Ids : ~ StoreFails(i))
           => IF Worker THEN Toil' < Toil ELSE Toil' <= Toil]_vars
  BY WorkerStep
<1> QED
  BY <1>1, BatchAlways, PTL DEF Spec, BurstShrinks
=============================================================================
