------------------------ MODULE ScheduledActions_proof ------------------------
(***************************************************************************)
(* Proofs about ScheduledActions, for any number of actions and executions, *)
(* every limit of retries and any number of writes and faults: types, why   *)
(* rows are closed, what is posted once, and that an execution comes to its *)
(* end and leaves nothing out that it has read.                             *)
(***************************************************************************)
EXTENDS ScheduledActions, FiniteSetTheorems, TLAPS

(* n sends of a were refused, of which only MaxRetries are counted. *)
Refused(n, a, f) == n <= f[a] \/ f[a] = MaxRetries

(* An execution handles one copy, no copy counts refusals that did not happen, *)
(* and what it is about to mark was sent.                                    *)
Honest(j, f, h) ==
  /\ j.at \in Busy <=> j.copy # {}
  /\ \A c, d \in j.copy : c = d
  /\ \A c \in j.todo \cup j.copy : Refused(c.retries, c.id, f)
  /\ j.at = "failure" => \A c \in j.copy : Refused(c.retries + 1, c.id, f)
  /\ j.at = "mark" => \A c \in j.copy : c.id \in h

(* A row counts no refusal that did not happen, and is closed for a reason. *)
Reasoned(r, a, f, h) ==
  /\ Refused(r.retries, a, f)
  /\ r.status = "executed" => a \in h
  /\ r.status = "failed" => f[a] >= MaxRetries

AllHonest == \A x \in Execution : Honest(job[x], failures, handled)
AllReasoned == \A a \in Action : Reasoned(table[a], a, failures, handled)
IInv == TypeOK /\ AllHonest /\ AllReasoned

Counts == [Action -> 0..MaxRetries]
-----------------------------------------------------------------------------
(* Facts about the operators. *)
LEMMA IdleFacts ==
  /\ Idle \in Job /\ Idle.at = "idle" /\ Idle.copy = {} /\ Idle.todo = {}
  /\ \A c \in BOOLEAN, t \in 0..MaxTime :
       LET j == [Idle EXCEPT !.at = "fetch", !.cron = c, !.now = t]
       IN  j \in Job /\ j.at = "fetch" /\ j.copy = {} /\ j.todo = {}
<1>1. 0 \in 0..MaxTime BY BoundAssumption
<1>2. QED BY <1>1 DEF Idle, Job, Busy

LEMMA EmptyHonest ==
  ASSUME NEW f, NEW h, NEW j, j.copy = {}, j.todo = {}, j.at \in {"idle", "fetch"}
  PROVE  Honest(j, f, h)
BY DEF Honest, Busy

LEMMA RefusedMore ==
  ASSUME NEW f \in Counts, NEW g \in Counts, NEW a \in Action, f[a] <= g[a],
         NEW n \in Nat, Refused(n, a, f)
  PROVE  Refused(n, a, g)
<1>1. f[a] \in 0..MaxRetries /\ g[a] \in 0..MaxRetries BY DEF Counts
<1>2. QED BY <1>1, LimitAssumption DEF Refused

LEMMA HonestLater ==
  ASSUME NEW f \in Counts, NEW g \in Counts, \A a \in Action : f[a] <= g[a],
         NEW h, NEW i, h \subseteq i, NEW j \in Job, Honest(j, f, h)
  PROVE  Honest(j, g, i)
<1>1. \A c \in j.todo \cup j.copy : c.id \in Action /\ c.retries \in Nat /\ c.retries + 1 \in Nat
  BY DEF Job, Copy
<1>2. \A c \in j.todo \cup j.copy : Refused(c.retries, c.id, g)
  BY <1>1, RefusedMore DEF Honest
<1>3. j.at = "failure" => \A c \in j.copy : Refused(c.retries + 1, c.id, g)
  BY <1>1, RefusedMore DEF Honest
<1>4. QED BY <1>2, <1>3 DEF Honest

LEMMA ReasonedLater ==
  ASSUME NEW f \in Counts, NEW g \in Counts, NEW h, NEW i, h \subseteq i,
         NEW a \in Action, f[a] <= g[a], NEW r \in Row, Reasoned(r, a, f, h)
  PROVE  Reasoned(r, a, g, i)
<1>1. r.retries \in Nat BY DEF Row
<1>2. Refused(r.retries, a, g) BY <1>1, RefusedMore DEF Reasoned
<1>3. f[a] \in 0..MaxRetries /\ g[a] \in 0..MaxRetries BY DEF Counts
<1>4. QED BY <1>2, <1>3, LimitAssumption DEF Reasoned

(* The next copy to handle is one of the copies. *)
LEMMA ResumeKeeps ==
  ASSUME NEW x \in Execution, NEW copies \in SUBSET Copy, job \in [Execution -> Job],
         NEW f, NEW h, \A y \in Execution : Honest(job[y], f, h),
         \A c \in copies : Refused(c.retries, c.id, f),
         Resume(x, copies)
  PROVE  /\ job' \in [Execution -> Job]
         /\ \A y \in Execution : Honest(job'[y], f, h)
         /\ \A y \in Execution : y # x => job'[y] = job[y]
<1>1. CASE copies = {}
  <2>1. job' = [job EXCEPT ![x] = Idle] BY <1>1 DEF Resume
  <2>2. Honest(Idle, f, h) BY IdleFacts, EmptyHonest
  <2>3. QED BY <2>1, <2>2, IdleFacts
<1>2. CASE copies # {}
  <2>1. PICK c \in copies :
          job' = [job EXCEPT ![x].at = IF c.prompt THEN "generate" ELSE "send",
                             ![x].todo = copies \ {c}, ![x].copy = {c}]
    BY <1>2 DEF Resume
  <2>2. job[x] \in Job OBVIOUS
  <2> DEFINE step == IF c.prompt THEN "generate" ELSE "send"
             k == [job[x] EXCEPT !.at = step, !.todo = copies \ {c}, !.copy = {c}]
  <2>3. step \in {"generate", "send"} OBVIOUS
  <2>4. k \in Job /\ k.at = step /\ k.todo = copies \ {c} /\ k.copy = {c}
    BY <2>2, <2>3 DEF Job, Busy
  <2>5. job' = [job EXCEPT ![x] = k] BY <2>1
  <2> HIDE DEF k, step
  <2>6. Honest(k, f, h) BY <2>3, <2>4 DEF Honest, Busy
  <2>7. QED BY <2>4, <2>5, <2>6
<1>3. QED BY <1>1, <1>2

(* A step on the way of one copy. *)
LEMMA GotoKeeps ==
  ASSUME NEW x \in Execution, job \in [Execution -> Job], NEW step \in Busy,
         NEW f, NEW h, \A y \in Execution : Honest(job[y], f, h), job[x].at \in Busy,
         step = "failure" => \A c \in job[x].copy : Refused(c.retries + 1, c.id, f),
         step = "mark" => \A c \in job[x].copy : c.id \in h,
         Goto(x, step)
  PROVE  /\ job' \in [Execution -> Job]
         /\ \A y \in Execution : Honest(job'[y], f, h)
<1>1. job[x] \in Job OBVIOUS
<1> DEFINE k == [job[x] EXCEPT !.at = step]
<1>2. k \in Job /\ k.at = step /\ k.todo = job[x].todo /\ k.copy = job[x].copy
  BY <1>1 DEF Job
<1>3. job' = [job EXCEPT ![x] = k] BY DEF Goto
<1> HIDE DEF k
<1>4. Honest(k, f, h) BY <1>2 DEF Honest
<1>5. QED BY <1>2, <1>3, <1>4

(* A change of one row. *)
LEMMA RowKeeps ==
  ASSUME NEW a \in Action, NEW r \in Row, table \in [Action -> Row],
         NEW f, NEW h, \A b \in Action : Reasoned(table[b], b, f, h),
         Reasoned(r, a, f, h), table' = [table EXCEPT ![a] = r]
  PROVE  /\ table' \in [Action -> Row]
         /\ \A b \in Action : Reasoned(table'[b], b, f, h)
OBVIOUS

LEMMA NewRow ==
  ASSUME NEW f \in Counts, NEW h, NEW a \in Action,
         NEW r \in Row, r.status \in {"none", "pending", "deleted"}, r.retries = 0
  PROVE  Reasoned(r, a, f, h)
<1>1. f[a] \in 0..MaxRetries BY DEF Counts
<1>2. QED BY <1>1 DEF Reasoned, Refused

LEMMA FaultsCounted ==
  ASSUME NEW x, faults \in 0..MaxFaults, Works(x) \/ Fails(x)
  PROVE  faults' \in 0..MaxFaults
BY BoundAssumption DEF Works, Fails

LEMMA BusyIsUp ==
  ASSUME IInv, NEW x \in Execution, job[x].at # "idle"
  PROVE  process # "down"
BY IdleFacts DEF IInv, TypeOK
-----------------------------------------------------------------------------
(* The invariant. *)
LEMMA InvInit == Init => IInv
<1>1. SUFFICES ASSUME Init PROVE IInv OBVIOUS
<1>2. 0 \in 0..MaxTime /\ 0 \in 0..MaxWrites /\ 0 \in 0..MaxFaults /\ 0 \in 0..MaxRetries
  BY BoundAssumption, LimitAssumption
<1>3. NoRow \in Row /\ NoRow.status = "none" /\ NoRow.retries = 0 BY DEF NoRow, Row, Status
<1>4. failures \in Counts BY <1>1, <1>2 DEF Init, Counts
<1>5. AllReasoned
  <2>1. \A a \in Action : table[a] = NoRow BY <1>1 DEF Init
  <2>2. QED BY <2>1, <1>3, <1>4, NewRow DEF AllReasoned
<1>6. AllHonest BY <1>1, IdleFacts, EmptyHonest DEF Init, AllHonest
<1>7. TypeOK BY <1>1, <1>2, <1>3, IdleFacts DEF Init, TypeOK, Busy
<1>8. QED BY <1>5, <1>6, <1>7 DEF IInv

LEMMA TickInv == IInv /\ Tick => IInv'
BY BoundAssumption DEF IInv, TypeOK, AllHonest, AllReasoned, Tick, observed

(* Creating, cancelling, moving, reopening and deleting. *)
LEMMA WriteInv ==
  ASSUME IInv, NEW a \in Action, Write(a)
  PROVE  IInv'
<1> DEFINE others == <<clock, process, job, faults, repeated, excused, handled, failures>>
           after(r) == /\ table' = [table EXCEPT ![a] = r]
                       /\ r \in Row /\ Reasoned(r, a, failures, handled)
           Changed == /\ \E r : after(r)
                      /\ UNCHANGED others
                      /\ posted' = posted \/ posted' = [posted EXCEPT ![a] = {}]
<1>1. table \in [Action -> Row] /\ table[a] \in Row /\ failures \in Counts
  BY DEF IInv, TypeOK, Counts
<1>2. writes' \in 0..MaxWrites BY BoundAssumption DEF Write, IInv, TypeOK
<1>3. Reasoned(table[a], a, failures, handled) BY DEF IInv, AllReasoned
<1>4. Changed
  <2>1. ASSUME NEW t \in 0..MaxTime, Update(a, t) PROVE Changed
    <3> DEFINE r == [table[a] EXCEPT !.at = t, !.status = "pending"]
    <3>0. t \in Nat /\ "pending" \in Status BY BoundAssumption DEF Status
    <3>1. r \in Row /\ r.retries = table[a].retries /\ r.status = "pending"
      BY <3>0, <1>1 DEF Row
    <3>2. table' = [table EXCEPT ![a] = r] BY <2>1 DEF Update
    <3> HIDE DEF r
    <3>3. Reasoned(r, a, failures, handled) BY <3>1, <1>3 DEF Reasoned
    <3>4. QED BY <2>1, <3>1, <3>2, <3>3 DEF Update
  <2>2. ASSUME NEW t \in 0..MaxTime, NEW recurring \in BOOLEAN, NEW prompt \in BOOLEAN,
               Create(a, t, recurring, prompt)
        PROVE  Changed
    <3> DEFINE r == [NoRow EXCEPT !.status = "pending", !.recurring = recurring,
                                  !.prompt = prompt, !.at = t]
    <3>0. t \in Nat /\ "pending" \in Status BY BoundAssumption DEF Status
    <3>1. r \in Row /\ r.retries = 0 /\ r.status = "pending"
      BY <3>0 DEF NoRow, Row
    <3>2. table' = [table EXCEPT ![a] = r] BY <2>2 DEF Create
    <3> HIDE DEF r
    <3>3. Reasoned(r, a, failures, handled) BY <3>1, <1>1, NewRow
    <3>4. QED BY <2>2, <3>1, <3>2, <3>3 DEF Create, observed
  <2>3. ASSUME Cancel(a) PROVE Changed
    <3> DEFINE r == [table[a] EXCEPT !.status = "cancelled"]
    <3>1. r \in Row /\ r.retries = table[a].retries /\ r.status = "cancelled"
      BY <1>1 DEF Row, Status
    <3>2. table' = [table EXCEPT ![a] = r] BY <2>3 DEF Cancel
    <3> HIDE DEF r
    <3>3. Reasoned(r, a, failures, handled) BY <3>1, <1>3 DEF Reasoned
    <3>4. QED BY <2>3, <3>1, <3>2, <3>3 DEF Cancel, observed
  <2>4. ASSUME Delete(a) PROVE Changed
    <3> DEFINE r == [NoRow EXCEPT !.status = "deleted"]
    <3>1. r \in Row /\ r.retries = 0 /\ r.status = "deleted"
      BY DEF NoRow, Row, Status
    <3>2. table' = [table EXCEPT ![a] = r] BY <2>4 DEF Delete
    <3> HIDE DEF r
    <3>3. Reasoned(r, a, failures, handled) BY <3>1, <1>1, NewRow
    <3>4. QED BY <2>4, <3>1, <3>2, <3>3 DEF Delete, observed
  <2>5. QED BY <2>1, <2>2, <2>3, <2>4 DEF Write
<1>5. /\ table' \in [Action -> Row]
      /\ \A b \in Action : Reasoned(table'[b], b, failures, handled)
  BY <1>4, <1>1, RowKeeps DEF IInv, AllReasoned
<1>6. posted' \in [Action -> SUBSET Nat] BY <1>4 DEF IInv, TypeOK
<1>7. QED BY <1>2, <1>4, <1>5, <1>6 DEF IInv, TypeOK, AllHonest, AllReasoned

LEMMA StartInv ==
  ASSUME IInv, NEW x \in Execution, NEW cron \in BOOLEAN, Start(x, cron)
  PROVE  IInv'
<1> DEFINE j == [Idle EXCEPT !.at = "fetch", !.cron = cron, !.now = clock]
<1>1. clock \in 0..MaxTime BY DEF IInv, TypeOK
<1>2. j \in Job /\ j.at = "fetch" /\ j.copy = {} /\ j.todo = {} BY <1>1, IdleFacts
<1>3. job' = [job EXCEPT ![x] = j] BY DEF Start
<1> HIDE DEF j
<1>4. Honest(j, failures, handled) BY <1>2, EmptyHonest
<1>5. process # "down" BY DEF Start
<1>6. job' \in [Execution -> Job] /\ \A y \in Execution : Honest(job'[y], failures, handled)
  BY <1>2, <1>3, <1>4 DEF IInv, TypeOK, AllHonest
<1>7. QED BY <1>5, <1>6 DEF Start, IInv, TypeOK, AllHonest, AllReasoned, Honest, observed

(* The parts of the invariant a step of an execution can disturb.  *)
LEMMA ExecutionKeeps ==
  ASSUME IInv, process # "down", UNCHANGED <<clock, writes, process>>,
         faults' \in 0..MaxFaults,
         table' \in [Action -> Row], AllReasoned',
         job' \in [Execution -> Job], AllHonest',
         posted' \in [Action -> SUBSET Nat], repeated' \subseteq Action,
         excused' \subseteq Action, handled' \subseteq Action,
         failures' \in Counts
  PROVE  IInv'
BY DEF IInv, TypeOK, AllHonest, Honest, Counts

LEMMA FetchInv ==
  ASSUME IInv, NEW x \in Execution, Fetch(x)
  PROVE  IInv'
<1> DEFINE due == {a \in Action : Due(a, job[x].now)}
           copies == {[id |-> a, prompt |-> table[a].prompt, at |-> table[a].at,
                       retries |-> table[a].retries] : a \in due}
<1>1. job \in [Execution -> Job] /\ table \in [Action -> Row] /\ process # "down"
  BY BusyIsUp DEF Fetch, IInv, TypeOK
<1>2. \A a \in Action : table[a].prompt \in BOOLEAN /\ table[a].at \in Nat /\ table[a].retries \in Nat
  BY <1>1 DEF Row
<1>3. copies \in SUBSET Copy BY <1>2 DEF Copy
<1>4. \A c \in copies : Refused(c.retries, c.id, failures)
  BY DEF IInv, AllReasoned, Reasoned
<1>5. Resume(x, copies) \/ Resume(x, {}) BY DEF Fetch
<1>6. {} \in SUBSET Copy /\ \A c \in {} : Refused(c.retries, c.id, failures) OBVIOUS
<1> HIDE DEF copies
<1>7. job' \in [Execution -> Job] /\ \A y \in Execution : Honest(job'[y], failures, handled)
  BY <1>1, <1>3, <1>4, <1>5, <1>6, ResumeKeeps DEF IInv, AllHonest
<1>8. faults' \in 0..MaxFaults BY FaultsCounted DEF Fetch, IInv, TypeOK
<1>9. excused' \subseteq Action BY DEF Fetch, IInv, TypeOK
<1>10. QED
  BY <1>1, <1>7, <1>8, <1>9, ExecutionKeeps
     DEF Fetch, IInv, TypeOK, AllHonest, AllReasoned, Counts

(* What the queue of an execution holds can be resumed. *)
LEMMA TodoKeeps ==
  ASSUME IInv, NEW x \in Execution, Resume(x, job[x].todo)
  PROVE  job' \in [Execution -> Job] /\ \A y \in Execution : Honest(job'[y], failures, handled)
<1> DEFINE copies == job[x].todo
<1>1. job \in [Execution -> Job] BY DEF IInv, TypeOK
<1>2. copies \in SUBSET Copy BY <1>1 DEF Job
<1>3. \A c \in copies : Refused(c.retries, c.id, failures)
  BY DEF IInv, AllHonest, Honest
<1>4. \A y \in Execution : Honest(job[y], failures, handled) BY DEF IInv, AllHonest
<1>5. Resume(x, copies) OBVIOUS
<1> HIDE DEF copies
<1>6. QED BY <1>1, <1>2, <1>3, <1>4, <1>5, ResumeKeeps

LEMMA GenerateInv ==
  ASSUME IInv, NEW x \in Execution, Generate(x)
  PROVE  IInv'
<1>1. job \in [Execution -> Job] /\ process # "down" BY BusyIsUp DEF Generate, IInv, TypeOK
<1>2. CASE Goto(x, "send")
  <2>1. "send" \in Busy /\ job[x].at \in Busy BY DEF Generate, Busy
  <2>2. job' \in [Execution -> Job] /\ \A y \in Execution : Honest(job'[y], failures, handled)
    BY <1>1, <1>2, <2>1, GotoKeeps DEF IInv, AllHonest
  <2>3. QED
    BY <1>1, <2>2, ExecutionKeeps
       DEF Generate, IInv, TypeOK, AllHonest, AllReasoned, Counts, observed
<1>3. CASE GiveUp(x)
  <2>1. job' \in [Execution -> Job] /\ \A y \in Execution : Honest(job'[y], failures, handled)
    BY <1>3, TodoKeeps DEF GiveUp
  <2>2. QED
    BY <1>1, <2>1, ExecutionKeeps
       DEF Generate, IInv, TypeOK, AllHonest, AllReasoned, Counts, observed
<1>4. QED BY <1>2, <1>3 DEF Generate

(* A refusal is counted and a sent action becomes handled before anything is *)
(* written to the table.                                                     *)
LEMMA SendInv ==
  ASSUME IInv, NEW x \in Execution, Send(x)
  PROVE  IInv'
<1>1. /\ job \in [Execution -> Job] /\ job[x] \in Job /\ table \in [Action -> Row]
      /\ failures \in Counts /\ process # "down"
  BY BusyIsUp DEF Send, IInv, TypeOK, Counts
<1>2. PICK c \in job[x].copy :
       /\ Appear(c) \/ UNCHANGED <<posted, repeated>>
       /\ UNCHANGED excused \/ excused' = excused \cup {c.id}
       /\ \/ /\ handled' = handled \cup {c.id}
             /\ Goto(x, "mark")
             /\ UNCHANGED failures
          \/ /\ failures' = [failures EXCEPT ![c.id] = IF @ < MaxRetries THEN @ + 1 ELSE @]
             /\ Goto(x, "failure")
             /\ UNCHANGED handled
  BY DEF Send
<1>3. c.id \in Action /\ c.at \in Nat /\ c.retries \in Nat BY <1>1 DEF Job, Copy
<1>4. \A d \in job[x].copy : d = c BY DEF IInv, AllHonest, Honest
<1>5. failures[c.id] \in 0..MaxRetries BY <1>1, <1>3 DEF Counts
<1>6. /\ failures' \in Counts /\ \A a \in Action : failures[a] <= failures'[a]
      /\ handled \subseteq handled' /\ handled' \subseteq Action
      /\ posted' \in [Action -> SUBSET Nat] /\ repeated' \subseteq Action /\ excused' \subseteq Action
  <2>1. /\ posted \in [Action -> SUBSET Nat] /\ repeated \subseteq Action
        /\ excused \subseteq Action /\ handled \subseteq Action
    BY DEF IInv, TypeOK
  <2>a. /\ posted' \in [Action -> SUBSET Nat] /\ repeated' \subseteq Action
        /\ excused' \subseteq Action /\ handled \subseteq handled' /\ handled' \subseteq Action
    BY <1>2, <1>3, <2>1 DEF Appear
  <2>2. \A a \in Action : failures[a] \in 0..MaxRetries BY <1>1 DEF Counts
  <2>3. CASE UNCHANGED failures
    BY <1>1, <2>2, <2>3, <2>a
  <2>4. CASE failures' = [failures EXCEPT ![c.id] = IF @ < MaxRetries THEN @ + 1 ELSE @]
    <3>1. failures' \in Counts BY <1>1, <1>3, <1>5, <2>4, LimitAssumption DEF Counts
    <3>2. \A a \in Action : failures[a] <= failures'[a]
      BY <1>1, <1>3, <2>2, <2>4, LimitAssumption DEF Counts
    <3>3. QED BY <3>1, <3>2, <2>a
  <2>5. QED BY <1>2, <2>3, <2>4
<1>7. \A y \in Execution : Honest(job[y], failures', handled')
  BY <1>1, <1>6, HonestLater DEF IInv, AllHonest
<1>8. job' \in [Execution -> Job] /\ \A y \in Execution : Honest(job'[y], failures', handled')
  <2>1. job[x].at \in Busy /\ "mark" \in Busy /\ "failure" \in Busy BY DEF Send, Busy
  <2>2. CASE handled' = handled \cup {c.id} /\ Goto(x, "mark")
    <3>1. \A d \in job[x].copy : d.id \in handled' BY <1>4, <2>2
    <3>2. QED BY <1>1, <1>7, <2>1, <2>2, <3>1, GotoKeeps
  <2>3. CASE /\ failures' = [failures EXCEPT ![c.id] = IF @ < MaxRetries THEN @ + 1 ELSE @]
             /\ Goto(x, "failure")
    <3>1. Refused(c.retries, c.id, failures) BY DEF IInv, AllHonest, Honest
    <3>2. failures'[c.id] = IF failures[c.id] < MaxRetries THEN failures[c.id] + 1 ELSE failures[c.id]
      BY <1>1, <1>3, <2>3 DEF Counts
    <3>3. Refused(c.retries + 1, c.id, failures')
      BY <1>3, <1>5, <3>1, <3>2, LimitAssumption DEF Refused
    <3>4. QED BY <1>1, <1>4, <1>7, <2>1, <2>3, <3>3, GotoKeeps
  <2>4. QED BY <1>2, <2>2, <2>3
<1>9. \A a \in Action : Reasoned(table[a], a, failures', handled')
  <2>1. SUFFICES ASSUME NEW a \in Action PROVE Reasoned(table[a], a, failures', handled')
    OBVIOUS
  <2>2. table[a] \in Row /\ Reasoned(table[a], a, failures, handled) BY <1>1 DEF IInv, AllReasoned
  <2>3. QED BY <1>1, <1>6, <2>2, ReasonedLater
<1>10. QED
  BY <1>1, <1>6, <1>8, <1>9, ExecutionKeeps DEF Send, IInv, TypeOK, AllHonest, AllReasoned

(* The copy counted no refusal that did not happen, and one has just happened: *)
(* the row may be closed if that makes enough of them.                       *)
LEMMA CountFailureInv ==
  ASSUME IInv, NEW x \in Execution, CountFailure(x)
  PROVE  IInv'
<1>1. /\ job[x] \in Job /\ table \in [Action -> Row] /\ failures \in Counts /\ process # "down"
  BY BusyIsUp DEF CountFailure, IInv, TypeOK, Counts
<1>2. table' \in [Action -> Row] /\ \A b \in Action : Reasoned(table'[b], b, failures, handled)
  <2>1. CASE UNCHANGED table BY <1>1, <2>1 DEF IInv, AllReasoned
  <2>2. CASE ~ UNCHANGED table
    <3>1. PICK c \in job[x].copy :
            table' = [table EXCEPT ![c.id].retries = c.retries + 1,
                        ![c.id].status = IF TooMany(c.retries + 1) THEN "failed" ELSE @]
      BY <2>2 DEF CountFailure
    <3>2. c.id \in Action /\ c.retries \in Nat /\ c.retries + 1 \in Nat BY <1>1 DEF Job, Copy
    <3>3. Refused(c.retries + 1, c.id, failures) BY DEF CountFailure, IInv, AllHonest, Honest
    <3>4. table[c.id] \in Row /\ Reasoned(table[c.id], c.id, failures, handled)
      BY <1>1, <3>2 DEF IInv, AllReasoned
    <3> DEFINE status == IF TooMany(c.retries + 1) THEN "failed" ELSE table[c.id].status
               r == [table[c.id] EXCEPT !.retries = c.retries + 1, !.status = status]
    <3>5. status \in Status BY <3>4 DEF Row, Status
    <3>6. table' = [table EXCEPT ![c.id] = r] BY <3>1
    <3>7. status = "executed" => c.id \in handled BY <3>4 DEF Reasoned
    <3>8. status = "failed" => failures[c.id] >= MaxRetries
      <4>1. failures[c.id] \in 0..MaxRetries BY <1>1, <3>2 DEF Counts
      <4>2. CASE TooMany(c.retries + 1)
        BY <4>1, <4>2, <3>2, <3>3, LimitAssumption DEF TooMany, Refused
      <4>3. CASE ~TooMany(c.retries + 1) BY <4>3, <3>4 DEF Reasoned
      <4>4. QED BY <4>2, <4>3
    <3> HIDE DEF status
    <3>9. r \in Row /\ r.retries = c.retries + 1 /\ r.status = status
      BY <3>2, <3>4, <3>5 DEF Row
    <3> HIDE DEF r
    <3>10. Reasoned(r, c.id, failures, handled) BY <3>3, <3>7, <3>8, <3>9 DEF Reasoned
    <3>11. QED BY <1>1, <3>2, <3>6, <3>9, <3>10, RowKeeps DEF IInv, AllReasoned
  <2>3. QED BY <2>1, <2>2
<1>3. job' \in [Execution -> Job] /\ \A y \in Execution : Honest(job'[y], failures, handled)
  BY TodoKeeps DEF CountFailure
<1>4. faults' \in 0..MaxFaults BY FaultsCounted DEF CountFailure, IInv, TypeOK
<1>5. UNCHANGED <<clock, writes, process, posted, repeated, excused, handled, failures>>
  BY DEF CountFailure, observed
<1>6. QED
  BY <1>1, <1>2, <1>3, <1>4, <1>5, ExecutionKeeps
     DEF IInv, TypeOK, AllHonest, AllReasoned, Counts

(* What is marked was sent. *)
LEMMA MarkInv ==
  ASSUME IInv, NEW x \in Execution, Mark(x)
  PROVE  IInv'
<1>1. /\ job[x] \in Job /\ job[x].now \in Nat /\ table \in [Action -> Row]
      /\ failures \in Counts /\ process # "down"
  BY BusyIsUp, BoundAssumption DEF Mark, IInv, TypeOK, Counts, Job
<1>2. PICK c \in job[x].copy :
        \/ /\ Fails(x)
           /\ excused' = excused \cup {c.id}
           /\ UNCHANGED table
        \/ /\ Works(x)
           /\ IF ~Exists(c.id) THEN UNCHANGED table
              ELSE IF table[c.id].recurring
              THEN \E t \in NextTime(job[x].now) : table' = [table EXCEPT ![c.id].at = t]
              ELSE table' = [table EXCEPT ![c.id].status = "executed"]
           /\ UNCHANGED excused
  BY DEF Mark
<1>3. c.id \in Action /\ c.id \in handled
  BY <1>1 DEF Job, Copy, Mark, IInv, AllHonest, Honest
<1>4. table[c.id] \in Row /\ Reasoned(table[c.id], c.id, failures, handled)
  BY <1>1, <1>3 DEF IInv, AllReasoned
<1>5. table' \in [Action -> Row] /\ \A b \in Action : Reasoned(table'[b], b, failures, handled)
  <2>1. CASE UNCHANGED table BY <1>1, <2>1 DEF IInv, AllReasoned
  <2>2. CASE \E t \in NextTime(job[x].now) : table' = [table EXCEPT ![c.id].at = t]
    <3>1. PICK t \in NextTime(job[x].now) : table' = [table EXCEPT ![c.id].at = t] BY <2>2
    <3> DEFINE r == [table[c.id] EXCEPT !.at = t]
    <3>2. t \in Nat BY <1>1, LimitAssumption DEF NextTime, Offset
    <3>3. r \in Row /\ r.retries = table[c.id].retries /\ r.status = table[c.id].status
      BY <1>4, <3>2 DEF Row
    <3>4. table' = [table EXCEPT ![c.id] = r] BY <3>1
    <3> HIDE DEF r
    <3>5. Reasoned(r, c.id, failures, handled) BY <1>4, <3>3 DEF Reasoned
    <3>6. QED BY <1>1, <1>3, <3>3, <3>4, <3>5, RowKeeps DEF IInv, AllReasoned
  <2>3. CASE table' = [table EXCEPT ![c.id].status = "executed"]
    <3> DEFINE r == [table[c.id] EXCEPT !.status = "executed"]
    <3>1. "executed" \in Status BY DEF Status
    <3>2. r \in Row /\ r.retries = table[c.id].retries /\ r.status = "executed"
      BY <1>4, <3>1 DEF Row
    <3>3. table' = [table EXCEPT ![c.id] = r] BY <2>3
    <3> HIDE DEF r
    <3>4. Reasoned(r, c.id, failures, handled) BY <1>3, <1>4, <3>2 DEF Reasoned
    <3>5. QED BY <1>1, <1>3, <3>2, <3>3, <3>4, RowKeeps DEF IInv, AllReasoned
  <2>4. QED BY <1>2, <2>1, <2>2, <2>3
<1>6. job' \in [Execution -> Job] /\ \A y \in Execution : Honest(job'[y], failures, handled)
  BY TodoKeeps DEF Mark
<1>7. faults' \in 0..MaxFaults BY <1>2, FaultsCounted DEF IInv, TypeOK
<1>8. excused' \subseteq Action BY <1>2, <1>3 DEF IInv, TypeOK
<1>9. UNCHANGED <<clock, writes, process, posted, repeated, handled, failures>> BY DEF Mark
<1>10. QED
  BY <1>1, <1>5, <1>6, <1>7, <1>8, <1>9, ExecutionKeeps
     DEF IInv, TypeOK, AllHonest, AllReasoned, Counts

LEMMA StopInv == IInv /\ Stop => IInv'
BY BoundAssumption DEF IInv, TypeOK, AllHonest, AllReasoned, Stop, observed

LEMMA EndInv == IInv /\ End => IInv'
<1>1. SUFFICES ASSUME IInv, End PROVE IInv' OBVIOUS
<1>2. job' \in [Execution -> Job] /\ \A x \in Execution : job'[x] = Idle
  BY <1>1, IdleFacts DEF End
<1>3. \A x \in Execution : Honest(job'[x], failures', handled')
  BY <1>2, IdleFacts, EmptyHonest
<1>4. excused' \subseteq Action
  <2>1. \A x \in Execution : \A c \in job[x].copy : c.id \in Action
    BY <1>1 DEF IInv, TypeOK, Job, Copy
  <2>2. QED BY <1>1, <2>1 DEF End, IInv, TypeOK
<1>5. faults' \in 0..MaxFaults BY <1>1, BoundAssumption DEF End, IInv, TypeOK
<1>6. QED
  BY <1>1, <1>2, <1>3, <1>4, <1>5, IdleFacts
     DEF End, IInv, TypeOK, AllHonest, AllReasoned, Busy

LEMMA BootInv == IInv /\ Boot => IInv'
BY DEF IInv, TypeOK, AllHonest, AllReasoned, Boot, observed

LEMMA InvStep == IInv /\ [Next]_vars => IInv'
<1>1. SUFFICES ASSUME IInv, [Next]_vars PROVE IInv' OBVIOUS
<1>2. CASE UNCHANGED vars
  BY <1>1, <1>2 DEF vars, observed, IInv, TypeOK, AllHonest, AllReasoned
<1>3. CASE Tick BY <1>1, <1>3, TickInv
<1>4. CASE \E a \in Action : Write(a) BY <1>1, <1>4, WriteInv
<1>5. CASE \E x \in Execution, cron \in BOOLEAN : Start(x, cron) BY <1>1, <1>5, StartInv
<1>6. CASE \E x \in Execution : Execute(x)
  BY <1>1, <1>6, FetchInv, GenerateInv, SendInv, CountFailureInv, MarkInv DEF Execute
<1>7. CASE Stop \/ End \/ Boot BY <1>1, <1>7, StopInv, EndInv, BootInv
<1>8. QED BY <1>1, <1>2, <1>3, <1>4, <1>5, <1>6, <1>7 DEF Next

(* An action is "executed" only after a send that was not refused and "failed" *)
(* only after MaxRetries refused ones: task.go:81 counts from a copy that may  *)
(* be old, and what it writes never exceeds what happened.                    *)
THEOREM ClosedWithReason == Spec => []ClosedForAReason
<1>1. IInv => ClosedForAReason BY DEF IInv, AllReasoned, Reasoned, ClosedForAReason
<1>2. QED BY InvInit, InvStep, <1>1, PTL DEF Spec

(* Every reachable state is well typed, and nothing runs in a process that is *)
(* down.                                                                     *)
THEOREM TypeCorrect == Spec => []TypeOK
<1>1. IInv => TypeOK BY DEF IInv
<1>2. QED BY InvInit, InvStep, <1>1, PTL DEF Spec
-----------------------------------------------------------------------------
(* Posted once.  Whatever an execution has of an action that is not excused,  *)
(* nobody else has; until it is sent its time was not posted; and once its     *)
(* row may be read again the row is ahead of everything posted.               *)
Has(j, a) == \E c \in j.todo \cup j.copy : c.id = a
Sent(j, a) == j.at = "mark" /\ \E c \in j.copy : c.id = a

OneOfEach(j) ==
  /\ \A c, d \in j.todo : c.id = d.id => c = d
  /\ \A c \in j.copy, d \in j.todo : c.id # d.id
  /\ \A c \in j.todo \cup j.copy : c.at <= j.now

Unsent(j, a, times) ==
  Has(j, a) =>
    /\ \A t \in times : t <= j.now
    /\ ~Sent(j, a) => \A c \in j.todo \cup j.copy : c.id = a => c.at \notin times

Alone(a) == \A x, y \in Execution : Has(job[x], a) /\ Has(job[y], a) => x = y
Ahead(a) ==
  table[a].status = "pending" /\ (\A x \in Execution : ~Sent(job[x], a))
    => \A t \in posted[a] : t < table[a].at

Once(a) ==
  a \notin excused =>
    /\ a \notin repeated
    /\ Alone(a) /\ Ahead(a)
    /\ \A x \in Execution : Unsent(job[x], a, posted[a])

(* A row that is not created yet has no past. *)
Unborn(a) == table[a].status = "none" => posted[a] = {} /\ \A x \in Execution : ~Has(job[x], a)

AllOneOfEach == \A x \in Execution : OneOfEach(job[x])
AllOnce == \A a \in Action : Once(a)
AllUnborn == \A a \in Action : Unborn(a)
PInv == AllOneOfEach /\ AllOnce /\ AllUnborn

(* What an execution may drop: it keeps none that it sent, adds none, and is *)
(* not about to mark.                                                        *)
Fewer(j, k) ==
  /\ k.at # "mark"
  /\ OneOfEach(k)
  /\ \A c \in k.todo \cup k.copy :
       /\ c \in j.todo \cup j.copy
       /\ ~Sent(j, c.id)
       /\ k.now = j.now

LEMMA EmptyFewer ==
  ASSUME NEW j, NEW k, k.todo = {}, k.copy = {}, k.at # "mark"
  PROVE  Fewer(j, k)
BY DEF Fewer, OneOfEach

(* What Resume leaves an execution with. *)
LEMMA ResumeLeaves ==
  ASSUME NEW x \in Execution, NEW copies \in SUBSET Copy, job \in [Execution -> Job],
         Resume(x, copies)
  PROVE  /\ job' \in [Execution -> Job]
         /\ \A y \in Execution : y # x => job'[y] = job[y]
         /\ job'[x].at # "mark"
         /\ \/ copies = {} /\ job'[x].todo = {} /\ job'[x].copy = {}
            \/ /\ job'[x].now = job[x].now
               /\ \E c \in copies : job'[x].todo = copies \ {c} /\ job'[x].copy = {c}
<1>1. CASE copies = {}
  <2>1. job' = [job EXCEPT ![x] = Idle] BY <1>1 DEF Resume
  <2>2. QED BY <1>1, <2>1, IdleFacts
<1>2. CASE copies # {}
  <2>1. PICK c \in copies :
          job' = [job EXCEPT ![x].at = IF c.prompt THEN "generate" ELSE "send",
                             ![x].todo = copies \ {c}, ![x].copy = {c}]
    BY <1>2 DEF Resume
  <2>2. job[x] \in Job OBVIOUS
  <2> DEFINE step == IF c.prompt THEN "generate" ELSE "send"
             k == [job[x] EXCEPT !.at = step, !.todo = copies \ {c}, !.copy = {c}]
  <2>3. step \in {"generate", "send"} OBVIOUS
  <2>4. /\ k \in Job /\ k.at = step /\ k.todo = copies \ {c} /\ k.copy = {c}
        /\ k.now = job[x].now
    BY <2>2, <2>3 DEF Job, Busy
  <2>5. job' = [job EXCEPT ![x] = k] BY <2>1
  <2> HIDE DEF k, step
  <2>6. job'[x] = k /\ job' \in [Execution -> Job] /\ \A y \in Execution : y # x => job'[y] = job[y]
    BY <2>4, <2>5
  <2>7. QED BY <2>3, <2>4, <2>6
<1>3. QED BY <1>1, <1>2

LEMMA GotoLeaves ==
  ASSUME NEW x \in Execution, job \in [Execution -> Job], NEW step \in Busy, Goto(x, step)
  PROVE  /\ \A y \in Execution : y # x => job'[y] = job[y]
         /\ job'[x].at = step /\ job'[x].todo = job[x].todo /\ job'[x].copy = job[x].copy
         /\ job'[x].now = job[x].now
<1>1. job[x] \in Job OBVIOUS
<1> DEFINE k == [job[x] EXCEPT !.at = step]
<1>2. /\ k.at = step /\ k.todo = job[x].todo /\ k.copy = job[x].copy /\ k.now = job[x].now
  BY <1>1 DEF Job
<1>3. job' = [job EXCEPT ![x] = k] BY DEF Goto
<1> HIDE DEF k
<1>4. QED BY <1>2, <1>3

(* On to the next copy: the one at hand is gone. *)
LEMMA NextIsFewer ==
  ASSUME NEW x \in Execution, job \in [Execution -> Job], OneOfEach(job[x]),
         Resume(x, job[x].todo)
  PROVE  /\ Fewer(job[x], job'[x])
         /\ \A y \in Execution : y # x => job'[y] = job[y]
         /\ \A c \in job[x].copy : ~Has(job'[x], c.id)
<1> DEFINE copies == job[x].todo
<1>1. copies \in SUBSET Copy BY DEF Job
<1>2. Resume(x, copies) OBVIOUS
<1> HIDE DEF copies
<1>3. /\ \A y \in Execution : y # x => job'[y] = job[y]
      /\ job'[x].at # "mark"
      /\ \/ copies = {} /\ job'[x].todo = {} /\ job'[x].copy = {}
         \/ /\ job'[x].now = job[x].now
            /\ \E c \in copies : job'[x].todo = copies \ {c} /\ job'[x].copy = {c}
  BY <1>1, <1>2, ResumeLeaves
<1>4. job'[x].todo \cup job'[x].copy = copies BY <1>3
<1>5. copies = job[x].todo BY DEF copies
<1>6. \A c \in copies : ~Sent(job[x], c.id) BY <1>5 DEF Sent, OneOfEach
<1>7. CASE copies = {}
  BY <1>3, <1>4, <1>7, EmptyFewer DEF Has
<1>8. CASE copies # {}
  <2>1. PICK c \in copies : job'[x].todo = copies \ {c} /\ job'[x].copy = {c} BY <1>3, <1>8
  <2>2. job'[x].now = job[x].now BY <1>3, <1>8
  <2>3. OneOfEach(job'[x]) BY <1>5, <2>1, <2>2 DEF OneOfEach
  <2>4. Fewer(job[x], job'[x]) BY <1>3, <1>4, <1>5, <1>6, <2>2, <2>3 DEF Fewer
  <2>5. \A d \in job[x].copy : ~Has(job'[x], d.id) BY <1>4, <1>5 DEF Has, OneOfEach
  <2>6. QED BY <1>3, <2>4, <2>5
<1>9. QED BY <1>7, <1>8

(* An execution that drops what it has leaves an action as it was, unless it  *)
(* has just sent it: then the row decides.                                   *)
LEMMA DropKeepsOnce ==
  ASSUME NEW x \in Execution, Fewer(job[x], job'[x]),
         \A y \in Execution : y # x => job'[y] = job[y],
         NEW a \in Action, Once(a), UNCHANGED <<posted, repeated>>, excused \subseteq excused',
         a \notin excused' => Ahead(a)'
  PROVE  Once(a)'
<1>1. SUFFICES ASSUME a \notin excused' PROVE Once(a)' BY DEF Once
<1>2. /\ a \notin repeated /\ Alone(a)
      /\ \A y \in Execution : Unsent(job[y], a, posted[a])
  BY <1>1 DEF Once
<1>3. \A y \in Execution : Has(job'[y], a) => Has(job[y], a) BY DEF Fewer, Has
<1>4. Alone(a)' BY <1>2, <1>3 DEF Alone
<1>5. Unsent(job'[x], a, posted[a])
  <2>1. SUFFICES ASSUME Has(job'[x], a) PROVE Unsent(job'[x], a, posted[a]) BY DEF Unsent
  <2>2. job'[x].now = job[x].now /\ ~Sent(job[x], a) BY <2>1 DEF Fewer, Has
  <2>3. QED BY <1>2, <1>3, <2>1, <2>2 DEF Fewer, Unsent
<1>6. \A y \in Execution : Unsent(job'[y], a, posted[a]) BY <1>2, <1>5
<1>7. QED BY <1>1, <1>2, <1>4, <1>6 DEF Once

LEMMA DropKeepsRest ==
  ASSUME NEW x \in Execution, Fewer(job[x], job'[x]),
         \A y \in Execution : y # x => job'[y] = job[y],
         AllOneOfEach, AllUnborn, UNCHANGED posted,
         \A a \in Action : table'[a].status = "none" => table[a].status = "none"
  PROVE  AllOneOfEach' /\ AllUnborn'
<1>1. AllOneOfEach' BY DEF AllOneOfEach, Fewer
<1>2. \A y \in Execution : \A a \in Action : Has(job'[y], a) => Has(job[y], a) BY DEF Fewer, Has
<1>3. AllUnborn' BY <1>2 DEF AllUnborn, Unborn
<1>4. QED BY <1>1, <1>3

(* With the row as it was, and nothing sent that is dropped. *)
LEMMA AheadStays ==
  ASSUME NEW a \in Action, Ahead(a), UNCHANGED posted,
         table'[a].status = "pending" => table[a].status = "pending",
         table'[a].at = table[a].at,
         \A y \in Execution : Sent(job[y], a) => Sent(job'[y], a)
  PROVE  Ahead(a)'
BY DEF Ahead
-----------------------------------------------------------------------------
(* The steps of an execution. *)
LEMMA HeldHas == \A y \in Execution : \A a : a \in Held(y) <=> Has(job[y], a)
BY DEF Held, Has

LEMMA Timed ==
  ASSUME IInv
  PROVE  /\ \A a \in Action : posted[a] \in SUBSET Nat /\ table[a].at \in Nat
         /\ \A x \in Execution : job[x].now \in Nat
<1>1. /\ posted \in [Action -> SUBSET Nat] /\ table \in [Action -> Row]
      /\ job \in [Execution -> Job]
  BY DEF IInv, TypeOK
<1>2. \A a \in Action : table[a].at \in Nat BY <1>1 DEF Row
<1>3. \A x \in Execution : job[x].now \in 0..MaxTime BY <1>1 DEF Job
<1>4. QED BY <1>1, <1>2, <1>3, BoundAssumption

(* An action that is due and that nobody else has was not posted for the time *)
(* in its row.                                                               *)
LEMMA FetchOnce ==
  ASSUME IInv, PInv, NEW x \in Execution, Fetch(x)
  PROVE  PInv'
<1> DEFINE due == {a \in Action : Due(a, job[x].now)}
           copies == {[id |-> a, prompt |-> table[a].prompt, at |-> table[a].at,
                       retries |-> table[a].retries] : a \in due}
<1>1. job \in [Execution -> Job] /\ table \in [Action -> Row] /\ UNCHANGED <<table, posted, repeated>>
  BY DEF Fetch, IInv, TypeOK
<1>2. \A a : ~Sent(job[x], a) BY DEF Fetch, Sent
<1>3. CASE Resume(x, {}) /\ UNCHANGED excused
  <2>1. {} \in SUBSET Copy OBVIOUS
  <2>2. /\ \A y \in Execution : y # x => job'[y] = job[y]
        /\ Fewer(job[x], job'[x])
    BY <1>1, <1>3, <2>1, ResumeLeaves, EmptyFewer
  <2>3. AllOneOfEach' /\ AllUnborn' BY <1>1, <2>2, DropKeepsRest DEF PInv
  <2>4. \A a \in Action : a \notin excused => Ahead(a)'
    <3>1. SUFFICES ASSUME NEW a \in Action, a \notin excused PROVE Ahead(a)' OBVIOUS
    <3>2. Ahead(a) BY <3>1 DEF PInv, AllOnce, Once
    <3>3. \A y \in Execution : Sent(job[y], a) => Sent(job'[y], a) BY <1>2, <2>2
    <3>4. QED BY <1>1, <3>2, <3>3, AheadStays
  <2>5. AllOnce'
    BY <1>1, <1>3, <2>2, <2>4, DropKeepsOnce DEF PInv, AllOnce
  <2>6. QED BY <2>3, <2>5 DEF PInv
<1>4. CASE /\ Resume(x, copies)
           /\ excused' = excused \cup {a \in due : \E y \in Execution \ {x} : a \in Held(y)}
  <2>1. \A a \in Action : table[a].prompt \in BOOLEAN /\ table[a].at \in Nat /\ table[a].retries \in Nat
    BY <1>1 DEF Row
  <2>2. copies \in SUBSET Copy BY <2>1 DEF Copy
  <2>3. \A c \in copies : c.id \in due /\ c.at = table[c.id].at
    OBVIOUS
  <2>4. \A c, d \in copies : c.id = d.id => c = d OBVIOUS
  <2>5. \A a \in due : \E c \in copies : c.id = a
    <3>1. SUFFICES ASSUME NEW a \in due PROVE \E c \in copies : c.id = a OBVIOUS
    <3> DEFINE r == [id |-> a, prompt |-> table[a].prompt, at |-> table[a].at,
                     retries |-> table[a].retries]
    <3>2. r \in copies /\ r.id = a OBVIOUS
    <3>3. QED BY <3>2
  <2>6. Resume(x, copies) BY <1>4
  <2> HIDE DEF copies
  <2>7. /\ \A y \in Execution : y # x => job'[y] = job[y]
        /\ job'[x].at # "mark"
        /\ \/ copies = {} /\ job'[x].todo = {} /\ job'[x].copy = {}
           \/ /\ job'[x].now = job[x].now
              /\ \E c \in copies : job'[x].todo = copies \ {c} /\ job'[x].copy = {c}
    BY <1>1, <2>2, <2>6, ResumeLeaves
  <2>8. /\ job'[x].todo \cup job'[x].copy = copies
        /\ copies # {} => job'[x].now = job[x].now
    BY <2>7
  <2>9. \A a : Has(job'[x], a) <=> a \in due BY <2>3, <2>5, <2>8 DEF Has
  <2>10. \A a : ~Sent(job'[x], a) BY <2>7 DEF Sent
  <2>11. OneOfEach(job'[x])
    <3>1. \A c \in copies : c.at <= job[x].now BY <2>3 DEF Due
    <3>2. CASE copies = {} BY <2>7, <3>2 DEF OneOfEach
    <3>3. CASE copies # {}
      <4>1. PICK c \in copies : job'[x].todo = copies \ {c} /\ job'[x].copy = {c}
        BY <2>7, <3>3
      <4>2. job'[x].now = job[x].now BY <2>8, <3>3
      <4>3. QED BY <2>4, <3>1, <4>1, <4>2 DEF OneOfEach
    <3>4. QED BY <3>2, <3>3
  <2>12. AllOneOfEach' BY <2>7, <2>11 DEF PInv, AllOneOfEach
  <2>13. AllUnborn'
    <3>1. \A a \in Action : table[a].status = "none" => ~Has(job'[x], a) BY <2>9 DEF Due
    <3>2. QED BY <1>1, <2>7, <3>1 DEF PInv, AllUnborn, Unborn
  <2>14. ASSUME NEW a \in Action, a \notin excused' PROVE Once(a)'
    <3>1. a \notin repeated /\ Alone(a) /\ Ahead(a) /\ \A y \in Execution : Unsent(job[y], a, posted[a])
      BY <1>4, <2>14 DEF PInv, AllOnce, Once
    <3>2. Ahead(a)'
      <4>1. \A y \in Execution : Sent(job[y], a) => Sent(job'[y], a) BY <1>2, <2>7
      <4>2. QED BY <1>1, <3>1, <4>1, AheadStays
    <3>3. CASE a \notin due
      <4>1. ~Has(job'[x], a) BY <2>9, <3>3
      <4>2. Alone(a)' BY <2>7, <3>1, <4>1 DEF Alone
      <4>3. \A y \in Execution : Unsent(job'[y], a, posted[a]) BY <2>7, <3>1, <4>1 DEF Unsent
      <4>4. QED BY <1>1, <3>1, <3>2, <4>2, <4>3 DEF Once
    <3>4. CASE a \in due
      <4>1. \A y \in Execution : y # x => ~Has(job[y], a) BY <1>4, <2>14, <3>4, HeldHas
      <4>2. \A y \in Execution : ~Sent(job[y], a) BY <1>2, <4>1 DEF Sent, Has
      <4>3. \A t \in posted[a] : t < table[a].at BY <3>1, <3>4, <4>2 DEF Ahead, Due
      <4>4. table[a].at <= job[x].now BY <3>4 DEF Due
      <4>5. copies # {} BY <2>5, <3>4
      <4>6. posted[a] \in SUBSET Nat /\ table[a].at \in Nat /\ job[x].now \in Nat BY Timed
      <4>7. \A t \in posted[a] : t <= job'[x].now BY <2>8, <4>3, <4>4, <4>5, <4>6
      <4>8. \A c \in copies : c.id = a => c.at \notin posted[a] BY <2>3, <4>3, <4>6
      <4>9. Unsent(job'[x], a, posted[a]) BY <2>8, <4>7, <4>8 DEF Unsent
      <4>10. \A y \in Execution : Unsent(job'[y], a, posted[a]) BY <2>7, <3>1, <4>9
      <4>11. Alone(a)' BY <2>7, <4>1 DEF Alone
      <4>12. QED BY <1>1, <3>1, <3>2, <4>10, <4>11 DEF Once
    <3>5. QED BY <3>3, <3>4
  <2>15. AllOnce' BY <2>14 DEF AllOnce, Once
  <2>16. QED BY <2>12, <2>13, <2>15 DEF PInv
<1>5. QED BY <1>3, <1>4 DEF Fetch

(* Without a send, a mark or a change of the row, the next copy. *)
LEMMA NextKeeps ==
  ASSUME IInv, PInv, NEW x \in Execution, Resume(x, job[x].todo), job[x].at # "mark",
         UNCHANGED <<posted, repeated, excused>>,
         \A a \in Action :
           /\ table'[a].status \in {"none", "pending"} => table'[a].status = table[a].status
           /\ table'[a].at = table[a].at
  PROVE  PInv'
<1>1. job \in [Execution -> Job] /\ OneOfEach(job[x])
  BY DEF IInv, TypeOK, PInv, AllOneOfEach
<1>2. Fewer(job[x], job'[x]) /\ \A y \in Execution : y # x => job'[y] = job[y]
  BY <1>1, NextIsFewer
<1>3. AllOneOfEach' /\ AllUnborn' BY <1>2, DropKeepsRest DEF PInv
<1>4. ASSUME NEW a \in Action, a \notin excused PROVE Ahead(a)'
  <2>1. Ahead(a) BY <1>4 DEF PInv, AllOnce, Once
  <2>2. \A y \in Execution : Sent(job[y], a) => Sent(job'[y], a) BY <1>2 DEF Sent
  <2>3. QED BY <2>1, <2>2, AheadStays
<1>5. AllOnce' BY <1>2, <1>4, DropKeepsOnce DEF PInv, AllOnce
<1>6. QED BY <1>3, <1>5 DEF PInv

LEMMA GenerateOnce ==
  ASSUME IInv, PInv, NEW x \in Execution, Generate(x)
  PROVE  PInv'
<1>1. job \in [Execution -> Job] /\ UNCHANGED <<table, posted, repeated, excused>>
  BY DEF Generate, IInv, TypeOK, observed
<1>2. job[x].at = "generate" BY DEF Generate
<1>3. CASE Goto(x, "send")
  <2>1. "send" \in Busy BY DEF Busy
  <2>2. /\ \A y \in Execution : y # x => job'[y] = job[y]
        /\ job'[x].at = "send" /\ job'[x].todo = job[x].todo /\ job'[x].copy = job[x].copy
        /\ job'[x].now = job[x].now
    BY <1>1, <1>3, <2>1, GotoLeaves
  <2>3. \A y \in Execution : \A a : /\ Has(job'[y], a) <=> Has(job[y], a)
                                    /\ Sent(job'[y], a) <=> Sent(job[y], a)
    BY <1>2, <2>2 DEF Has, Sent
  <2>4. AllOneOfEach' BY <2>2 DEF PInv, AllOneOfEach, OneOfEach
  <2>5. AllUnborn' BY <1>1, <2>3 DEF PInv, AllUnborn, Unborn
  <2>6. ASSUME NEW a \in Action, Once(a) PROVE Once(a)'
    <3>1. Alone(a) => Alone(a)' BY <2>3 DEF Alone
    <3>2. Ahead(a) => Ahead(a)' BY <1>1, <2>3 DEF Ahead
    <3>3. \A y \in Execution : Unsent(job[y], a, posted[a]) => Unsent(job'[y], a, posted[a])
      BY <2>2, <2>3 DEF Unsent
    <3>4. QED BY <1>1, <2>6, <3>1, <3>2, <3>3 DEF Once
  <2>7. QED BY <2>4, <2>5, <2>6 DEF PInv, AllOnce
<1>4. CASE GiveUp(x) BY <1>1, <1>2, <1>4, NextKeeps DEF GiveUp
<1>5. QED BY <1>3, <1>4 DEF Generate

(* What is sent was not posted for its time, because nobody else could, and   *)
(* no earlier attempt, or it is excused.                                      *)
LEMMA SendOnce ==
  ASSUME IInv, PInv, NEW x \in Execution, Send(x)
  PROVE  PInv'
<1>1. job \in [Execution -> Job] /\ posted \in [Action -> SUBSET Nat] /\ UNCHANGED table
  BY DEF Send, IInv, TypeOK
<1>2. job[x].at = "send" BY DEF Send
<1>3. PICK c \in job[x].copy :
        \/ Appear(c) /\ Goto(x, "mark") /\ UNCHANGED excused
        \/ Appear(c) /\ Goto(x, "failure") /\ excused' = excused \cup {c.id}
        \/ /\ Goto(x, "mark") \/ Goto(x, "failure")
           /\ UNCHANGED <<posted, repeated, excused>>
  BY DEF Send
<1>4. c.id \in Action BY <1>1 DEF Job, Copy
<1>5. \A d \in job[x].copy : d = c BY DEF IInv, AllHonest, Honest
<1>6. /\ \A y \in Execution : y # x => job'[y] = job[y]
      /\ job'[x].at \in {"mark", "failure"}
      /\ job'[x].todo = job[x].todo /\ job'[x].copy = job[x].copy /\ job'[x].now = job[x].now
  <2>1. "mark" \in Busy /\ "failure" \in Busy BY DEF Busy
  <2>2. QED BY <1>1, <1>3, <2>1, GotoLeaves
<1>7. \A y \in Execution : \A a : /\ Has(job'[y], a) <=> Has(job[y], a)
                                  /\ Sent(job[y], a) => Sent(job'[y], a)
  BY <1>2, <1>6 DEF Has, Sent
<1>8. Has(job[x], c.id) /\ ~Sent(job[x], c.id) BY <1>2 DEF Has, Sent
<1>9. AllOneOfEach' BY <1>6 DEF PInv, AllOneOfEach, OneOfEach
<1>10. AllUnborn'
  <2>1. table[c.id].status # "none" BY <1>4, <1>8 DEF PInv, AllUnborn, Unborn
  <2>2. \A a \in Action : a # c.id => posted'[a] = posted[a] BY <1>1, <1>3 DEF Appear
  <2>3. QED BY <1>1, <1>7, <2>1, <2>2 DEF PInv, AllUnborn, Unborn
<1>11. ASSUME NEW a \in Action, a \notin excused' PROVE Once(a)'
  <2>a. a \notin excused BY <1>3, <1>11
  <2>1. a \notin repeated /\ Alone(a) /\ Ahead(a) /\ \A y \in Execution : Unsent(job[y], a, posted[a])
    BY <2>a DEF PInv, AllOnce, Once
  <2>2. Alone(a)' BY <1>7, <2>1 DEF Alone
  <2>3. \A y \in Execution : Unsent(job'[y], a, posted[a])
    BY <1>6, <1>7, <2>1 DEF Unsent
  <2>4. CASE UNCHANGED <<posted, repeated>> \/ a # c.id
    <3>1. posted'[a] = posted[a] /\ a \notin repeated' BY <1>1, <1>3, <2>1, <2>4 DEF Appear
    <3>2. Ahead(a)' BY <1>1, <1>7, <2>1, <3>1 DEF Ahead
    <3>3. QED BY <2>2, <2>3, <3>1, <3>2 DEF Once
  <2>5. CASE a = c.id /\ Appear(c) /\ Goto(x, "mark")
    <3>1. c.at \notin posted[a] /\ \A t \in posted[a] : t <= job[x].now
      BY <1>8, <2>1, <2>5 DEF Unsent
    <3>2. a \notin repeated' BY <2>1, <2>5, <3>1 DEF Appear
    <3>3. job'[x].at = "mark"
      <4>1. "mark" \in Busy BY DEF Busy
      <4>2. QED BY <1>1, <2>5, <4>1, GotoLeaves
    <3>4. Sent(job'[x], a) BY <1>6, <2>5, <3>3 DEF Sent
    <3>5. Ahead(a)' BY <3>4 DEF Ahead
    <3>6. c.at <= job[x].now BY DEF PInv, AllOneOfEach, OneOfEach
    <3>7. posted'[a] = posted[a] \cup {c.at} BY <1>1, <1>4, <2>5 DEF Appear
    <3>8. Unsent(job'[x], a, posted'[a]) BY <1>6, <3>1, <3>4, <3>6, <3>7 DEF Unsent
    <3>9. \A y \in Execution : y # x => ~Has(job'[y], a) BY <1>7, <1>8, <2>1, <2>5 DEF Alone
    <3>10. \A y \in Execution : Unsent(job'[y], a, posted'[a]) BY <3>8, <3>9 DEF Unsent
    <3>11. QED BY <2>2, <3>2, <3>5, <3>10 DEF Once
  <2>6. QED BY <1>3, <1>11, <2>4, <2>5
<1>12. AllOnce' BY <1>11 DEF AllOnce, Once
<1>13. QED BY <1>9, <1>10, <1>12 DEF PInv

(* A refusal leaves the time of the row and opens nothing. *)
LEMMA CountFailureOnce ==
  ASSUME IInv, PInv, NEW x \in Execution, CountFailure(x)
  PROVE  PInv'
<1>1. job[x] \in Job /\ table \in [Action -> Row] BY DEF IInv, TypeOK
<1>2. \A a \in Action :
        /\ table'[a].status \in {"none", "pending"} => table'[a].status = table[a].status
        /\ table'[a].at = table[a].at
  <2>1. CASE UNCHANGED table BY <2>1
  <2>2. CASE ~ UNCHANGED table
    <3>1. PICK c \in job[x].copy :
            table' = [table EXCEPT ![c.id].retries = c.retries + 1,
                        ![c.id].status = IF TooMany(c.retries + 1) THEN "failed" ELSE @]
      BY <2>2 DEF CountFailure
    <3>2. c.id \in Action BY <1>1 DEF Job, Copy
    <3> DEFINE status == IF TooMany(c.retries + 1) THEN "failed" ELSE table[c.id].status
               r == [table[c.id] EXCEPT !.retries = c.retries + 1, !.status = status]
    <3>3. table' = [table EXCEPT ![c.id] = r] BY <3>1
    <3>4. status \in {"none", "pending"} => status = table[c.id].status OBVIOUS
    <3> HIDE DEF status
    <3>5. table[c.id] \in Row BY <1>1, <3>2
    <3>6. r.status = status /\ r.at = table[c.id].at BY <3>5 DEF Row
    <3> HIDE DEF r
    <3>7. \A a \in Action : a # c.id => table'[a] = table[a] BY <1>1, <3>3
    <3>8. table'[c.id] = r BY <1>1, <3>2, <3>3
    <3>9. QED BY <3>4, <3>6, <3>7, <3>8
  <2>3. QED BY <2>1, <2>2
<1>3. Resume(x, job[x].todo) /\ job[x].at # "mark" BY DEF CountFailure
<1>4. UNCHANGED <<posted, repeated, excused>> BY DEF CountFailure, observed
<1>5. QED BY <1>2, <1>3, <1>4, NextKeeps

(* A row that is marked moves ahead of everything posted, or is closed; when  *)
(* it cannot be marked the action is excused.                                *)
LEMMA MarkOnce ==
  ASSUME IInv, PInv, NEW x \in Execution, Mark(x)
  PROVE  PInv'
<1>1. /\ job \in [Execution -> Job] /\ table \in [Action -> Row] /\ OneOfEach(job[x])
      /\ UNCHANGED <<posted, repeated>>
  BY DEF Mark, IInv, TypeOK, PInv, AllOneOfEach
<1>2. PICK c \in job[x].copy :
        \/ /\ excused' = excused \cup {c.id}
           /\ UNCHANGED table
        \/ /\ IF ~Exists(c.id) THEN UNCHANGED table
              ELSE IF table[c.id].recurring
              THEN \E t \in NextTime(job[x].now) : table' = [table EXCEPT ![c.id].at = t]
              ELSE table' = [table EXCEPT ![c.id].status = "executed"]
           /\ UNCHANGED excused
  BY DEF Mark
<1>3. c.id \in Action /\ Has(job[x], c.id) /\ Sent(job[x], c.id)
  BY <1>1 DEF Job, Copy, Mark, Has, Sent
<1>4. \A d \in job[x].copy : d = c BY DEF IInv, AllHonest, Honest
<1>5. /\ Fewer(job[x], job'[x])
      /\ \A y \in Execution : y # x => job'[y] = job[y]
  BY <1>1, NextIsFewer DEF Mark
<1>6. \A a \in Action : a # c.id => ~Sent(job[x], a) BY <1>4 DEF Sent
<1>7. /\ \A a \in Action : a # c.id => table'[a] = table[a]
      /\ \/ table'[c.id] = table[c.id] /\ (~Exists(c.id) \/ c.id \in excused')
         \/ /\ table'[c.id].status = table[c.id].status
            /\ \E t \in NextTime(job[x].now) : table'[c.id].at = t
         \/ table'[c.id].status = "executed"
  <2>1. table[c.id] \in Row BY <1>1, <1>3
  <2>2. CASE UNCHANGED table /\ (~Exists(c.id) \/ c.id \in excused') BY <2>2
  <2>3. CASE \E t \in NextTime(job[x].now) : table' = [table EXCEPT ![c.id].at = t]
    <3>1. PICK t \in NextTime(job[x].now) : table' = [table EXCEPT ![c.id].at = t] BY <2>3
    <3> DEFINE r == [table[c.id] EXCEPT !.at = t]
    <3>2. r.at = t /\ r.status = table[c.id].status BY <2>1 DEF Row
    <3>3. table' = [table EXCEPT ![c.id] = r] BY <3>1
    <3> HIDE DEF r
    <3>4. table'[c.id] = r /\ \A a \in Action : a # c.id => table'[a] = table[a]
      BY <1>1, <1>3, <3>3
    <3>5. QED BY <3>2, <3>4
  <2>4. CASE table' = [table EXCEPT ![c.id].status = "executed"]
    <3> DEFINE r == [table[c.id] EXCEPT !.status = "executed"]
    <3>1. r.status = "executed" BY <2>1 DEF Row
    <3>2. table' = [table EXCEPT ![c.id] = r] BY <2>4
    <3> HIDE DEF r
    <3>3. table'[c.id] = r /\ \A a \in Action : a # c.id => table'[a] = table[a]
      BY <1>1, <1>3, <3>2
    <3>4. QED BY <3>1, <3>3
  <2>5. QED BY <1>2, <2>2, <2>3, <2>4
<1>8. \A a \in Action : table'[a].status = "none" => table[a].status = "none"
  BY <1>7
<1>9. AllOneOfEach' /\ AllUnborn' BY <1>1, <1>5, <1>8, DropKeepsRest DEF PInv
<1>10. excused \subseteq excused' BY <1>2
<1>11. ASSUME NEW a \in Action, a \notin excused' PROVE Ahead(a)'
  <2>1. Ahead(a) /\ \A y \in Execution : Unsent(job[y], a, posted[a])
    BY <1>10, <1>11 DEF PInv, AllOnce, Once
  <2>2. CASE a # c.id
    <3>1. \A y \in Execution : Sent(job[y], a) => Sent(job'[y], a) BY <1>5, <1>6, <2>2
    <3>2. QED BY <1>1, <1>7, <2>1, <2>2, <3>1, AheadStays
  <2>3. CASE a = c.id
    <3>1. \A t \in posted[a] : t <= job[x].now BY <1>3, <2>1, <2>3 DEF Unsent
    <3>2. posted[a] \in SUBSET Nat /\ job[x].now \in Nat BY Timed
    <3>3. CASE \E t \in NextTime(job[x].now) : table'[a].at = t
      <4>1. \E o \in Nat : table'[a].at = job[x].now + 1 + o
        BY <3>2, <3>3, LimitAssumption DEF NextTime, Offset
      <4>2. \A t \in posted[a] : t < table'[a].at BY <3>1, <3>2, <4>1
      <4>3. QED BY <1>1, <4>2 DEF Ahead
    <3>4. CASE table'[a].status \in {"none", "deleted", "executed"} BY <3>4 DEF Ahead
    <3>5. QED BY <1>7, <1>11, <2>3, <3>3, <3>4 DEF Exists
  <2>4. QED BY <2>2, <2>3
<1>12. AllOnce' BY <1>1, <1>5, <1>10, <1>11, DropKeepsOnce DEF PInv, AllOnce
<1>13. QED BY <1>9, <1>12 DEF PInv

LEMMA StartOnce ==
  ASSUME IInv, PInv, NEW x \in Execution, NEW cron \in BOOLEAN, Start(x, cron)
  PROVE  PInv'
<1> DEFINE j == [Idle EXCEPT !.at = "fetch", !.cron = cron, !.now = clock]
<1>1. job \in [Execution -> Job] /\ clock \in 0..MaxTime BY DEF IInv, TypeOK
<1>2. j.at = "fetch" /\ j.copy = {} /\ j.todo = {} BY <1>1, IdleFacts
<1>3. job' = [job EXCEPT ![x] = j] BY DEF Start
<1> HIDE DEF j
<1>4. job'[x] = j /\ \A y \in Execution : y # x => job'[y] = job[y] BY <1>1, <1>3
<1>5. Fewer(job[x], job'[x]) BY <1>2, <1>4, EmptyFewer
<1>6. UNCHANGED <<table, posted, repeated, excused>> BY DEF Start, observed
<1>7. AllOneOfEach' /\ AllUnborn' BY <1>4, <1>5, <1>6, DropKeepsRest DEF PInv
<1>8. \A a : ~Sent(job[x], a) BY DEF Start, Sent
<1>9. ASSUME NEW a \in Action, a \notin excused PROVE Ahead(a)'
  <2>1. Ahead(a) BY <1>9 DEF PInv, AllOnce, Once
  <2>2. QED BY <1>4, <1>6, <1>8, <2>1, AheadStays
<1>10. AllOnce' BY <1>4, <1>5, <1>6, <1>9, DropKeepsOnce DEF PInv, AllOnce
<1>11. QED BY <1>7, <1>10 DEF PInv

(* Moving an action forgets what was posted; every other write closes it. *)
LEMMA WriteOnce ==
  ASSUME IInv, PInv, NEW a \in Action, Write(a)
  PROVE  PInv'
<1>1. table \in [Action -> Row] /\ posted \in [Action -> SUBSET Nat] BY DEF IInv, TypeOK
<1>2. UNCHANGED <<job, repeated, excused>> BY DEF Write, Update, Create, Cancel, Delete, observed
<1>3. /\ \A b \in Action : b # a => table'[b] = table[b] /\ posted'[b] = posted[b]
      /\ table'[a].status # "none"
      /\ \/ posted'[a] = {}
         \/ posted'[a] = posted[a] /\ table'[a].status # "pending"
  <2>1. ASSUME NEW t \in 0..MaxTime, Update(a, t)
        PROVE  /\ \A b \in Action : b # a => table'[b] = table[b] /\ posted'[b] = posted[b]
               /\ table'[a].status # "none" /\ posted'[a] = {}
    <3> DEFINE r == [table[a] EXCEPT !.at = t, !.status = "pending"]
    <3>1. r.status = "pending" BY <1>1 DEF Row
    <3>2. table' = [table EXCEPT ![a] = r] BY <2>1 DEF Update
    <3> HIDE DEF r
    <3>3. QED BY <1>1, <2>1, <3>1, <3>2 DEF Update
  <2>2. ASSUME NEW t \in 0..MaxTime, NEW recurring \in BOOLEAN, NEW prompt \in BOOLEAN,
               Create(a, t, recurring, prompt)
        PROVE  /\ \A b \in Action : b # a => table'[b] = table[b] /\ posted'[b] = posted[b]
               /\ table'[a].status # "none" /\ posted'[a] = {}
    <3> DEFINE r == [NoRow EXCEPT !.status = "pending", !.recurring = recurring,
                                  !.prompt = prompt, !.at = t]
    <3>1. r.status = "pending" BY DEF NoRow
    <3>2. table' = [table EXCEPT ![a] = r] BY <2>2 DEF Create
    <3> HIDE DEF r
    <3>3. table'[a].status = "pending" /\ \A b \in Action : b # a => table'[b] = table[b]
      BY <1>1, <3>1, <3>2
    <3>4. posted[a] = {} BY <2>2 DEF Create, PInv, AllUnborn, Unborn
    <3>5. posted' = posted BY <2>2 DEF Create, observed
    <3>6. QED BY <3>3, <3>4, <3>5
  <2>3. ASSUME Cancel(a)
        PROVE  /\ \A b \in Action : b # a => table'[b] = table[b] /\ posted'[b] = posted[b]
               /\ posted'[a] = posted[a] /\ table'[a].status = "cancelled"
    <3> DEFINE r == [table[a] EXCEPT !.status = "cancelled"]
    <3>1. r.status = "cancelled" BY <1>1 DEF Row
    <3>2. table' = [table EXCEPT ![a] = r] BY <2>3 DEF Cancel
    <3> HIDE DEF r
    <3>3. posted' = posted BY <2>3 DEF Cancel, observed
    <3>4. QED BY <1>1, <3>1, <3>2, <3>3
  <2>4. ASSUME Delete(a)
        PROVE  /\ \A b \in Action : b # a => table'[b] = table[b] /\ posted'[b] = posted[b]
               /\ posted'[a] = posted[a] /\ table'[a].status = "deleted"
    <3> DEFINE r == [NoRow EXCEPT !.status = "deleted"]
    <3>1. r.status = "deleted" BY DEF NoRow
    <3>2. table' = [table EXCEPT ![a] = r] BY <2>4 DEF Delete
    <3> HIDE DEF r
    <3>3. posted' = posted BY <2>4 DEF Delete, observed
    <3>4. QED BY <1>1, <3>1, <3>2, <3>3
  <2>5. QED BY <2>1, <2>2, <2>3, <2>4 DEF Write
<1>4. AllOneOfEach' BY <1>2 DEF PInv, AllOneOfEach
<1>5. AllUnborn' BY <1>2, <1>3 DEF PInv, AllUnborn, Unborn
<1>6. ASSUME NEW b \in Action, b \notin excused PROVE Once(b)'
  <2>1. b \notin repeated /\ Alone(b) /\ Ahead(b) /\ \A y \in Execution : Unsent(job[y], b, posted[b])
    BY <1>6 DEF PInv, AllOnce, Once
  <2>2. Alone(b)' BY <1>2, <2>1 DEF Alone
  <2>3. CASE b # a
    BY <1>2, <1>3, <2>1, <2>2, <2>3 DEF Once, Ahead
  <2>4. CASE b = a
    <3>1. Ahead(a)' BY <1>3 DEF Ahead
    <3>2. \A y \in Execution : Unsent(job[y], a, posted'[a]) BY <1>3, <2>1, <2>4 DEF Unsent
    <3>3. QED BY <1>2, <2>1, <2>2, <2>4, <3>1, <3>2 DEF Once
  <2>5. QED BY <2>3, <2>4
<1>7. AllOnce' BY <1>2, <1>6 DEF AllOnce, Once
<1>8. QED BY <1>4, <1>5, <1>7 DEF PInv

(* What was sent and not marked when the process ends is excused. *)
LEMMA EndOnce == IInv /\ PInv /\ End => PInv'
<1>1. SUFFICES ASSUME IInv, PInv, End PROVE PInv' OBVIOUS
<1>2. \A x \in Execution : job'[x] = Idle BY <1>1 DEF End
<1>3. \A x \in Execution : \A a : ~Has(job'[x], a) /\ ~Sent(job'[x], a)
  BY <1>2, IdleFacts DEF Has, Sent
<1>4. UNCHANGED <<table, posted, repeated>> BY <1>1 DEF End
<1>5. AllOneOfEach' BY <1>2, IdleFacts DEF AllOneOfEach, OneOfEach
<1>6. AllUnborn' BY <1>1, <1>3, <1>4 DEF PInv, AllUnborn, Unborn
<1>7. ASSUME NEW a \in Action, a \notin excused' PROVE Once(a)'
  <2>1. a \notin excused BY <1>1, <1>7 DEF End
  <2>2. \A x \in Execution : ~Sent(job[x], a)
    <3>1. SUFFICES ASSUME NEW x \in Execution, Sent(job[x], a) PROVE FALSE OBVIOUS
    <3>2. PICK c \in job[x].copy : c.id = a BY <3>1 DEF Sent
    <3>3. x \in {y \in Execution : job[y].at = "mark"} BY <3>1 DEF Sent
    <3>4. a \in UNION {{d.id : d \in job[y].copy} : y \in {z \in Execution : job[z].at = "mark"}}
      BY <3>2, <3>3
    <3>5. QED BY <1>1, <1>7, <3>4 DEF End
  <2>3. a \notin repeated /\ Ahead(a) BY <1>1, <2>1 DEF PInv, AllOnce, Once
  <2>4. Ahead(a)' BY <1>4, <2>2, <2>3 DEF Ahead
  <2>5. QED BY <1>3, <1>4, <2>3, <2>4 DEF Once, Alone, Unsent
<1>8. AllOnce' BY <1>7 DEF AllOnce, Once
<1>9. QED BY <1>5, <1>6, <1>8 DEF PInv

LEMMA OnceInit == Init => PInv
<1>1. SUFFICES ASSUME Init PROVE PInv OBVIOUS
<1>2. \A x \in Execution : job[x] = Idle BY <1>1 DEF Init
<1>3. \A x \in Execution : \A a : ~Has(job[x], a) BY <1>2, IdleFacts DEF Has
<1>4. AllOneOfEach BY <1>2, IdleFacts DEF AllOneOfEach, OneOfEach
<1>5. \A a \in Action : posted[a] = {} BY <1>1 DEF Init
<1>6. AllUnborn BY <1>3, <1>5 DEF AllUnborn, Unborn
<1>7. AllOnce BY <1>1, <1>3, <1>5 DEF Init, AllOnce, Once, Alone, Ahead, Unsent
<1>8. QED BY <1>4, <1>6, <1>7 DEF PInv

LEMMA Unmoved ==
  ASSUME PInv, UNCHANGED <<table, job, posted, repeated, excused>>
  PROVE  PInv'
BY DEF PInv, AllOneOfEach, AllOnce, AllUnborn, Once, Alone, Ahead, Unborn

LEMMA OnceStep == IInv /\ PInv /\ [Next]_vars => PInv'
<1>1. SUFFICES ASSUME IInv, PInv, [Next]_vars PROVE PInv' OBVIOUS
<1>2. CASE UNCHANGED vars BY <1>1, <1>2, Unmoved DEF vars, observed
<1>3. CASE Tick \/ Stop \/ Boot
  BY <1>1, <1>3, Unmoved DEF Tick, Stop, Boot, observed
<1>4. CASE \E a \in Action : Write(a) BY <1>1, <1>4, WriteOnce
<1>5. CASE \E x \in Execution, cron \in BOOLEAN : Start(x, cron) BY <1>1, <1>5, StartOnce
<1>6. CASE \E x \in Execution : Execute(x)
  BY <1>1, <1>6, FetchOnce, GenerateOnce, SendOnce, CountFailureOnce, MarkOnce DEF Execute
<1>7. CASE End BY <1>1, <1>7, EndOnce
<1>8. QED BY <1>1, <1>2, <1>3, <1>4, <1>5, <1>6, <1>7 DEF Next

(* Only a send posts, and what it has of an action that is not excused was    *)
(* not posted for its time.                                                   *)
LEMMA NoRepetition ==
  ASSUME IInv, PInv, PostedOnce, [Next]_vars
  PROVE  PostedOnce'
<1>1. ASSUME NEW x \in Execution, Send(x) PROVE repeated' = repeated
  <2>1. PICK c \in job[x].copy : Appear(c) \/ UNCHANGED repeated BY <1>1 DEF Send
  <2>2. ASSUME c.id \notin excused PROVE c.at \notin posted[c.id]
    <3>1. c.id \in Action BY DEF IInv, TypeOK, Job, Copy
    <3>2. Has(job[x], c.id) /\ ~Sent(job[x], c.id) BY <1>1 DEF Send, Has, Sent
    <3>3. QED BY <2>2, <3>1, <3>2 DEF PInv, AllOnce, Once, Unsent
  <2>3. QED BY <2>1, <2>2 DEF Appear
<1>2. CASE \E x \in Execution : Execute(x)
  BY <1>1, <1>2 DEF Execute, Fetch, Generate, CountFailure, Mark, observed, PostedOnce
<1>3. CASE \E a \in Action : Write(a)
  BY <1>3 DEF Write, Update, Create, Cancel, Delete, observed, PostedOnce
<1>4. CASE ~\E x \in Execution : Execute(x)
  BY <1>3, <1>4 DEF Next, Tick, Start, Stop, End, Boot, vars, observed, PostedOnce
<1>5. QED BY <1>2, <1>4

(* An action is not posted twice for the same time, whatever executions,       *)
(* retries, edits, stops and crashes interleave, unless two executions had it   *)
(* at once (task.go reads and marks without a lock), it could not be marked, or *)
(* a send posted something and returned an error all the same.                 *)
THEOREM NotPostedTwice == Spec => []PostedOnce
<1>1. Init => IInv /\ PInv /\ PostedOnce BY InvInit, OnceInit DEF Init, PostedOnce
<1>2. IInv /\ PInv /\ PostedOnce /\ [Next]_vars => (IInv /\ PInv /\ PostedOnce)'
  BY InvStep, OnceStep, NoRepetition
<1>3. QED BY <1>1, <1>2, PTL DEF Spec
-----------------------------------------------------------------------------
(* What is left to do for an execution: the steps of the copy at hand, three  *)
(* for every copy behind it; before the fetch, three for every action.        *)
StepsOf(step) ==
  IF step = "generate" THEN 3 ELSE IF step = "send" THEN 2
  ELSE IF step \in {"failure", "mark"} THEN 1 ELSE 0
Left(x) ==
  IF job[x].at = "fetch" THEN 3 * Cardinality(Action) + 1
  ELSE 3 * Cardinality(job[x].todo) + StepsOf(job[x].at)

(* Only a step of its own, or the end of the process, brings an execution     *)
(* nearer to its end, and nothing takes it further away.                      *)
ExecutionsEnd ==
  [][\A x \in Execution :
       job[x].at # "idle" => \/ Left(x)' < Left(x)
                             \/ Left(x)' = Left(x) /\ ~Execute(x)]_vars

(* While the process lives, a copy waits until it is at hand, and stays at    *)
(* hand until it was sent, suppressed or refused, by the LLM or by Discord.   *)
EachGetsItsTurn ==
  [][process' # "down" =>
       \A x \in Execution :
         /\ job[x].todo \subseteq job'[x].todo \cup job'[x].copy
         /\ job[x].at \notin {"generate", "failure", "mark"}
              => job[x].copy \subseteq job'[x].copy]_vars

(* An execution that does nothing holds no copies, and none holds infinitely many. *)
Tidy ==
  \A x \in Execution :
    /\ job[x].at \in {"idle", "fetch"} => job[x].todo = {}
    /\ IsFiniteSet(job[x].todo)

LEMMA StepsRange == \A step : StepsOf(step) \in 0..3
BY DEF StepsOf

LEMMA LeftNat ==
  ASSUME Tidy, NEW x \in Execution
  PROVE  /\ Left(x) \in Nat /\ Cardinality(job[x].todo) \in Nat
         /\ Cardinality(Action) \in Nat
<1>1. Cardinality(job[x].todo) \in Nat /\ Cardinality(Action) \in Nat
  BY FS_CardinalityType, ActionAssumption DEF Tidy
<1>2. StepsOf(job[x].at) \in 0..3 BY StepsRange
<1>3. QED BY <1>1, <1>2 DEF Left

(* What Resume leaves to do: three steps for each of the copies at most. *)
LEMMA ResumeCosts ==
  ASSUME NEW x \in Execution, NEW copies \in SUBSET Copy, job \in [Execution -> Job],
         IsFiniteSet(copies), Resume(x, copies)
  PROVE  /\ \A y \in Execution : y # x => job'[y] = job[y]
         /\ copies = job'[x].todo \cup job'[x].copy
         /\ IsFiniteSet(job'[x].todo)
         /\ job'[x].at \in {"idle", "fetch"} => job'[x].todo = {}
         /\ Left(x)' \in Nat /\ Left(x)' <= 3 * Cardinality(copies)
<1>1. CASE copies = {}
  <2>1. job' = [job EXCEPT ![x] = Idle] BY <1>1 DEF Resume
  <2>2. job'[x] = Idle /\ \A y \in Execution : y # x => job'[y] = job[y] BY <2>1
  <2>3. Cardinality(copies) = 0 /\ IsFiniteSet({}) /\ Cardinality({}) = 0 BY <1>1, FS_EmptySet
  <2>4. StepsOf("idle") = 0 BY DEF StepsOf
  <2>5. job'[x].at = "idle" /\ job'[x].todo = {} /\ job'[x].copy = {} BY <2>2 DEF Idle
  <2>6. Left(x)' = 0 BY <2>3, <2>4, <2>5 DEF Left
  <2>7. QED BY <1>1, <2>2, <2>3, <2>5, <2>6
<1>2. CASE copies # {}
  <2>1. PICK c \in copies :
          job' = [job EXCEPT ![x].at = IF c.prompt THEN "generate" ELSE "send",
                             ![x].todo = copies \ {c}, ![x].copy = {c}]
    BY <1>2 DEF Resume
  <2> DEFINE step == IF c.prompt THEN "generate" ELSE "send"
             k == [job[x] EXCEPT !.at = step, !.todo = copies \ {c}, !.copy = {c}]
  <2>2. step \in {"generate", "send"} OBVIOUS
  <2>3. k.at = step /\ k.todo = copies \ {c} /\ k.copy = {c} BY DEF Job
  <2>4. job' = [job EXCEPT ![x] = k] BY <2>1
  <2> HIDE DEF k, step
  <2>5. job'[x] = k /\ \A y \in Execution : y # x => job'[y] = job[y] BY <2>4
  <2>6. /\ Cardinality(copies) \in Nat
        /\ IsFiniteSet(copies \ {c}) /\ Cardinality(copies \ {c}) = Cardinality(copies) - 1
    BY FS_CardinalityType, FS_RemoveElement
  <2>7. Cardinality(copies \ {c}) \in Nat BY <2>6, FS_CardinalityType
  <2>8. Left(x)' = 3 * Cardinality(copies \ {c}) + StepsOf(step)
    BY <2>2, <2>3, <2>5 DEF Left
  <2>9. StepsOf(step) \in 0..3 BY StepsRange
  <2>10. Left(x)' \in Nat /\ Left(x)' <= 3 * Cardinality(copies)
    BY <2>6, <2>7, <2>8, <2>9
  <2>11. QED BY <2>2, <2>3, <2>5, <2>6, <2>10
<1>3. QED BY <1>1, <1>2

(* A step from one stage of a copy to a later one. *)
LEMMA GotoCosts ==
  ASSUME NEW x \in Execution, job \in [Execution -> Job], Tidy, NEW step \in Busy,
         Goto(x, step), job[x].at \in Busy, StepsOf(step) < StepsOf(job[x].at)
  PROVE  Left(x)' < Left(x)
<1>1. job'[x].at = step /\ job'[x].todo = job[x].todo BY GotoLeaves
<1>2. StepsOf(step) \in 0..3 /\ StepsOf(job[x].at) \in 0..3 BY StepsRange
<1>3. /\ Left(x)' = 3 * Cardinality(job[x].todo) + StepsOf(step)
      /\ Left(x) = 3 * Cardinality(job[x].todo) + StepsOf(job[x].at)
  BY <1>1 DEF Left, Busy
<1>4. QED BY <1>2, <1>3, LeftNat

(* What a step of an execution does to its copies. *)
Turn(x) ==
  /\ Left(x)' < Left(x)
  /\ job[x].todo \subseteq job'[x].todo \cup job'[x].copy
  /\ job[x].at \notin {"generate", "failure", "mark"} => job[x].copy \subseteq job'[x].copy
  /\ IsFiniteSet(job'[x].todo)
  /\ job'[x].at \in {"idle", "fetch"} => job'[x].todo = {}
  /\ \A y \in Execution : y # x => job'[y] = job[y]

LEMMA FetchTurn ==
  ASSUME IInv, Tidy, NEW x \in Execution, Fetch(x)
  PROVE  Turn(x)
<1> DEFINE due == {a \in Action : Due(a, job[x].now)}
           copyOf == [a \in due |-> [id |-> a, prompt |-> table[a].prompt, at |-> table[a].at,
                                     retries |-> table[a].retries]]
           copies == {[id |-> a, prompt |-> table[a].prompt, at |-> table[a].at,
                       retries |-> table[a].retries] : a \in due}
<1>1. job \in [Execution -> Job] /\ table \in [Action -> Row] BY DEF IInv, TypeOK
<1>2. copies \in SUBSET Copy BY <1>1 DEF Row, Copy
<1>3. IsFiniteSet(due) /\ Cardinality(due) <= Cardinality(Action) /\ Cardinality(due) \in Nat
  BY ActionAssumption, FS_Subset, FS_CardinalityType
<1>4. copyOf \in Surjection(due, copies) BY DEF Surjection
<1>5. IsFiniteSet(copies) /\ Cardinality(copies) <= Cardinality(due)
  BY <1>3, <1>4, FS_Surjection
<1>6. Resume(x, copies) \/ Resume(x, {}) BY DEF Fetch
<1>7. job[x].at = "fetch" /\ job[x].todo = {} /\ job[x].copy = {}
  BY DEF Fetch, Tidy, IInv, TypeOK, Busy
<1> HIDE DEF copies, copyOf, due
<1>8. PICK S \in SUBSET Copy : /\ Resume(x, S) /\ IsFiniteSet(S)
                               /\ Cardinality(S) <= Cardinality(Action)
  <2>1. CASE Resume(x, copies)
    <3>1. Cardinality(copies) \in Nat /\ Cardinality(Action) \in Nat
      BY <1>5, ActionAssumption, FS_CardinalityType
    <3>2. QED BY <1>2, <1>3, <1>5, <2>1, <3>1
  <2>2. CASE Resume(x, {})
    <3>1. IsFiniteSet({}) /\ Cardinality({}) = 0 BY FS_EmptySet
    <3>2. QED BY <2>2, <3>1, LeftNat
  <2>3. QED BY <1>6, <2>1, <2>2
<1>9. /\ \A y \in Execution : y # x => job'[y] = job[y]
      /\ IsFiniteSet(job'[x].todo)
      /\ job'[x].at \in {"idle", "fetch"} => job'[x].todo = {}
      /\ Left(x)' \in Nat /\ Left(x)' <= 3 * Cardinality(S)
  BY <1>1, <1>8, ResumeCosts
<1>10. Cardinality(S) \in Nat /\ Cardinality(Action) \in Nat
  BY <1>8, ActionAssumption, FS_CardinalityType
<1>11. Left(x) = 3 * Cardinality(Action) + 1 BY <1>7 DEF Left
<1>12. Left(x)' < Left(x) BY <1>8, <1>9, <1>10, <1>11
<1>13. QED BY <1>7, <1>9, <1>12 DEF Turn

(* On to the next copy, after the LLM refused, a refusal or a mark. *)
LEMMA NextTurn ==
  ASSUME IInv, Tidy, NEW x \in Execution, job[x].at \in {"generate", "failure", "mark"},
         Resume(x, job[x].todo)
  PROVE  Turn(x)
<1> DEFINE copies == job[x].todo
<1>1. job \in [Execution -> Job] BY DEF IInv, TypeOK
<1>2. copies \in SUBSET Copy /\ IsFiniteSet(copies) BY <1>1 DEF Job, Tidy
<1>3. Resume(x, copies) OBVIOUS
<1>4. Cardinality(copies) \in Nat BY LeftNat
<1>5. StepsOf(job[x].at) \in 0..3 /\ StepsOf(job[x].at) # 0
  BY StepsRange DEF StepsOf
<1>6. Left(x) = 3 * Cardinality(copies) + StepsOf(job[x].at) BY DEF Left
<1> HIDE DEF copies
<1>7. /\ \A y \in Execution : y # x => job'[y] = job[y]
      /\ copies = job'[x].todo \cup job'[x].copy
      /\ IsFiniteSet(job'[x].todo)
      /\ job'[x].at \in {"idle", "fetch"} => job'[x].todo = {}
      /\ Left(x)' \in Nat /\ Left(x)' <= 3 * Cardinality(copies)
  BY <1>1, <1>2, <1>3, ResumeCosts
<1>8. Left(x)' < Left(x) BY <1>4, <1>5, <1>6, <1>7
<1>9. QED BY <1>7, <1>8 DEF Turn, copies

(* On to the next step of the copy at hand. *)
LEMMA GotoTurn ==
  ASSUME IInv, Tidy, NEW x \in Execution, NEW step \in Busy, Goto(x, step),
         job[x].at \in Busy, StepsOf(step) < StepsOf(job[x].at)
  PROVE  Turn(x)
<1>1. job \in [Execution -> Job] BY DEF IInv, TypeOK
<1>2. /\ \A y \in Execution : y # x => job'[y] = job[y]
      /\ job'[x].at = step /\ job'[x].todo = job[x].todo /\ job'[x].copy = job[x].copy
  BY <1>1, GotoLeaves
<1>3. Left(x)' < Left(x) BY <1>1, GotoCosts
<1>4. QED BY <1>2, <1>3 DEF Turn, Tidy, Busy

LEMMA ExecuteTurn ==
  ASSUME IInv, Tidy, NEW x \in Execution, Execute(x)
  PROVE  Turn(x)
<1>1. CASE Fetch(x) BY <1>1, FetchTurn
<1>2. CASE Generate(x)
  <2>1. job[x].at = "generate" BY <1>2 DEF Generate
  <2>2. CASE Goto(x, "send")
    <3>1. StepsOf("send") < StepsOf("generate") BY DEF StepsOf
    <3>2. QED BY <2>1, <2>2, <3>1, GotoTurn DEF Busy
  <2>3. CASE GiveUp(x) BY <2>1, <2>3, NextTurn DEF GiveUp
  <2>4. QED BY <1>2, <2>2, <2>3 DEF Generate
<1>3. CASE Send(x)
  <2>1. job[x].at = "send" /\ (Goto(x, "mark") \/ Goto(x, "failure")) BY <1>3 DEF Send
  <2>2. StepsOf("mark") < StepsOf("send") /\ StepsOf("failure") < StepsOf("send") BY DEF StepsOf
  <2>3. QED BY <2>1, <2>2, GotoTurn DEF Busy
<1>4. CASE CountFailure(x) BY <1>4, NextTurn DEF CountFailure
<1>5. CASE Mark(x) BY <1>5, NextTurn DEF Mark
<1>6. QED BY <1>1, <1>2, <1>3, <1>4, <1>5 DEF Execute

(* What any step does to an execution. *)
Orderly ==
  \A x \in Execution :
    /\ job[x].at # "idle" => \/ Left(x)' < Left(x)
                             \/ Left(x)' = Left(x) /\ ~Execute(x)
    /\ process' # "down" =>
         /\ job[x].todo \subseteq job'[x].todo \cup job'[x].copy
         /\ job[x].at \notin {"generate", "failure", "mark"}
              => job[x].copy \subseteq job'[x].copy

LEMMA TidyStep == IInv /\ Tidy /\ [Next]_vars => Tidy' /\ Orderly
<1> SUFFICES ASSUME IInv, Tidy, [Next]_vars PROVE Tidy' /\ Orderly
  OBVIOUS
<1>1. /\ job \in [Execution -> Job]
      /\ \A x \in Execution : job[x].at \in Busy <=> job[x].copy # {}
  BY DEF IInv, TypeOK
<1>2. \A x \in Execution : Execute(x) => Turn(x) BY ExecuteTurn
<1>3. \A x \in Execution : Left(x) \in Nat BY LeftNat
<1>4. ASSUME NEW x \in Execution, job'[x] = job[x]
      PROVE  Left(x)' = Left(x) /\ ~Execute(x)
  <2>1. Left(x)' = Left(x) BY <1>4 DEF Left
  <2>2. QED BY <1>2, <1>3, <2>1 DEF Turn
<1>5. CASE job' = job
  BY <1>4, <1>5 DEF Tidy, Orderly
<1>6. ASSUME NEW x \in Execution, Execute(x) PROVE Tidy' /\ Orderly
  <2>1. Turn(x) BY <1>2, <1>6
  <2>2. \A y \in Execution : y # x => job'[y] = job[y] /\ Left(y)' = Left(y) /\ ~Execute(y)
    BY <1>4, <2>1 DEF Turn
  <2>3. Tidy' BY <2>1, <2>2 DEF Tidy, Turn
  <2>4. Orderly BY <2>1, <2>2 DEF Orderly, Turn
  <2>5. QED BY <2>3, <2>4
<1>7. ASSUME NEW x \in Execution, NEW cron \in BOOLEAN, Start(x, cron) PROVE Tidy' /\ Orderly
  <2>1. job[x].at = "idle" /\ job[x].todo = {} /\ job[x].copy = {}
    BY <1>1, <1>7 DEF Start, Tidy, Busy
  <2>2. job' = [job EXCEPT ![x] = [Idle EXCEPT !.at = "fetch", !.cron = cron, !.now = clock]]
    BY <1>7 DEF Start
  <2>3. job'[x].todo = {} /\ IsFiniteSet({}) BY <1>1, <2>2, FS_EmptySet DEF Idle
  <2>4. \A y \in Execution : y # x => job'[y] = job[y] /\ Left(y)' = Left(y) /\ ~Execute(y)
    BY <1>1, <1>4, <2>2
  <2>5. Tidy' BY <2>3, <2>4 DEF Tidy
  <2>6. Orderly BY <2>1, <2>4 DEF Orderly
  <2>7. QED BY <2>5, <2>6
<1>8. CASE End
  <2>1. process' = "down" /\ job' = [x \in Execution |-> Idle] BY <1>8 DEF End
  <2>2. \A x \in Execution : job'[x].at = "idle" /\ job'[x].todo = {} BY <2>1 DEF Idle
  <2>3. IsFiniteSet({}) /\ Cardinality({}) = 0 BY FS_EmptySet
  <2>4. Tidy' BY <2>2, <2>3 DEF Tidy
  <2>5. ASSUME NEW x \in Execution, job[x].at # "idle" PROVE Left(x)' < Left(x)
    <3>1. StepsOf("idle") = 0 BY DEF StepsOf
    <3>2. Left(x)' = 0 BY <2>2, <2>3, <3>1 DEF Left
    <3>3. Cardinality(job[x].todo) \in Nat /\ Cardinality(Action) \in Nat BY LeftNat
    <3>4. CASE job[x].at = "fetch" BY <3>2, <3>3, <3>4 DEF Left
    <3>5. CASE job[x].at # "fetch"
      <4>1. job[x].at \in Busy BY <1>1, <2>5, <3>5 DEF Job
      <4>2. StepsOf(job[x].at) \in 0..3 /\ StepsOf(job[x].at) # 0
        BY <4>1, StepsRange DEF StepsOf, Busy
      <4>3. Left(x) = 3 * Cardinality(job[x].todo) + StepsOf(job[x].at) BY <3>5 DEF Left
      <4>4. QED BY <3>2, <3>3, <4>2, <4>3
    <3>6. QED BY <3>4, <3>5
  <2>6. Orderly BY <2>1, <2>5 DEF Orderly
  <2>7. QED BY <2>4, <2>6
<1>9. CASE Tick \/ Stop \/ Boot
  BY <1>5, <1>9 DEF Tick, Stop, Boot
<1>10. CASE \E a \in Action : Write(a)
  BY <1>5, <1>10 DEF Write, Update, Create, Cancel, Delete
<1>11. CASE UNCHANGED vars BY <1>5, <1>11 DEF vars
<1>12. QED BY <1>6, <1>7, <1>8, <1>9, <1>10, <1>11 DEF Next

LEMMA TidyAlways == Spec => [](IInv /\ Tidy)
<1>1. Init => Tidy
  <2>1. IsFiniteSet({}) BY FS_EmptySet
  <2>2. QED BY <2>1, IdleFacts DEF Init, Tidy
<1>2. QED BY <1>1, InvInit, InvStep, TidyStep, PTL DEF Spec

(* An execution that was started comes to its end, however many others run    *)
(* and whatever fails: each of its steps leaves it less to do, nobody adds.   *)
THEOREM ExecutionsRunOut == Spec => ExecutionsEnd
<1>1. IInv /\ Tidy /\ [Next]_vars =>
        [\A x \in Execution : job[x].at # "idle" => \/ Left(x)' < Left(x)
                                                    \/ Left(x)' = Left(x) /\ ~Execute(x)]_vars
  BY TidyStep DEF Orderly
<1>2. QED BY <1>1, TidyAlways, PTL DEF Spec, ExecutionsEnd

(* No refusal, failure of the database or other execution costs an action its *)
(* turn once an execution has read it: only the end of the process does.      *)
THEOREM NobodyLeftOut == Spec => EachGetsItsTurn
<1>1. IInv /\ Tidy /\ [Next]_vars =>
        [process' # "down" =>
           \A x \in Execution :
             /\ job[x].todo \subseteq job'[x].todo \cup job'[x].copy
             /\ job[x].at \notin {"generate", "failure", "mark"}
                  => job[x].copy \subseteq job'[x].copy]_vars
  BY TidyStep DEF Orderly
<1>2. QED BY <1>1, TidyAlways, PTL DEF Spec, EachGetsItsTurn
=============================================================================
