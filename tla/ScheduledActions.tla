--------------------------- MODULE ScheduledActions ---------------------------
(***************************************************************************)
(* Scheduled posts: the table scheduled_actions (action/store.go), the tools *)
(* and the admin API that write it, the task that posts what is due          *)
(* (action/task.go), and the scheduler that runs the task (scheduler.go).    *)
(*                                                                         *)
(* cron starts an execution in a goroutine of its own each time, whether or *)
(* not the last one is over, and an administrator may trigger one more.  An  *)
(* execution reads the rows that are due, then works on its copies: with the *)
(* LLM, Discord and the database between any two of its steps.  Nothing is   *)
(* locked, and a process that stops or crashes leaves the table as it is.    *)
(*                                                                         *)
(* Time is counted in periods of the cron expressions of recurring actions.  *)
(* repeated, excused, handled and failures only observe.                     *)
(*                                                                         *)
(* An operator that stands before another and is used nowhere is that one   *)
(* with a mistake in it: the README says which property notices.            *)
(***************************************************************************)
EXTENDS Naturals, FiniteSets

CONSTANTS
  Action,         \* ids of rows
  Execution,      \* bound: executions at the same time
  MaxRetries,     \* failed sends of an action before it is given up (5)
  RandomMinutes,  \* random_minutes, in the unit of time
  MaxTime,        \* bound: the clock stops here
  MaxWrites,      \* bound: uses of the tools and of the admin API
  MaxFaults       \* bound: failures of the database, stops and crashes

ASSUME ActionAssumption == IsFiniteSet(Action)
ASSUME LimitAssumption == MaxRetries \in Nat \ {0} /\ RandomMinutes \in Nat
ASSUME BoundAssumption == {MaxTime, MaxWrites, MaxFaults} \subseteq Nat

VARIABLES
  clock,
  table,      \* [Action -> Row]
  process,    \* "up", "stopped" (Stop has returned), "down"
  job,        \* [Execution -> Job]
  writes,     \* uses of the tools and of the admin API so far
  faults,     \* faults so far
  posted,     \* [Action -> times (scheduled_at) for which it was posted]
  repeated,   \* actions posted twice for the same time without an excuse
  excused,    \* actions two executions had at once, posted but not marked, or
              \* posted, at least in part, by a send that returned an error
  handled,    \* actions sent, or suppressed by a notification middleware
  failures    \* [Action -> sends that failed, counted up to MaxRetries]

observed == <<posted, repeated, excused, handled, failures>>
vars == <<clock, table, process, job, writes, faults, observed>>
-----------------------------------------------------------------------------
Status == {"none", "pending", "executed", "cancelled", "failed", "deleted"}

(* Whether a row has a cron_expr, whether its content is a prompt for the LLM, *)
(* its scheduled_at and retry_count.                                         *)
Row == [status : Status, recurring : BOOLEAN, prompt : BOOLEAN, at : Nat, retries : Nat]
Copy == [id : Action, prompt : BOOLEAN, at : Nat, retries : Nat]
NoRow == [status |-> "none", recurring |-> FALSE, prompt |-> FALSE, at |-> 0, retries |-> 0]

(* An execution: the step it is at, whether cron started it (with the        *)
(* scheduler's context), the time it began, the copies it still has to       *)
(* handle and the one it handles, the only member of copy.                   *)
Busy == {"generate", "send", "failure", "mark"}
Job == [at : {"idle", "fetch"} \cup Busy, cron : BOOLEAN, now : 0..MaxTime,
        todo : SUBSET Copy, copy : SUBSET Copy]
Idle == [at |-> "idle", cron |-> FALSE, now |-> 0, todo |-> {}, copy |-> {}]

Held(x) == {c.id : c \in job[x].todo \cup job[x].copy}

DueToo(a, t) == table[a].status \in {"pending", "executed"} /\ table[a].at <= t
Due(a, t) == table[a].status = "pending" /\ table[a].at <= t

Init ==
  /\ clock = 0
  /\ table = [a \in Action |-> NoRow]
  /\ process = "up"
  /\ job = [x \in Execution |-> Idle]
  /\ writes = 0 /\ faults = 0
  /\ posted = [a \in Action |-> {}]
  /\ repeated = {} /\ excused = {} /\ handled = {}
  /\ failures = [a \in Action |-> 0]

Tick ==
  /\ clock < MaxTime
  /\ clock' = clock + 1
  /\ UNCHANGED <<table, process, job, writes, faults, observed>>
-----------------------------------------------------------------------------
(* The tools and the admin API. *)
Exists(a) == table[a].status \notin {"none", "deleted"}

Create(a, t, recurring, prompt) ==
  /\ table[a].status = "none"
  /\ table' = [table EXCEPT ![a] =
       [NoRow EXCEPT !.status = "pending", !.recurring = recurring, !.prompt = prompt, !.at = t]]
  /\ UNCHANGED <<clock, process, job, faults, observed>>

(* schedule_cancel: only a pending action. *)
Cancel(a) ==
  /\ table[a].status = "pending"
  /\ table' = [table EXCEPT ![a].status = "cancelled"]
  /\ UNCHANGED <<clock, process, job, faults, observed>>

(* An administrator moves an action to another time and opens it again if it  *)
(* was closed; its retries stay.  What was posted before is not a repetition. *)
Update(a, t) ==
  /\ Exists(a)
  /\ table' = [table EXCEPT ![a].at = t, ![a].status = "pending"]
  /\ posted' = [posted EXCEPT ![a] = {}]
  /\ UNCHANGED <<clock, process, job, faults, repeated, excused, handled, failures>>

Delete(a) ==
  /\ Exists(a)
  /\ table' = [table EXCEPT ![a] = [NoRow EXCEPT !.status = "deleted"]]
  /\ UNCHANGED <<clock, process, job, faults, observed>>
-----------------------------------------------------------------------------
(* Executions. *)
Start(x, cron) ==
  /\ job[x].at = "idle"
  /\ IF cron THEN process = "up" ELSE process # "down"
  /\ job' = [job EXCEPT ![x] = [Idle EXCEPT !.at = "fetch", !.cron = cron, !.now = clock]]
  /\ UNCHANGED <<clock, writes, table, process, faults, observed>>

ResumeKeepsCopy(x, copies) ==
  IF copies = {} THEN job' = [job EXCEPT ![x].at = "idle"]
  ELSE \E c \in copies :
         /\ \A d \in copies : c.at <= d.at
         /\ job' = [job EXCEPT ![x].at = "send", ![x].todo = copies \ {c}, ![x].copy = {c}]

(* On to the next of copies, in the order of scheduled_at. *)
Resume(x, copies) ==
  IF copies = {} THEN job' = [job EXCEPT ![x] = Idle]
  ELSE \E c \in copies :
         /\ \A d \in copies : c.at <= d.at
         /\ job' = [job EXCEPT ![x].at = IF c.prompt THEN "generate" ELSE "send",
                              ![x].todo = copies \ {c}, ![x].copy = {c}]

Goto(x, step) == job' = [job EXCEPT ![x].at = step]

(* The scheduler's context is done once Stop was called; an administrator's  *)
(* request has its own.                                                      *)
ContextDone(x) == job[x].cron /\ process = "stopped"

Works(x) == ~ContextDone(x) /\ UNCHANGED faults
Fails(x) ==
  \/ ContextDone(x) /\ UNCHANGED faults
  \/ faults < MaxFaults /\ faults' = faults + 1

Fetch(x) ==
  /\ job[x].at = "fetch"
  /\ LET due == {a \in Action : Due(a, job[x].now)}
     IN  \/ /\ Works(x)
            /\ Resume(x,
                 {[id |-> a, prompt |-> table[a].prompt, at |-> table[a].at,
                   retries |-> table[a].retries] : a \in due})
            /\ excused' = excused \cup
                 {a \in due : \E y \in Execution \ {x} : a \in Held(y)}
         \/ Fails(x) /\ Resume(x, {}) /\ UNCHANGED excused
  /\ UNCHANGED <<clock, writes, table, process, posted, repeated, handled, failures>>

GiveUpAll(x) == Resume(x, {})
GiveUp(x) == Resume(x, job[x].todo)

(* The LLM turns a prompt into the message; when it cannot, the action stays  *)
(* as it is.                                                                  *)
Generate(x) ==
  /\ job[x].at = "generate"
  /\ \/ ~ContextDone(x) /\ Goto(x, "send")
     \/ GiveUp(x)
  /\ UNCHANGED <<clock, writes, table, process, faults, observed>>

(* The message, or some chunks of it, appear in the channel. *)
Appear(c) ==
  /\ posted' = [posted EXCEPT ![c.id] = @ \cup {c.at}]
  /\ repeated' = repeated \cup {a \in {c.id} \ excused : c.at \in posted[a]}

(* The notifier: the message is posted, suppressed (quiet hours, a channel    *)
(* that is disabled or only listened to), or the call returns an error.       *)
(* Discord gets no context.  A long message goes in chunks: an error may come *)
(* when earlier ones were posted, or for one that Discord accepted.           *)
Send(x) ==
  /\ job[x].at = "send"
  /\ \E c \in job[x].copy :
       \/ /\ Appear(c) \/ UNCHANGED <<posted, repeated>>
          /\ handled' = handled \cup {c.id}
          /\ Goto(x, "mark")
          /\ UNCHANGED <<excused, failures>>
       \/ /\ \/ Appear(c) /\ excused' = excused \cup {c.id}
             \/ UNCHANGED <<posted, repeated, excused>>
          /\ failures' = [failures EXCEPT ![c.id] = IF @ < MaxRetries THEN @ + 1 ELSE @]
          /\ Goto(x, "failure")
          /\ UNCHANGED handled
  /\ UNCHANGED <<clock, writes, table, process, faults>>

OneTooMany(n) == n + 1 >= MaxRetries
TooMany(n) == n >= MaxRetries

(* IncrRetry or MarkFailed: what the copy said, plus one. *)
CountFailure(x) ==
  /\ job[x].at = "failure"
  /\ \E c \in job[x].copy :
       \/ Fails(x) /\ UNCHANGED table
       \/ /\ Works(x)
          /\ table' = IF Exists(c.id)
                      THEN [table EXCEPT ![c.id].retries = c.retries + 1,
                              ![c.id].status = IF TooMany(c.retries + 1) THEN "failed" ELSE @]
                      ELSE table
  /\ Resume(x, job[x].todo)
  /\ UNCHANGED <<clock, writes, process, observed>>

(* time.Duration(rand.IntN(random_minutes)) is added to the next time. *)
Offset == 0 .. (IF RandomMinutes = 0 THEN 0 ELSE RandomMinutes - 1)

NextTimeNow(t) == {t + o : o \in Offset}
NextTime(t) == {t + 1 + o : o \in Offset}

(* MarkExecuted: the row gets its next time or is "executed", whatever became *)
(* of it in the meantime.                                                     *)
Mark(x) ==
  /\ job[x].at = "mark"
  /\ \E c \in job[x].copy :
       \/ /\ Fails(x)
          /\ excused' = excused \cup {c.id}
          /\ UNCHANGED table
       \/ /\ Works(x)
          /\ IF ~Exists(c.id) THEN UNCHANGED table
             ELSE IF table[c.id].recurring
             THEN \E t \in NextTime(job[x].now) : table' = [table EXCEPT ![c.id].at = t]
             ELSE table' = [table EXCEPT ![c.id].status = "executed"]
          /\ UNCHANGED excused
  /\ Resume(x, job[x].todo)
  /\ UNCHANGED <<clock, writes, process, posted, repeated, handled, failures>>
-----------------------------------------------------------------------------
(* Stop, the end of the process that follows, a crash, and the next start. *)
Stop ==
  /\ process = "up"
  /\ faults < MaxFaults
  /\ faults' = faults + 1
  /\ process' = "stopped"
  /\ UNCHANGED <<clock, writes, table, job, observed>>

End ==
  /\ \/ process = "stopped" /\ UNCHANGED faults
     \/ process = "up" /\ faults < MaxFaults /\ faults' = faults + 1
  /\ process' = "down"
  /\ job' = [x \in Execution |-> Idle]
  /\ excused' = excused \cup
       UNION {{c.id : c \in job[x].copy} : x \in {y \in Execution : job[y].at = "mark"}}
  /\ UNCHANGED <<clock, writes, table, posted, repeated, handled, failures>>

Boot ==
  /\ process = "down"
  /\ process' = "up"
  /\ UNCHANGED <<clock, writes, table, job, faults, observed>>
-----------------------------------------------------------------------------
Write(a) ==
  /\ writes < MaxWrites /\ writes' = writes + 1
  /\ \/ \E t \in 0..MaxTime :
         Update(a, t) \/ \E recurring, prompt \in BOOLEAN : Create(a, t, recurring, prompt)
     \/ Cancel(a) \/ Delete(a)

Execute(x) == Fetch(x) \/ Generate(x) \/ Send(x) \/ CountFailure(x) \/ Mark(x)

Cron == \E x \in Execution : Start(x, TRUE)

Next ==
  \/ Tick
  \/ \E a \in Action : Write(a)
  \/ \E x \in Execution, cron \in BOOLEAN : Start(x, cron)
  \/ \E x \in Execution : Execute(x)
  \/ Stop \/ End \/ Boot

Fairness ==
  /\ WF_vars(Cron) /\ WF_vars(Boot) /\ WF_vars(process = "stopped" /\ End)
  /\ \A x \in Execution : WF_vars(Execute(x))

Spec == Init /\ [][Next]_vars
FairSpec == Spec /\ Fairness
-----------------------------------------------------------------------------
TypeOK ==
  /\ clock \in 0..MaxTime
  /\ table \in [Action -> Row]
  /\ process \in {"up", "stopped", "down"}
  /\ job \in [Execution -> Job]
  /\ \A x \in Execution :
       /\ job[x].at \in Busy <=> job[x].copy # {}
       /\ process = "down" => job[x] = Idle
  /\ writes \in 0..MaxWrites /\ faults \in 0..MaxFaults
  /\ posted \in [Action -> SUBSET Nat]
  /\ repeated \subseteq Action /\ excused \subseteq Action /\ handled \subseteq Action
  /\ failures \in [Action -> 0..MaxRetries]

(* An action is closed only for a reason: "executed" was sent or suppressed, *)
(* "failed" was refused as often as the limit says, however executions with   *)
(* old copies, crashes and failures of the database interleave.               *)
ClosedForAReason ==
  \A a \in Action :
    /\ table[a].status = "executed" => a \in handled
    /\ table[a].status = "failed" => failures[a] >= MaxRetries

(* No part of an action is posted twice for a time it is scheduled, unless it *)
(* is excused: two executions had it at once, the row could not be written    *)
(* after the send (the database failed, the process ended), or a send had     *)
(* posted something when it returned its error (discord.go:194-198) and is     *)
(* tried again as a whole.                                                    *)
PostedOnce == repeated = {}

(* What is due is not left lying: it is posted or closed or gets a new time,  *)
(* whatever other actions fail.  Not promised to a prompt, which the LLM may   *)
(* refuse for ever.                                                           *)
DueIsHandled ==
  \A a \in Action : Due(a, clock) ~> ~Due(a, clock) \/ table[a].prompt

(* "Cancels a scheduled message by ID; a recurring one stops too"             *)
(* (tool_cancel.go:25, in Japanese): once cancelled an action is not posted.  *)
(* An execution that has a copy posts it all the same, and then marks it      *)
(* executed.                                                                  *)
CancelledNotPosted ==
  [][\A a \in Action : posted'[a] \ posted[a] # {} => table[a].status # "cancelled"]_vars

(* Stop waits "for running jobs to complete" (scheduler.go:137).  It returns   *)
(* a context that is done when they are, and nobody waits for it.              *)
StopWaits ==
  process = "stopped" => \A x \in Execution : job[x].cron => job[x] = Idle
=============================================================================
