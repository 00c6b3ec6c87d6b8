---------------------------- MODULE TaskPipeline ----------------------------
(***************************************************************************)
(* The path of a generation task through the Agent ImageFlow backend: the  *)
(* API (or the local repair command) writes the task row in PostgreSQL and *)
(* pushes its id on a Redis list, worker goroutines pop the id, take a     *)
(* Redis lock with a TTL, and run app.Service.ProcessTask.                 *)
(*                                                                         *)
(* One action is one effect another process can observe: one SQL statement *)
(* (or transaction) or one Redis command.  What a process has read and not *)
(* yet used is in its own record.                                          *)
(***************************************************************************)
EXTENDS Integers, Sequences, FiniteSets

CONSTANTS
    Tasks,          \* task ids
    Workers,        \* worker goroutines, of one process or of several
    Clients,        \* API handlers and repair commands in progress
    NoTask, NoWorker,
    Requested,      \* generation_task.requested_count
    MaxFiles,       \* bound: images one provider call may return
    MaxRetries,     \* WORKER_MAX_RETRIES
    PromoteLimit,   \* batch of PromoteScheduled
    MaxRepairs,     \* bound: repair requeues in a behaviour
    Faults          \* which faults the environment may inject

(***************************************************************************)
(* crash         a worker or API process dies between two effects          *)
(* redis_error   a Redis command fails without having been applied         *)
(* lost_reply    a Redis command is applied but its caller gets an error   *)
(* store_error   a statement fails, or SIGTERM cancels the worker context  *)
(* overrun       ProcessTask outlives the lock's TTL of 10 minutes         *)
(* slow_unlock   a scheduled retry (1 s or more away) is due before the    *)
(*               worker that scheduled it has released the lock            *)
(***************************************************************************)
FaultKinds == {"crash", "redis_error", "lost_reply", "store_error",
               "overrun", "slow_unlock"}

ASSUME PipelineAssumption ==
    /\ IsFiniteSet(Tasks)
    /\ NoTask \notin Tasks
    /\ NoWorker \notin Workers
    /\ Requested \in [Tasks -> 1..10]
    /\ MaxFiles \in Nat
    /\ MaxRetries \in Nat
    /\ PromoteLimit \in Nat \ {0}
    /\ MaxRepairs \in Nat
    /\ Faults \subseteq FaultKinds

VARIABLES
    status,     \* generation_task.status, "none" before the row exists
    attempts,   \* task_attempt rows of each task, in insertion order
    assets,     \* assets registered for each task: <<attempt row, file>>
    list,       \* Redis list of task ids
    scheduled,  \* Redis zset of delayed ids: not a member, waiting or due
    lock,       \* holder of task:{id}:lock; the key itself holds only "1"
    pc, job,    \* where each worker is, and its locals
    client,     \* what each API handler or repair command is doing
    repairs     \* repair requeues so far

dbVars     == <<status, attempts, assets>>
redisVars  == <<list, scheduled, lock>>
workerVars == <<pc, job>>
vars == <<dbVars, redisVars, workerVars, client, repairs>>

-----------------------------------------------------------------------------
Terminal   == {"completed", "partially_completed", "failed"}
Requeuable == {"queued", "running", "enqueue_failed"}
TaskStatus == {"none"} \cup Requeuable \cup Terminal

Attempt == [no: Nat, status: {"running", "completed", "failed"}, retry: BOOLEAN]

\* err is nil, an error isRetryableProviderError accepts, or another error.
Job == [task: Tasks \cup {NoTask}, row: Nat, no: Nat, files: Nat, slot: Nat,
        registered: Nat, err: {"none", "retryable", "permanent"}]

NoJob == [task |-> NoTask, row |-> 0, no |-> 0, files |-> 0, slot |-> 0,
          registered |-> 0, err |-> "none"]

Idle == [pc |-> "idle", task |-> NoTask]

\* The part of runWorker between LockTask and the end of UnlockTask.
Processing == {"load", "number", "insert", "start", "generate", "register",
               "close", "conclude", "fail_attempt", "fail_task",
               "retry_attempt", "retry_status", "retry_enqueue", "retry_mark",
               "unlock"}

WorkerPc == {"poll", "pop", "lock"} \cup Processing

Holds(w, t) == pc[w] \in Processing /\ job[w].task = t

DbTypeOK ==
    /\ status \in [Tasks -> TaskStatus]
    /\ attempts \in [Tasks -> Seq(Attempt)]
    /\ assets \in [Tasks -> SUBSET (Nat \X Nat)]

RedisTypeOK ==
    /\ list \in Seq(Tasks)
    /\ scheduled \in [Tasks -> {"no", "waiting", "due"}]
    /\ lock \in [Tasks -> Workers \cup {NoWorker}]

WorkerTypeOK ==
    /\ pc \in [Workers -> WorkerPc]
    /\ job \in [Workers -> Job]
    /\ \A w \in Workers : job[w].task = NoTask <=> pc[w] \in {"poll", "pop"}

ClientTypeOK ==
    /\ client \in [Clients -> [pc: {"idle", "requeue", "enqueue", "mark"},
                               task: Tasks \cup {NoTask}]]
    /\ \A c \in Clients : client[c].task = NoTask <=> client[c].pc = "idle"

TypeOK == DbTypeOK /\ RedisTypeOK /\ WorkerTypeOK /\ ClientTypeOK /\ repairs \in Nat

Init ==
    /\ status = [t \in Tasks |-> "none"]
    /\ attempts = [t \in Tasks |-> <<>>]
    /\ assets = [t \in Tasks |-> {}]
    /\ list = <<>>
    /\ scheduled = [t \in Tasks |-> "no"]
    /\ lock = [t \in Tasks |-> NoWorker]
    /\ pc = [w \in Workers |-> "poll"]
    /\ job = [w \in Workers |-> NoJob]
    /\ client = [c \in Clients |-> Idle]
    /\ repairs = 0

-----------------------------------------------------------------------------
(***************************************************************************)
(* Statements and commands shared by the processes.                        *)
(***************************************************************************)
UpdateTaskStatus(t, s) == status' = [status EXCEPT ![t] = s]

FinishAttempt(t, row, s, retry) ==
    attempts' = [attempts EXCEPT ![t][row] = [@ EXCEPT !.status = s, !.retry = retry]]

AttemptNos(t) == {0} \cup {attempts[t][i].no : i \in DOMAIN attempts[t]}

\* SELECT COALESCE(MAX(attempt_no), 0)
LastAttemptNo(t) ==
    CHOOSE n \in AttemptNos(t) : \A m \in AttemptNos(t) : m <= n

Push(t) == list' = Append(list, t)

-----------------------------------------------------------------------------
(***************************************************************************)
(* Producers: CreateTask (also RegenerateSceneTask, which inserts and      *)
(* enqueues the same way) and RepairRequeueTask.                           *)
(***************************************************************************)
InsertTask(c, t) ==
    /\ client[c].pc = "idle"
    /\ status[t] = "none"
    /\ UpdateTaskStatus(t, "queued")
    /\ client' = [client EXCEPT ![c] = [pc |-> "enqueue", task |-> t]]
    /\ UNCHANGED <<attempts, assets, redisVars, workerVars, repairs>>

\* GetTask and canRepairRequeue: only the status is looked at, not its age.
RepairLoad(c, t) ==
    /\ client[c].pc = "idle"
    /\ repairs < MaxRepairs
    /\ status[t] \in Requeuable
    /\ client' = [client EXCEPT ![c] = [pc |-> "requeue", task |-> t]]
    /\ repairs' = repairs + 1
    /\ UNCHANGED <<dbVars, redisVars, workerVars>>

RepairReset(c) ==
    /\ client[c].pc = "requeue"
    /\ UpdateTaskStatus(client[c].task, "queued")
    /\ client' = [client EXCEPT ![c].pc = "enqueue"]
    /\ UNCHANGED <<attempts, assets, redisVars, workerVars, repairs>>

Enqueue(c) ==
    /\ client[c].pc = "enqueue"
    /\ Push(client[c].task)
    /\ client' = [client EXCEPT ![c] = Idle]
    /\ UNCHANGED <<dbVars, scheduled, lock, workerVars, repairs>>

EnqueueFails(c) ==
    /\ client[c].pc = "enqueue"
    /\ \/ "redis_error" \in Faults /\ list' = list
       \/ "lost_reply" \in Faults /\ Push(client[c].task)
    /\ client' = [client EXCEPT ![c].pc = "mark"]
    /\ UNCHANGED <<dbVars, scheduled, lock, workerVars, repairs>>

MarkTaskEnqueueFailed(c) ==
    /\ client[c].pc = "mark"
    /\ UpdateTaskStatus(client[c].task, "enqueue_failed")
    /\ client' = [client EXCEPT ![c] = Idle]
    /\ UNCHANGED <<attempts, assets, redisVars, workerVars, repairs>>

\* The process dies, or the statement it is about to run fails.
ClientStops(c) ==
    /\ \/ "crash" \in Faults
       \/ "store_error" \in Faults /\ client[c].pc \in {"requeue", "mark"}
    /\ client[c].pc # "idle"
    /\ client' = [client EXCEPT ![c] = Idle]
    /\ UNCHANGED <<dbVars, redisVars, workerVars, repairs>>

-----------------------------------------------------------------------------
(***************************************************************************)
(* Redis by itself: a scheduled entry becomes due, a lock key expires.     *)
(***************************************************************************)
BecomeDue(t) ==
    /\ scheduled[t] = "waiting"
    /\ \/ "slow_unlock" \in Faults
       \/ \A w \in Workers : ~(Holds(w, t) /\ pc[w] \in {"retry_mark", "unlock"})
    /\ scheduled' = [scheduled EXCEPT ![t] = "due"]
    /\ UNCHANGED <<dbVars, list, lock, workerVars, client, repairs>>

ExpireLock(t) ==
    /\ lock[t] # NoWorker
    /\ "overrun" \in Faults \/ ~Holds(lock[t], t)
    /\ lock' = [lock EXCEPT ![t] = NoWorker]
    /\ UNCHANGED <<dbVars, list, scheduled, workerVars, client, repairs>>

-----------------------------------------------------------------------------
(***************************************************************************)
(* runWorker.                                                              *)
(***************************************************************************)
Goto(w, l) == pc' = [pc EXCEPT ![w] = l]

\* Mutant: the locals of the last task survive.
BackToPollKeepsJob(w) == Goto(w, "poll") /\ UNCHANGED job

BackToPoll(w) ==
    /\ Goto(w, "poll")
    /\ job' = [job EXCEPT ![w] = NoJob]

\* Mutant: RPUSH without ZREM.
PromoteWithoutRemoving(w) ==
    /\ pc[w] = "poll"
    /\ \/ list' = list
       \/ \E t \in Tasks : scheduled[t] = "due" /\ Push(t)
    /\ Goto(w, "pop")
    /\ UNCHANGED <<dbVars, scheduled, lock, job, client, repairs>>

\* Mutant: all due ids leave the zset, only PromoteLimit of them are pushed.
PromoteRemovesTooMany(w) ==
    LET due == {t \in Tasks : scheduled[t] = "due"}
    IN  /\ pc[w] = "poll"
        /\ \/ due = {} /\ list' = list
           \/ \E t \in due : Push(t)
        /\ scheduled' = [t \in Tasks |-> IF t \in due THEN "no" ELSE scheduled[t]]
        /\ Goto(w, "pop")
        /\ UNCHANGED <<dbVars, lock, job, client, repairs>>

\* The Lua script moves at most PromoteLimit due ids, atomically.
PromoteScheduled(w) ==
    LET due == {t \in Tasks : scheduled[t] = "due"}
        n   == IF Cardinality(due) < PromoteLimit THEN Cardinality(due) ELSE PromoteLimit
    IN  /\ pc[w] = "poll"
        /\ \E batch \in [1..n -> due] :
            /\ \A i, j \in 1..n : batch[i] = batch[j] => i = j
            /\ list' = list \o batch
            /\ scheduled' = [t \in Tasks |->
                               IF \E i \in 1..n : batch[i] = t THEN "no" ELSE scheduled[t]]
        /\ Goto(w, "pop")
        /\ UNCHANGED <<dbVars, lock, job, client, repairs>>

\* BLPOP: the id is gone from Redis once popped.
Dequeue(w) ==
    /\ pc[w] = "pop"
    /\ list # <<>>
    /\ list' = Tail(list)
    /\ \/ /\ Goto(w, "lock")
          /\ job' = [job EXCEPT ![w].task = Head(list)]
       \/ /\ "lost_reply" \in Faults
          /\ BackToPoll(w)
    /\ UNCHANGED <<dbVars, scheduled, lock, client, repairs>>

DequeueTimesOut(w) ==
    /\ pc[w] = "pop"
    /\ list = <<>>
    /\ Goto(w, "poll")
    /\ UNCHANGED <<dbVars, redisVars, job, client, repairs>>

\* Mutant: SET instead of SETNX.
LockTaskAnyway(w) ==
    /\ pc[w] = "lock"
    /\ lock' = [lock EXCEPT ![job[w].task] = w]
    /\ Goto(w, "load")
    /\ UNCHANGED <<dbVars, list, scheduled, job, client, repairs>>

LockTask(w) ==
    LET t == job[w].task
    IN  /\ pc[w] = "lock"
        /\ lock[t] = NoWorker
        /\ lock' = [lock EXCEPT ![t] = w]
        /\ \/ Goto(w, "load") /\ UNCHANGED job
           \/ "lost_reply" \in Faults /\ BackToPoll(w)
        /\ UNCHANGED <<dbVars, list, scheduled, client, repairs>>

\* Both when the key exists and when SETNX fails the id is dropped.
SkipTask(w) ==
    /\ pc[w] = "lock"
    /\ lock[job[w].task] # NoWorker \/ "redis_error" \in Faults
    /\ BackToPoll(w)
    /\ UNCHANGED <<dbVars, redisVars, client, repairs>>

\* Mutant: the key is left to its TTL.
UnlockTaskLeavesKey(w) ==
    /\ pc[w] = "unlock"
    /\ BackToPoll(w)
    /\ UNCHANGED <<dbVars, redisVars, client, repairs>>

\* DEL of the key, whoever set it; an error is ignored.
UnlockTask(w) ==
    /\ pc[w] = "unlock"
    /\ \/ lock' = [lock EXCEPT ![job[w].task] = NoWorker]
       \/ "redis_error" \in Faults /\ UNCHANGED lock
    /\ BackToPoll(w)
    /\ UNCHANGED <<dbVars, list, scheduled, client, repairs>>

WorkerCrashes(w) ==
    /\ "crash" \in Faults
    /\ pc[w] # "poll"
    /\ BackToPoll(w)
    /\ UNCHANGED <<dbVars, redisVars, client, repairs>>

-----------------------------------------------------------------------------
(***************************************************************************)
(* ProcessTask.                                                            *)
(***************************************************************************)
LoadTask(w) ==
    /\ pc[w] = "load"
    /\ Goto(w, IF status[job[w].task] \in Terminal THEN "unlock" ELSE "number")
    /\ UNCHANGED <<dbVars, redisVars, job, client, repairs>>

\* CreateAttempt is two statements: read the maximum, then insert.
NumberAttempt(w) ==
    /\ pc[w] = "number"
    /\ job' = [job EXCEPT ![w].no = LastAttemptNo(job[w].task) + 1]
    /\ Goto(w, "insert")
    /\ UNCHANGED <<dbVars, redisVars, client, repairs>>

InsertAttempt(w) ==
    LET t == job[w].task
    IN  /\ pc[w] = "insert"
        /\ attempts' = [attempts EXCEPT ![t] =
              Append(@, [no |-> job[w].no, status |-> "running", retry |-> FALSE])]
        /\ job' = [job EXCEPT ![w].row = Len(attempts[t]) + 1]
        /\ Goto(w, "start")
        /\ UNCHANGED <<status, assets, redisVars, client, repairs>>

StartTask(w) ==
    /\ pc[w] = "start"
    /\ UpdateTaskStatus(job[w].task, "running")
    /\ Goto(w, "generate")
    /\ UNCHANGED <<attempts, assets, redisVars, job, client, repairs>>

\* Mutant: one retry too many.
AfterGenerateOffByOne(n, err, no) ==
    CASE n > 0 -> "register"
      [] n = 0 /\ err = "none" -> "close"
      [] n = 0 /\ err = "retryable" /\ no <= MaxRetries + 1 -> "retry_attempt"
      [] OTHER -> "fail_attempt"

\* Where ProcessTask goes with what the provider returned.
AfterGenerate(n, err, no) ==
    CASE n > 0 -> "register"
      [] n = 0 /\ err = "none" -> "close"
      [] n = 0 /\ err = "retryable" /\ no <= MaxRetries -> "retry_attempt"
      [] OTHER -> "fail_attempt"

\* The adapter is not enabled, or generateWithProviderLimit returns n files
\* and an error; split requests can return files and an error together.
Generate(w) ==
    \E n \in 0..MaxFiles, err \in {"none", "retryable", "permanent"} :
        /\ pc[w] = "generate"
        /\ job' = [job EXCEPT ![w].files = n, ![w].slot = 1, ![w].err = err]
        /\ Goto(w, AfterGenerate(n, err, job[w].no))
        /\ UNCHANGED <<dbVars, redisVars, client, repairs>>

\* StoreGeneratedFile and InsertAssetWithVersion for the next file.  An error
\* of either is kept in processErr and the loop goes on.
RegisterFile(w) ==
    LET t == job[w].task
        f == job[w].slot
    IN  /\ pc[w] = "register"
        /\ \/ /\ assets' = [assets EXCEPT ![t] = @ \cup {<<job[w].row, f>>}]
              /\ job' = [job EXCEPT ![w].slot = f + 1, ![w].registered = @ + 1]
           \/ /\ "store_error" \in Faults
              /\ job' = [job EXCEPT ![w].slot = f + 1, ![w].err = "permanent"]
              /\ UNCHANGED assets
        /\ Goto(w, IF f < job[w].files THEN "register" ELSE "close")
        /\ UNCHANGED <<status, attempts, redisVars, client, repairs>>

Outcome(t, registered, err) ==
    IF registered = 0 THEN "failed"
    ELSE IF registered < Requested[t] \/ err # "none" THEN "partially_completed"
    ELSE "completed"

JobOutcome(w) == Outcome(job[w].task, job[w].registered, job[w].err)

\* Mutant: a partial result is retried for the missing images.
CloseAttemptRetriesPartial(w) ==
    LET again == JobOutcome(w) = "partially_completed" /\ job[w].no <= MaxRetries
    IN  /\ pc[w] = "close"
        /\ FinishAttempt(job[w].task, job[w].row,
                         IF JobOutcome(w) = "completed" THEN "completed" ELSE "failed", again)
        /\ Goto(w, IF again THEN "retry_status" ELSE "conclude")
        /\ UNCHANGED <<status, assets, redisVars, job, client, repairs>>

CloseAttempt(w) ==
    /\ pc[w] = "close"
    /\ FinishAttempt(job[w].task, job[w].row,
                     IF JobOutcome(w) = "failed" THEN "failed" ELSE "completed", FALSE)
    /\ Goto(w, "conclude")
    /\ UNCHANGED <<status, assets, redisVars, job, client, repairs>>

\* Best-of selection, which follows, does not touch the task.
ConcludeTask(w) ==
    /\ pc[w] = "conclude"
    /\ UpdateTaskStatus(job[w].task, JobOutcome(w))
    /\ Goto(w, "unlock")
    /\ UNCHANGED <<attempts, assets, redisVars, job, client, repairs>>

\* The provider failed for good: both statements ignore their errors.
FailAttempt(w) ==
    /\ pc[w] = "fail_attempt"
    /\ \/ FinishAttempt(job[w].task, job[w].row, "failed", FALSE)
       \/ "store_error" \in Faults /\ UNCHANGED attempts
    /\ Goto(w, "fail_task")
    /\ UNCHANGED <<status, assets, redisVars, job, client, repairs>>

FailTask(w) ==
    /\ pc[w] = "fail_task"
    /\ UpdateTaskStatus(job[w].task, "failed")
    /\ Goto(w, "unlock")
    /\ UNCHANGED <<attempts, assets, redisVars, job, client, repairs>>

\* A statement whose error makes ProcessTask return, or the last one.
StatementFails(w) ==
    /\ "store_error" \in Faults
    /\ pc[w] \in {"load", "number", "insert", "start", "close", "conclude",
                  "fail_task", "retry_attempt", "retry_status", "retry_mark"}
    /\ Goto(w, "unlock")
    /\ UNCHANGED <<dbVars, redisVars, job, client, repairs>>

-----------------------------------------------------------------------------
(***************************************************************************)
(* scheduleRetry.                                                          *)
(***************************************************************************)
\* Mutant: retry_after is not written.
RetryAttemptUnmarked(w) ==
    /\ pc[w] = "retry_attempt"
    /\ FinishAttempt(job[w].task, job[w].row, "failed", FALSE)
    /\ Goto(w, "retry_status")
    /\ UNCHANGED <<status, assets, redisVars, job, client, repairs>>

RetryAttempt(w) ==
    /\ pc[w] = "retry_attempt"
    /\ FinishAttempt(job[w].task, job[w].row, "failed", TRUE)
    /\ Goto(w, "retry_status")
    /\ UNCHANGED <<status, assets, redisVars, job, client, repairs>>

RetryStatus(w) ==
    /\ pc[w] = "retry_status"
    /\ UpdateTaskStatus(job[w].task, "queued")
    /\ Goto(w, "retry_enqueue")
    /\ UNCHANGED <<attempts, assets, redisVars, job, client, repairs>>

\* ZADD: a member already scheduled only gets a new score.
RetryEnqueue(w) ==
    /\ pc[w] = "retry_enqueue"
    /\ scheduled' = [scheduled EXCEPT ![job[w].task] = "waiting"]
    /\ \/ Goto(w, "unlock")
       \/ "lost_reply" \in Faults /\ Goto(w, "retry_mark")
    /\ UNCHANGED <<dbVars, list, lock, job, client, repairs>>

RetryEnqueueFails(w) ==
    /\ pc[w] = "retry_enqueue"
    /\ "redis_error" \in Faults
    /\ Goto(w, "retry_mark")
    /\ UNCHANGED <<dbVars, redisVars, job, client, repairs>>

RetryMark(w) ==
    /\ pc[w] = "retry_mark"
    /\ UpdateTaskStatus(job[w].task, "enqueue_failed")
    /\ Goto(w, "unlock")
    /\ UNCHANGED <<attempts, assets, redisVars, job, client, repairs>>

-----------------------------------------------------------------------------
ProcessTask(w) ==
    \/ LoadTask(w) \/ NumberAttempt(w) \/ InsertAttempt(w) \/ StartTask(w)
    \/ Generate(w) \/ RegisterFile(w) \/ CloseAttempt(w) \/ ConcludeTask(w)
    \/ FailAttempt(w) \/ FailTask(w)
    \/ RetryAttempt(w) \/ RetryStatus(w) \/ RetryEnqueue(w)
    \/ RetryEnqueueFails(w) \/ RetryMark(w) \/ StatementFails(w)

RunWorker(w) ==
    \/ PromoteScheduled(w) \/ Dequeue(w) \/ DequeueTimesOut(w)
    \/ LockTask(w) \/ SkipTask(w) \/ ProcessTask(w) \/ UnlockTask(w)

\* The rest of a producer's handler, once it has begun.
FinishRequest(c) ==
    RepairReset(c) \/ Enqueue(c) \/ EnqueueFails(c) \/ MarkTaskEnqueueFailed(c)

Next ==
    \/ \E c \in Clients, t \in Tasks : InsertTask(c, t) \/ RepairLoad(c, t)
    \/ \E c \in Clients : FinishRequest(c) \/ ClientStops(c)
    \/ \E t \in Tasks : BecomeDue(t) \/ ExpireLock(t)
    \/ \E w \in Workers : RunWorker(w) \/ WorkerCrashes(w)

Spec == Init /\ [][Next]_vars

(***************************************************************************)
(* Goroutines are scheduled and handlers run to their end; time passes, so *)
(* scheduled entries become due and orphaned locks expire.  Nothing makes  *)
(* a caller create a task or an operator repair one.                       *)
(***************************************************************************)
Fairness ==
    /\ \A w \in Workers : WF_vars(RunWorker(w))
    /\ \A c \in Clients : WF_vars(FinishRequest(c))
    /\ \A t \in Tasks : WF_vars(BecomeDue(t)) /\ WF_vars(ExpireLock(t))

FairSpec == Spec /\ Fairness

-----------------------------------------------------------------------------
(***************************************************************************)
(* Properties.                                                             *)
(***************************************************************************)

\* While no execution outlives the lock's TTL, a task is in the hands of at
\* most one worker, the one that set its lock key (LockTask, UnlockTask and
\* the TTL of runWorker): no unlock frees a lock another worker relies on.
ExclusiveProcessing ==
    "overrun" \notin Faults =>
        \A t \in Tasks, w \in Workers : Holds(w, t) => lock[t] = w

\* The attempt numbers of a task are 1, 2, 3, ... in the order of the rows,
\* although CreateAttempt reads the maximum and inserts in two statements and
\* no unique index covers (task_id, attempt_no).
AttemptsNumbered ==
    "overrun" \notin Faults =>
        \A t \in Tasks : \A i \in DOMAIN attempts[t] : attempts[t][i].no = i

\* The images of a task all come from one attempt: nothing in ProcessTask
\* looks at images already registered, so a second delivering attempt would
\* register the whole set again.
OneAttemptDelivers ==
    \A t \in Tasks : \A a, b \in assets[t] : a[1] = b[1]

\* The places where the id of a task, its only trigger, can be.
Queued(t)    == {i \in DOMAIN list : list[i] = t}
Carriers(t)  == {w \in Workers : job[w].task = t}
Producers(t) == {c \in Clients : client[c].task = t}

\* Without repair, whatever else fails, the id of a task is in at most one place:
\* Redis list, zset, a worker that will still run or requeue it, a handler.
AtMostOneCopy ==
    \A t \in Tasks :
        Cardinality(Queued(t))
        + (IF scheduled[t] # "no" THEN 1 ELSE 0)
        + Cardinality({w \in Carriers(t) : pc[w] \notin {"retry_mark", "unlock"}})
        + Cardinality({c \in Producers(t) : client[c].pc # "mark"}) <= 1

\* With no fault but runs that outlive their lock, an unsettled task is never
\* forgotten: its id is somewhere in Redis, or with a worker or a handler that
\* has not finished with it.
NeverForgotten ==
    \A t \in Tasks : status[t] \in {"queued", "running"} =>
        \/ Queued(t) # {} \/ scheduled[t] # "no"
        \/ Carriers(t) # {} \/ Producers(t) # {}

\* If no statement fails, once a task is settled none of its attempts is still open
\* and only its last one can have delivered (ProcessTask closes the attempt
\* before it concludes the task).
SettledClosesAttempts ==
    \A t \in Tasks : status[t] \in Terminal =>
        \A i \in DOMAIN attempts[t] :
            /\ attempts[t][i].status # "running"
            /\ attempts[t][i].status = "completed" => i = Len(attempts[t])
            /\ attempts[t][i].retry <=> i < Len(attempts[t])

\* With no fault, every task that is created settles: each retry is promoted,
\* popped and run, and retries are bounded.
EveryTaskSettles ==
    \A t \in Tasks : status[t] # "none" ~> status[t] \in Terminal

\* The pipeline implements the lifecycle a caller relies on.
Lifecycle == INSTANCE TaskLifecycle WITH
    tries  <- [t \in Tasks |-> Len(attempts[t])],
    images <- [t \in Tasks |-> Cardinality(assets[t])]

ImplementsLifecycle == Lifecycle!Spec
=============================================================================
