------------------------ MODULE TaskPipelineProofs ------------------------
(***************************************************************************)
(* Theorems about TaskPipeline, for every set of tasks, workers and        *)
(* clients, every retry limit and every set of faults.                     *)
(***************************************************************************)
EXTENDS TaskPipeline, FiniteSetTheorems, TLAPS

USE PipelineAssumption

\* An update of one place of a sequence keeps its length and its type.
LEMMA SeqUpdate ==
    ASSUME NEW S, NEW s \in Seq(S), NEW i, NEW e, i \in DOMAIN s => e \in S
    PROVE  /\ [s EXCEPT ![i] = e] \in Seq(S)
           /\ DOMAIN [s EXCEPT ![i] = e] = DOMAIN s
           /\ Len([s EXCEPT ![i] = e]) = Len(s)
  <1> DEFINE u == [s EXCEPT ![i] = e]
  <1>1. Len(s) \in Nat /\ DOMAIN s = 1..Len(s) /\ s \in [1..Len(s) -> S]
    OBVIOUS
  <1>2. DOMAIN u = 1..Len(s) /\ u \in [1..Len(s) -> S]
    BY <1>1
  <1>3. u \in Seq(S) /\ Len(u) = Len(s)
    BY <1>1, <1>2, SMT
  <1>4. QED
    BY <1>1, <1>2, <1>3

\* The ids promoted in one call form a finite sequence.
LEMMA PromotedBatch ==
    ASSUME NEW due \in SUBSET Tasks
    PROVE  (IF Cardinality(due) < PromoteLimit THEN Cardinality(due) ELSE PromoteLimit) \in Nat
  <1>1. IsFiniteSet(due)
    BY FS_Subset
  <1>2. Cardinality(due) \in Nat
    BY <1>1, FS_CardinalityType
  <1>3. QED
    BY <1>2

-----------------------------------------------------------------------------
(***************************************************************************)
(* Type correctness.  LastAttemptNo has a value only if the attempt        *)
(* numbers of a task have a maximum, so that is part of the invariant.     *)
(***************************************************************************)
HasLast(t) == \E n \in AttemptNos(t) : \A m \in AttemptNos(t) : m <= n

TypeInv == TypeOK /\ \A t \in Tasks : HasLast(t)

LEMMA LastIsNat ==
    ASSUME TypeInv, NEW t \in Tasks
    PROVE  LastAttemptNo(t) \in Nat
  <1>1. AttemptNos(t) \subseteq Nat
    <2>1. attempts[t] \in Seq(Attempt)
      BY DEF TypeInv, TypeOK, DbTypeOK
    <2>2. \A i \in DOMAIN attempts[t] : attempts[t][i] \in Attempt
      BY <2>1
    <2>3. QED
      BY <2>2 DEF AttemptNos, Attempt
  <1>2. PICK n \in AttemptNos(t) : \A m \in AttemptNos(t) : m <= n
    BY DEF TypeInv, HasLast
  <1>3. LastAttemptNo(t) \in AttemptNos(t)
    BY <1>2 DEF LastAttemptNo
  <1>4. QED
    BY <1>1, <1>3

LEMMA InitTypeInv == Init => TypeInv
  <1> SUFFICES ASSUME Init PROVE TypeInv
    OBVIOUS
  <1>1. DbTypeOK
    BY DEF Init, DbTypeOK, TaskStatus, Requeuable, Terminal
  <1>2. RedisTypeOK
    BY DEF Init, RedisTypeOK
  <1>3. WorkerTypeOK
    BY DEF Init, WorkerTypeOK, Job, NoJob, WorkerPc, Processing
  <1>4. ClientTypeOK
    BY DEF Init, ClientTypeOK, Idle
  <1>5. \A t \in Tasks : AttemptNos(t) = {0}
    BY DEF Init, AttemptNos
  <1>6. \A t \in Tasks : HasLast(t)
    BY <1>5 DEF HasLast
  <1>7. QED
    BY <1>1, <1>2, <1>3, <1>4, <1>6 DEF Init, TypeInv, TypeOK

\* Parts of the invariant that a step leaves alone.
LEMMA SameDb ==
    ASSUME TypeInv, UNCHANGED dbVars
    PROVE  DbTypeOK' /\ \A t \in Tasks : HasLast(t)'
  <1>1. \A t \in Tasks : AttemptNos(t)' = AttemptNos(t)
    BY DEF AttemptNos, dbVars
  <1>2. \A t \in Tasks : HasLast(t)'
    BY <1>1 DEF TypeInv, HasLast
  <1>3. QED
    BY <1>2 DEF TypeInv, TypeOK, DbTypeOK, dbVars

LEMMA SameRedis ==
    ASSUME TypeInv, UNCHANGED redisVars
    PROVE  RedisTypeOK'
BY DEF TypeInv, TypeOK, RedisTypeOK, redisVars

LEMMA SameWorkers ==
    ASSUME TypeInv, UNCHANGED workerVars
    PROVE  WorkerTypeOK'
BY DEF TypeInv, TypeOK, WorkerTypeOK, workerVars

LEMMA SameClients ==
    ASSUME TypeInv, UNCHANGED <<client, repairs>>
    PROVE  ClientTypeOK' /\ repairs' \in Nat
BY DEF TypeInv, TypeOK, ClientTypeOK

\* Parts of the invariant that the usual updates keep.
LEMMA StatusUpdate ==
    ASSUME TypeInv, NEW t \in Tasks, NEW s \in TaskStatus,
           UpdateTaskStatus(t, s), UNCHANGED <<attempts, assets>>
    PROVE  DbTypeOK' /\ \A u \in Tasks : HasLast(u)'
  <1>1. \A u \in Tasks : AttemptNos(u)' = AttemptNos(u)
    BY DEF AttemptNos
  <1>2. \A u \in Tasks : HasLast(u)'
    BY <1>1 DEF TypeInv, HasLast
  <1>3. QED
    BY <1>2 DEF TypeInv, TypeOK, DbTypeOK, UpdateTaskStatus

\* FinishAttempt rewrites a row without renumbering it.
LEMMA FinishedRow ==
    ASSUME TypeInv, NEW t \in Tasks, NEW row \in Nat,
           NEW s \in {"running", "completed", "failed"}, NEW retry \in BOOLEAN,
           FinishAttempt(t, row, s, retry)
    PROVE  /\ attempts' \in [Tasks -> Seq(Attempt)]
           /\ \A u \in Tasks : DOMAIN attempts'[u] = DOMAIN attempts[u]
           /\ \A u \in Tasks : \A i \in DOMAIN attempts[u] :
                  attempts'[u][i].no = attempts[u][i].no
  <1> DEFINE e == [attempts[t][row] EXCEPT !.status = s, !.retry = retry]
  <1>1. attempts \in [Tasks -> Seq(Attempt)]
    BY DEF TypeInv, TypeOK, DbTypeOK
  <1>2. attempts' = [attempts EXCEPT ![t] = [attempts[t] EXCEPT ![row] = e]]
    BY DEF FinishAttempt
  <1>3. ASSUME row \in DOMAIN attempts[t]
        PROVE  e \in Attempt /\ e.no = attempts[t][row].no
    <2>1. attempts[t][row] \in Attempt
      BY <1>1, <1>3
    <2>2. QED
      BY <2>1 DEF Attempt
  <1>4. /\ [attempts[t] EXCEPT ![row] = e] \in Seq(Attempt)
        /\ DOMAIN [attempts[t] EXCEPT ![row] = e] = DOMAIN attempts[t]
    BY <1>1, <1>3, SeqUpdate
  <1>5. QED
    BY <1>1, <1>2, <1>3, <1>4

LEMMA FinishUpdate ==
    ASSUME TypeInv, NEW t \in Tasks, NEW row \in Nat,
           NEW s \in {"running", "completed", "failed"}, NEW retry \in BOOLEAN,
           FinishAttempt(t, row, s, retry), UNCHANGED <<status, assets>>
    PROVE  DbTypeOK' /\ \A u \in Tasks : HasLast(u)'
  <1>1. ASSUME NEW u \in Tasks
        PROVE  HasLast(u)'
    <2>1. DOMAIN attempts'[u] = DOMAIN attempts[u]
      BY FinishedRow
    <2>2. \A i \in DOMAIN attempts[u] : attempts'[u][i].no = attempts[u][i].no
      BY FinishedRow
    <2>3. AttemptNos(u)' = AttemptNos(u)
      BY <2>1, <2>2, Zenon DEF AttemptNos
    <2>4. QED
      BY <2>3 DEF HasLast, TypeInv
  <1>2. attempts' \in [Tasks -> Seq(Attempt)]
    BY FinishedRow
  <1>3. QED
    BY <1>1, <1>2 DEF TypeInv, TypeOK, DbTypeOK

LEMMA GotoUpdate ==
    ASSUME TypeInv, NEW w \in Workers, NEW l \in Processing, Goto(w, l),
           pc[w] \in Processing \cup {"lock"}, UNCHANGED job
    PROVE  WorkerTypeOK'
BY DEF TypeInv, TypeOK, WorkerTypeOK, Goto, WorkerPc, Processing

LEMMA BackToPollUpdate ==
    ASSUME TypeInv, NEW w \in Workers, BackToPoll(w)
    PROVE  WorkerTypeOK'
BY DEF TypeInv, TypeOK, WorkerTypeOK, BackToPoll, Goto, WorkerPc, Job, NoJob

\* The locals of a worker change and its task does not.
LEMMA JobUpdate ==
    ASSUME TypeInv, NEW w \in Workers, NEW j \in Job, j.task = job[w].task,
           job' = [job EXCEPT ![w] = j]
    PROVE  job' \in [Workers -> Job] /\ \A v \in Workers : job'[v].task = job[v].task
  <1>1. job \in [Workers -> Job]
    BY DEF TypeInv, TypeOK, WorkerTypeOK
  <1>2. QED
    BY <1>1

\* A worker past Dequeue has a task.
LEMMA WorkerTask ==
    ASSUME TypeInv, NEW w \in Workers, pc[w] \notin {"poll", "pop"}
    PROVE  job[w].task \in Tasks /\ job[w] \in Job
BY DEF TypeInv, TypeOK, WorkerTypeOK, Job

LEMMA ClientTask ==
    ASSUME TypeInv, NEW c \in Clients, client[c].pc # "idle"
    PROVE  client[c].task \in Tasks
BY DEF TypeInv, TypeOK, ClientTypeOK

-----------------------------------------------------------------------------
LEMMA ClientKeepsTypeInv ==
    ASSUME TypeInv, NEW c \in Clients,
           \/ \E t \in Tasks : InsertTask(c, t) \/ RepairLoad(c, t)
           \/ FinishRequest(c) \/ ClientStops(c)
    PROVE  TypeInv'
  <1> USE DEF TypeInv, TypeOK
  <1>1. CASE \E t \in Tasks : InsertTask(c, t)
    <2>1. PICK t \in Tasks : InsertTask(c, t)
      BY <1>1
    <2>2. ClientTypeOK' /\ repairs' \in Nat
      BY <2>1 DEF InsertTask, ClientTypeOK
    <2>3. DbTypeOK' /\ \A u \in Tasks : HasLast(u)'
      BY <2>1, StatusUpdate DEF InsertTask, TaskStatus, Requeuable
    <2>4. QED
      BY <2>1, <2>2, <2>3, SameRedis, SameWorkers DEF InsertTask
  <1>2. CASE \E t \in Tasks : RepairLoad(c, t)
    <2>1. PICK t \in Tasks : RepairLoad(c, t)
      BY <1>2
    <2>2. ClientTypeOK' /\ repairs' \in Nat
      BY <2>1 DEF RepairLoad, ClientTypeOK
    <2>3. QED
      BY <2>1, <2>2, SameDb, SameRedis, SameWorkers DEF RepairLoad
  <1>3. CASE RepairReset(c)
    <2>1. ClientTypeOK' /\ repairs' \in Nat
      BY <1>3 DEF RepairReset, ClientTypeOK
    <2>2. DbTypeOK' /\ \A u \in Tasks : HasLast(u)'
      BY <1>3, StatusUpdate, ClientTask DEF RepairReset, TaskStatus, Requeuable
    <2>3. QED
      BY <1>3, <2>1, <2>2, SameRedis, SameWorkers DEF RepairReset
  <1>4. CASE Enqueue(c)
    <2>1. ClientTypeOK' /\ repairs' \in Nat
      BY <1>4 DEF Enqueue, ClientTypeOK, Idle
    <2>2. RedisTypeOK'
      BY <1>4, ClientTask DEF Enqueue, RedisTypeOK, Push
    <2>3. QED
      BY <1>4, <2>1, <2>2, SameDb, SameWorkers DEF Enqueue
  <1>5. CASE EnqueueFails(c)
    <2>1. ClientTypeOK' /\ repairs' \in Nat
      BY <1>5 DEF EnqueueFails, ClientTypeOK
    <2>2. RedisTypeOK'
      <3>1. client[c].task \in Tasks
        BY <1>5, ClientTask DEF EnqueueFails
      <3>2. list' = list \/ list' = Append(list, client[c].task)
        BY <1>5 DEF EnqueueFails, Push
      <3>3. list' \in Seq(Tasks)
        BY <3>1, <3>2 DEF RedisTypeOK
      <3>4. QED
        BY <1>5, <3>3 DEF EnqueueFails, RedisTypeOK
    <2>3. QED
      BY <1>5, <2>1, <2>2, SameDb, SameWorkers DEF EnqueueFails
  <1>6. CASE MarkTaskEnqueueFailed(c)
    <2>1. ClientTypeOK' /\ repairs' \in Nat
      BY <1>6 DEF MarkTaskEnqueueFailed, ClientTypeOK, Idle
    <2>2. DbTypeOK' /\ \A u \in Tasks : HasLast(u)'
      BY <1>6, StatusUpdate, ClientTask DEF MarkTaskEnqueueFailed, TaskStatus, Requeuable
    <2>3. QED
      BY <1>6, <2>1, <2>2, SameRedis, SameWorkers DEF MarkTaskEnqueueFailed
  <1>7. CASE ClientStops(c)
    <2>1. ClientTypeOK' /\ repairs' \in Nat
      BY <1>7 DEF ClientStops, ClientTypeOK, Idle
    <2>2. QED
      BY <1>7, <2>1, SameDb, SameRedis, SameWorkers DEF ClientStops
  <1>8. QED
    BY <1>1, <1>2, <1>3, <1>4, <1>5, <1>6, <1>7 DEF FinishRequest

LEMMA RedisKeepsTypeInv ==
    ASSUME TypeInv, NEW t \in Tasks, BecomeDue(t) \/ ExpireLock(t)
    PROVE  TypeInv'
  <1>1. RedisTypeOK'
    BY DEF TypeInv, TypeOK, RedisTypeOK, BecomeDue, ExpireLock
  <1>2. UNCHANGED <<dbVars, workerVars, client, repairs>>
    BY DEF BecomeDue, ExpireLock
  <1>3. QED
    BY <1>1, <1>2, SameDb, SameWorkers, SameClients DEF TypeInv, TypeOK

LEMMA PollKeepsTypeInv ==
    ASSUME TypeInv, NEW w \in Workers,
           \/ PromoteScheduled(w) \/ Dequeue(w) \/ DequeueTimesOut(w)
           \/ LockTask(w) \/ SkipTask(w) \/ UnlockTask(w) \/ WorkerCrashes(w)
    PROVE  TypeInv'
  <1> USE DEF TypeInv, TypeOK
  <1>1. CASE PromoteScheduled(w)
    <2> DEFINE due == {t \in Tasks : scheduled[t] = "due"}
               n   == IF Cardinality(due) < PromoteLimit THEN Cardinality(due) ELSE PromoteLimit
    <2>1. n \in Nat
      BY PromotedBatch
    <2> HIDE DEF n
    <2>2. PICK batch \in [1..n -> due] :
            /\ list' = list \o batch
            /\ scheduled' = [t \in Tasks |->
                               IF \E i \in 1..n : batch[i] = t THEN "no" ELSE scheduled[t]]
      BY <1>1 DEF PromoteScheduled, n
    <2>3. batch \in Seq(Tasks)
      BY <2>1
    <2>4. UNCHANGED <<dbVars, lock, job, client, repairs>>
      BY <1>1 DEF PromoteScheduled
    <2>5. RedisTypeOK'
      BY <2>2, <2>3, <2>4 DEF RedisTypeOK
    <2>6. WorkerTypeOK'
      BY <1>1, <2>4 DEF PromoteScheduled, WorkerTypeOK, Goto, WorkerPc
    <2>7. QED
      BY <2>4, <2>5, <2>6, SameDb, SameClients
  <1>2. CASE Dequeue(w)
    <2>1. list' \in Seq(Tasks) /\ Head(list) \in Tasks
      BY <1>2 DEF Dequeue, RedisTypeOK
    <2>2. UNCHANGED <<dbVars, scheduled, lock, client, repairs>>
      BY <1>2 DEF Dequeue
    <2>3. RedisTypeOK'
      BY <2>1, <2>2 DEF RedisTypeOK
    <2>4. CASE Goto(w, "lock") /\ job' = [job EXCEPT ![w].task = Head(list)]
      <3>1. WorkerTypeOK'
        <4>1. job' \in [Workers -> Job] /\ pc' \in [Workers -> WorkerPc]
          BY <2>1, <2>4 DEF WorkerTypeOK, Goto, WorkerPc, Job
        <4>2. \A v \in Workers : job'[v].task = NoTask <=> pc'[v] \in {"poll", "pop"}
          BY <2>1, <2>4 DEF WorkerTypeOK, Goto, Job
        <4>3. QED
          BY <4>1, <4>2 DEF WorkerTypeOK
      <3>2. QED
        BY <2>2, <2>3, <3>1, SameDb, SameClients
    <2>5. CASE BackToPoll(w)
      BY <2>2, <2>3, <2>5, BackToPollUpdate, SameDb, SameClients
    <2>6. QED
      BY <1>2, <2>4, <2>5 DEF Dequeue
  <1>3. CASE DequeueTimesOut(w)
    <2>1. WorkerTypeOK'
      BY <1>3 DEF DequeueTimesOut, WorkerTypeOK, Goto, WorkerPc
    <2>2. QED
      BY <1>3, <2>1, SameDb, SameRedis, SameClients DEF DequeueTimesOut
  <1>4. CASE LockTask(w)
    <2>1. WorkerTypeOK'
      BY <1>4, BackToPollUpdate, GotoUpdate DEF LockTask, Processing
    <2>2. RedisTypeOK'
      BY <1>4 DEF LockTask, RedisTypeOK
    <2>3. QED
      BY <1>4, <2>1, <2>2, SameDb, SameClients DEF LockTask
  <1>5. CASE SkipTask(w)
    BY <1>5, BackToPollUpdate, SameDb, SameRedis, SameClients DEF SkipTask
  <1>6. CASE UnlockTask(w)
    <2>1. RedisTypeOK'
      BY <1>6 DEF UnlockTask, RedisTypeOK
    <2>2. QED
      BY <1>6, <2>1, BackToPollUpdate, SameDb, SameClients DEF UnlockTask
  <1>7. CASE WorkerCrashes(w)
    BY <1>7, BackToPollUpdate, SameDb, SameRedis, SameClients DEF WorkerCrashes
  <1>8. QED
    BY <1>1, <1>2, <1>3, <1>4, <1>5, <1>6, <1>7

\* The steps of ProcessTask that only move the worker on.
LEMMA LoadKeepsTypeInv ==
    ASSUME TypeInv, NEW w \in Workers,
           LoadTask(w) \/ StatementFails(w) \/ RetryEnqueueFails(w)
    PROVE  TypeInv'
  <1>1. UNCHANGED <<dbVars, redisVars, job, client, repairs>>
    BY DEF LoadTask, StatementFails, RetryEnqueueFails
  <1>2. WorkerTypeOK'
    BY <1>1, GotoUpdate DEF LoadTask, StatementFails, RetryEnqueueFails, Processing
  <1>3. QED
    BY <1>1, <1>2, SameDb, SameRedis, SameClients DEF TypeInv, TypeOK

LEMMA AttemptKeepsTypeInv ==
    ASSUME TypeInv, NEW w \in Workers, NumberAttempt(w) \/ InsertAttempt(w)
    PROVE  TypeInv'
  <1> USE DEF TypeInv, TypeOK
  <1> DEFINE t == job[w].task
  <1>1. t \in Tasks /\ job[w] \in Job
    BY WorkerTask DEF NumberAttempt, InsertAttempt
  <1>2. CASE NumberAttempt(w)
    <2>1. UNCHANGED <<dbVars, redisVars, client, repairs>>
      BY <1>2 DEF NumberAttempt
    <2>2. LastAttemptNo(t) + 1 \in Nat
      BY <1>1, LastIsNat
    <2>3. job' \in [Workers -> Job] /\ \A v \in Workers : job'[v].task = job[v].task
      <3> DEFINE j == [job[w] EXCEPT !.no = LastAttemptNo(t) + 1]
      <3>1. j \in Job /\ j.task = job[w].task
        BY <1>1, <2>2 DEF Job
      <3>2. job' = [job EXCEPT ![w] = j]
        BY <1>2 DEF NumberAttempt
      <3>3. QED
        BY <3>1, <3>2, JobUpdate
    <2>4. WorkerTypeOK'
      BY <1>2, <2>3 DEF NumberAttempt, WorkerTypeOK, Goto, WorkerPc, Processing
    <2>5. QED
      BY <2>1, <2>4, SameDb, SameRedis, SameClients
  <1>3. CASE InsertAttempt(w)
    <2> DEFINE new == [no |-> job[w].no, status |-> "running", retry |-> FALSE]
    <2>1. UNCHANGED <<status, assets, redisVars, client, repairs>>
      BY <1>3 DEF InsertAttempt
    <2>2. new \in Attempt
      BY <1>1 DEF Job, Attempt
    <2> HIDE DEF new
    <2>3. attempts' = [attempts EXCEPT ![t] = Append(attempts[t], new)]
      BY <1>3 DEF InsertAttempt, new
    <2>4. DbTypeOK'
      BY <1>1, <2>1, <2>2, <2>3 DEF DbTypeOK
    <2>5. job' \in [Workers -> Job] /\ \A v \in Workers : job'[v].task = job[v].task
      <3>1. Len(attempts[t]) + 1 \in Nat
        BY <1>1 DEF DbTypeOK
      <3> DEFINE j == [job[w] EXCEPT !.row = Len(attempts[t]) + 1]
      <3>2. j \in Job /\ j.task = job[w].task
        BY <1>1, <3>1 DEF Job
      <3>3. job' = [job EXCEPT ![w] = j]
        BY <1>3 DEF InsertAttempt
      <3>4. QED
        BY <3>2, <3>3, JobUpdate
    <2>6. WorkerTypeOK'
      BY <1>3, <2>5 DEF InsertAttempt, WorkerTypeOK, Goto, WorkerPc, Processing
    <2>7. ASSUME NEW u \in Tasks
          PROVE  HasLast(u)'
      <3>1. CASE u # t
        <4>1. attempts'[u] = attempts[u]
          BY <1>1, <2>3, <3>1 DEF DbTypeOK
        <4>2. AttemptNos(u)' = AttemptNos(u)
          BY <4>1, Zenon DEF AttemptNos
        <4>3. QED
          BY <4>2 DEF HasLast
      <3>2. CASE u = t
        <4>1. attempts[u] \in Seq(Attempt) /\ attempts'[u] = Append(attempts[u], new)
          BY <1>1, <2>3, <3>2 DEF DbTypeOK
        <4>2. AttemptNos(u)' = AttemptNos(u) \cup {new.no}
          BY <2>2, <4>1 DEF AttemptNos
        <4>3. AttemptNos(u) \subseteq Nat
          <5>1. \A i \in DOMAIN attempts[u] : attempts[u][i] \in Attempt
            BY <4>1
          <5>2. QED
            BY <5>1 DEF AttemptNos, Attempt
        <4>4. PICK n \in AttemptNos(u) : \A m \in AttemptNos(u) : m <= n
          BY DEF HasLast
        <4>5. new.no \in Nat
          BY <2>2 DEF Attempt
        <4>6. CASE new.no <= n
          BY <4>2, <4>4, <4>6 DEF HasLast
        <4>7. CASE n <= new.no
          <5>1. \A m \in AttemptNos(u) : m <= new.no
            BY <4>3, <4>4, <4>5, <4>7
          <5>2. QED
            BY <4>2, <4>5, <5>1 DEF HasLast
        <4>8. QED
          BY <4>3, <4>5, <4>6, <4>7
      <3>3. QED
        BY <3>1, <3>2
    <2>8. QED
      BY <2>1, <2>4, <2>6, <2>7, SameRedis, SameClients
  <1>4. QED
    BY <1>2, <1>3

\* Steps that write generation_task.status.
LEMMA StatusKeepsTypeInv ==
    ASSUME TypeInv, NEW w \in Workers,
           StartTask(w) \/ ConcludeTask(w) \/ FailTask(w) \/ RetryStatus(w) \/ RetryMark(w)
    PROVE  TypeInv'
  <1>1. UNCHANGED <<attempts, assets, redisVars, job, client, repairs>>
    BY DEF StartTask, ConcludeTask, FailTask, RetryStatus, RetryMark
  <1>2. job[w].task \in Tasks
    BY WorkerTask DEF StartTask, ConcludeTask, FailTask, RetryStatus, RetryMark
  <1>3. PICK s \in TaskStatus : UpdateTaskStatus(job[w].task, s)
    BY DEF StartTask, ConcludeTask, FailTask, RetryStatus, RetryMark,
           JobOutcome, Outcome, TaskStatus, Requeuable, Terminal
  <1>4. DbTypeOK' /\ \A u \in Tasks : HasLast(u)'
    BY <1>1, <1>2, <1>3, StatusUpdate
  <1>5. WorkerTypeOK'
    BY <1>1, GotoUpdate DEF StartTask, ConcludeTask, FailTask, RetryStatus, RetryMark, Processing
  <1>6. QED
    BY <1>1, <1>4, <1>5, SameRedis, SameClients DEF TypeInv, TypeOK

\* Steps that finish the attempt.
LEMMA FinishKeepsTypeInv ==
    ASSUME TypeInv, NEW w \in Workers, CloseAttempt(w) \/ FailAttempt(w) \/ RetryAttempt(w)
    PROVE  TypeInv'
  <1> DEFINE t == job[w].task
             row == job[w].row
  <1>1. UNCHANGED <<status, assets, redisVars, job, client, repairs>>
    BY DEF CloseAttempt, FailAttempt, RetryAttempt
  <1>2. t \in Tasks /\ row \in Nat
    BY WorkerTask DEF CloseAttempt, FailAttempt, RetryAttempt, Job
  <1>3. \/ UNCHANGED attempts
        \/ FinishAttempt(t, row, "completed", FALSE)
        \/ FinishAttempt(t, row, "failed", FALSE)
        \/ FinishAttempt(t, row, "failed", TRUE)
    BY DEF CloseAttempt, FailAttempt, RetryAttempt
  <1>4. DbTypeOK' /\ \A u \in Tasks : HasLast(u)'
    <2>1. CASE UNCHANGED attempts
      BY <1>1, <2>1, SameDb DEF dbVars
    <2>2. CASE FinishAttempt(t, row, "completed", FALSE)
      BY <1>1, <1>2, <2>2, FinishUpdate
    <2>3. CASE FinishAttempt(t, row, "failed", FALSE)
      BY <1>1, <1>2, <2>3, FinishUpdate
    <2>4. CASE FinishAttempt(t, row, "failed", TRUE)
      BY <1>1, <1>2, <2>4, FinishUpdate
    <2>5. QED
      BY <1>3, <2>1, <2>2, <2>3, <2>4
  <1>5. WorkerTypeOK'
    BY <1>1, GotoUpdate DEF CloseAttempt, FailAttempt, RetryAttempt, Processing
  <1>6. QED
    BY <1>1, <1>4, <1>5, SameRedis, SameClients DEF TypeInv, TypeOK

LEMMA GenerateKeepsTypeInv ==
    ASSUME TypeInv, NEW w \in Workers, Generate(w)
    PROVE  TypeInv'
  <1>1. UNCHANGED <<dbVars, redisVars, client, repairs>> /\ pc[w] = "generate"
    BY DEF Generate
  <1>2. PICK n \in 0..MaxFiles, err \in {"none", "retryable", "permanent"} :
            /\ job' = [job EXCEPT ![w].files = n, ![w].slot = 1, ![w].err = err]
            /\ Goto(w, AfterGenerate(n, err, job[w].no))
    BY DEF Generate
  <1>3. job' \in [Workers -> Job] /\ \A v \in Workers : job'[v].task = job[v].task
    <2> DEFINE j == [job[w] EXCEPT !.files = n, !.slot = 1, !.err = err]
    <2>1. job \in [Workers -> Job] /\ n \in Nat
      BY DEF TypeInv, TypeOK, WorkerTypeOK
    <2>2. j \in Job /\ j.task = job[w].task
      BY <2>1 DEF Job
    <2>3. job' = [job EXCEPT ![w] = j]
      BY <1>2, <2>1
    <2>4. QED
      BY <2>2, <2>3, JobUpdate
  <1>4. AfterGenerate(n, err, job[w].no) \in {"register", "close", "retry_attempt", "fail_attempt"}
    BY DEF AfterGenerate
  <1>5. WorkerTypeOK'
    BY <1>1, <1>2, <1>3, <1>4 DEF TypeInv, TypeOK, WorkerTypeOK, Goto, WorkerPc, Processing
  <1>6. QED
    BY <1>1, <1>5, SameDb, SameRedis, SameClients DEF TypeInv, TypeOK

LEMMA RegisterKeepsTypeInv ==
    ASSUME TypeInv, NEW w \in Workers, RegisterFile(w)
    PROVE  TypeInv'
  <1> DEFINE t == job[w].task
             f == job[w].slot
  <1>1. UNCHANGED <<status, attempts, redisVars, client, repairs>> /\ pc[w] = "register"
    BY DEF RegisterFile
  <1>2. t \in Tasks /\ job[w] \in Job
    BY <1>1, WorkerTask
  <1>3. \/ assets' = [assets EXCEPT ![t] = @ \cup {<<job[w].row, f>>}]
        \/ assets' = assets
    BY DEF RegisterFile
  <1>4. <<job[w].row, f>> \in Nat \X Nat
    BY <1>2 DEF Job
  <1>5. assets' \in [Tasks -> SUBSET (Nat \X Nat)]
    <2>1. assets \in [Tasks -> SUBSET (Nat \X Nat)]
      BY DEF TypeInv, TypeOK, DbTypeOK
    <2>2. assets[t] \cup {<<job[w].row, f>>} \in SUBSET (Nat \X Nat)
      BY <1>2, <1>4, <2>1
    <2>3. QED
      BY <1>3, <2>1, <2>2
  <1>6. \A u \in Tasks : HasLast(u)'
    <2>1. \A u \in Tasks : AttemptNos(u)' = AttemptNos(u)
      BY <1>1 DEF AttemptNos
    <2>2. QED
      BY <2>1 DEF TypeInv, HasLast
  <1>7. DbTypeOK'
    BY <1>1, <1>5 DEF TypeInv, TypeOK, DbTypeOK
  <1>8. job' \in [Workers -> Job] /\ \A v \in Workers : job'[v].task = job[v].task
    <2>1. f + 1 \in Nat /\ job[w].registered + 1 \in Nat
      BY <1>2 DEF Job
    <2> DEFINE stored == [job[w] EXCEPT !.slot = f + 1, !.registered = job[w].registered + 1]
               failed == [job[w] EXCEPT !.slot = f + 1, !.err = "permanent"]
    <2>2. job \in [Workers -> Job]
      BY DEF TypeInv, TypeOK, WorkerTypeOK
    <2>3. \/ job' = [job EXCEPT ![w].slot = f + 1, ![w].registered = @ + 1]
          \/ job' = [job EXCEPT ![w].slot = f + 1, ![w].err = "permanent"]
      BY DEF RegisterFile
    <2>4. job' = [job EXCEPT ![w] = stored] \/ job' = [job EXCEPT ![w] = failed]
      BY <2>2, <2>3
    <2>5. /\ stored \in Job /\ stored.task = job[w].task
          /\ failed \in Job /\ failed.task = job[w].task
      BY <1>2, <2>1 DEF Job
    <2> HIDE DEF stored, failed
    <2>6. QED
      BY <2>4, <2>5, JobUpdate
  <1>9. PICK l \in {"register", "close"} : Goto(w, l)
    BY DEF RegisterFile
  <1>10. WorkerTypeOK'
    BY <1>1, <1>8, <1>9 DEF TypeInv, TypeOK, WorkerTypeOK, Goto, WorkerPc, Processing
  <1>11. QED
    BY <1>1, <1>6, <1>7, <1>10, SameRedis, SameClients DEF TypeInv, TypeOK

LEMMA RetryEnqueueKeepsTypeInv ==
    ASSUME TypeInv, NEW w \in Workers, RetryEnqueue(w)
    PROVE  TypeInv'
  <1>1. UNCHANGED <<dbVars, list, lock, job, client, repairs>> /\ pc[w] = "retry_enqueue"
    BY DEF RetryEnqueue
  <1>2. RedisTypeOK'
    BY <1>1 DEF RetryEnqueue, TypeInv, TypeOK, RedisTypeOK
  <1>3. PICK l \in {"unlock", "retry_mark"} : Goto(w, l)
    BY DEF RetryEnqueue
  <1>4. WorkerTypeOK'
    BY <1>1, <1>3, GotoUpdate DEF Processing
  <1>5. QED
    BY <1>1, <1>2, <1>4, SameDb, SameClients DEF TypeInv, TypeOK

LEMMA NextKeepsTypeInv == TypeInv /\ [Next]_vars => TypeInv'
  <1> SUFFICES ASSUME TypeInv, [Next]_vars PROVE TypeInv'
    OBVIOUS
  <1>1. CASE \E c \in Clients, t \in Tasks : InsertTask(c, t) \/ RepairLoad(c, t)
    BY <1>1, ClientKeepsTypeInv
  <1>2. CASE \E c \in Clients : FinishRequest(c) \/ ClientStops(c)
    BY <1>2, ClientKeepsTypeInv
  <1>3. CASE \E t \in Tasks : BecomeDue(t) \/ ExpireLock(t)
    BY <1>3, RedisKeepsTypeInv
  <1>4. CASE \E w \in Workers : RunWorker(w) \/ WorkerCrashes(w)
    BY <1>4, PollKeepsTypeInv, LoadKeepsTypeInv, AttemptKeepsTypeInv, StatusKeepsTypeInv,
       FinishKeepsTypeInv, GenerateKeepsTypeInv, RegisterKeepsTypeInv, RetryEnqueueKeepsTypeInv
       DEF RunWorker, ProcessTask
  <1>5. CASE UNCHANGED vars
    BY <1>5, SameDb, SameRedis, SameWorkers, SameClients DEF vars, TypeInv, TypeOK
  <1>6. QED
    BY <1>1, <1>2, <1>3, <1>4, <1>5 DEF Next

\* Every variable keeps its type, whatever faults occur: in particular an
\* attempt always has a number to take (CreateAttempt's MAX is defined).
THEOREM TypeCorrect == Spec => []TypeInv
  <1>1. QED
    BY InitTypeInv, NextKeepsTypeInv, PTL DEF Spec

THEOREM TypesAreCorrect == Spec => []TypeOK
  <1>1. TypeInv => TypeOK
    BY DEF TypeInv
  <1>2. QED
    BY <1>1, TypeCorrect, PTL

-----------------------------------------------------------------------------
(***************************************************************************)
(* Mutual exclusion.  Only ExpireLock and UnlockTask free a lock; without  *)
(* the overrun fault both do so only when no worker but the one that       *)
(* unlocks is processing the task.                                         *)
(***************************************************************************)

\* Steps of ProcessTask move a worker that already holds its task.
LEMMA ProcessTaskStays ==
    ASSUME TypeInv, NEW w \in Workers, ProcessTask(w)
    PROVE  /\ pc[w] \in Processing
           /\ \A v \in Workers : v # w => pc'[v] = pc[v] /\ job'[v] = job[v]
           /\ job'[w].task = job[w].task
           /\ lock' = lock
  <1> USE DEF TypeInv, TypeOK, WorkerTypeOK, Goto, redisVars
  <1>1. CASE LoadTask(w) \/ StatementFails(w) \/ RetryEnqueueFails(w)
    BY <1>1 DEF LoadTask, StatementFails, RetryEnqueueFails, Processing
  <1>2. CASE NumberAttempt(w) \/ InsertAttempt(w)
    BY <1>2 DEF NumberAttempt, InsertAttempt, Processing, Job
  <1>3. CASE StartTask(w) \/ ConcludeTask(w) \/ FailTask(w) \/ RetryStatus(w) \/ RetryMark(w)
    BY <1>3 DEF StartTask, ConcludeTask, FailTask, RetryStatus, RetryMark, Processing
  <1>4. CASE CloseAttempt(w) \/ FailAttempt(w) \/ RetryAttempt(w)
    BY <1>4 DEF CloseAttempt, FailAttempt, RetryAttempt, Processing
  <1>5. CASE Generate(w)
    BY <1>5 DEF Generate, Processing, Job
  <1>6. CASE RegisterFile(w)
    BY <1>6 DEF RegisterFile, Processing, Job
  <1>7. CASE RetryEnqueue(w)
    BY <1>7 DEF RetryEnqueue, Processing
  <1>8. QED
    BY <1>1, <1>2, <1>3, <1>4, <1>5, <1>6, <1>7 DEF ProcessTask

LEMMA NextKeepsExclusion == TypeInv /\ ExclusiveProcessing /\ [Next]_vars => ExclusiveProcessing'
  <1> SUFFICES ASSUME TypeInv, "overrun" \notin Faults,
                      \A t \in Tasks, w \in Workers : Holds(w, t) => lock[t] = w,
                      [Next]_vars,
                      NEW t \in Tasks, NEW v \in Workers, Holds(v, t)'
               PROVE  lock'[t] = v
    BY DEF ExclusiveProcessing
  <1> USE DEF Holds
  <1>0. WorkerTypeOK /\ RedisTypeOK
    BY DEF TypeInv, TypeOK
  <1>1. CASE \E c \in Clients, u \in Tasks : InsertTask(c, u) \/ RepairLoad(c, u)
    BY <1>1 DEF InsertTask, RepairLoad, redisVars, workerVars
  <1>2. CASE \E c \in Clients : FinishRequest(c) \/ ClientStops(c)
    BY <1>2 DEF FinishRequest, RepairReset, Enqueue, EnqueueFails, MarkTaskEnqueueFailed,
                ClientStops, redisVars, workerVars
  <1>3. CASE \E u \in Tasks : BecomeDue(u) \/ ExpireLock(u)
    BY <1>0, <1>3 DEF BecomeDue, ExpireLock, workerVars, RedisTypeOK
  <1>4. ASSUME NEW w \in Workers, RunWorker(w) \/ WorkerCrashes(w)
        PROVE  lock'[t] = v
    <2>1. CASE PromoteScheduled(w)
      BY <1>0, <2>1 DEF PromoteScheduled, Goto, WorkerTypeOK, Processing
    <2>2. CASE Dequeue(w)
      BY <1>0, <2>2 DEF Dequeue, Goto, BackToPoll, WorkerTypeOK, Processing
    <2>3. CASE DequeueTimesOut(w)
      BY <1>0, <2>3 DEF DequeueTimesOut, Goto, redisVars, WorkerTypeOK, Processing
    <2>4. CASE LockTask(w)
      <3>1. job[w].task \in Tasks /\ lock[job[w].task] = NoWorker
        BY <2>4, WorkerTask DEF LockTask
      <3>2. CASE v = w
        BY <1>0, <2>4, <3>1, <3>2 DEF LockTask, Goto, BackToPoll, NoJob,
             WorkerTypeOK, RedisTypeOK, Processing
      <3>3. CASE v # w
        BY <1>0, <2>4, <3>1, <3>3 DEF LockTask, Goto, BackToPoll, WorkerTypeOK, RedisTypeOK
      <3>4. QED
        BY <3>2, <3>3
    <2>5. CASE SkipTask(w)
      BY <1>0, <2>5 DEF SkipTask, Goto, BackToPoll, redisVars, WorkerTypeOK, Processing
    <2>6. CASE UnlockTask(w)
      <3>1. job[w].task \in Tasks /\ lock[job[w].task] = w
        BY <2>6, WorkerTask DEF UnlockTask, Processing
      <3>2. pc'[w] = "poll" /\ (v # w => pc'[v] = pc[v] /\ job'[v] = job[v])
        BY <1>0, <2>6 DEF UnlockTask, Goto, BackToPoll, WorkerTypeOK
      <3>3. v # w /\ lock[t] = v
        BY <3>2 DEF Processing
      <3>4. QED
        BY <1>0, <2>6, <3>1, <3>3 DEF UnlockTask, RedisTypeOK
    <2>7. CASE WorkerCrashes(w)
      BY <1>0, <2>7 DEF WorkerCrashes, Goto, BackToPoll, redisVars, WorkerTypeOK, Processing
    <2>8. CASE ProcessTask(w)
      BY <2>8, ProcessTaskStays
    <2>9. QED
      BY <1>4, <2>1, <2>2, <2>3, <2>4, <2>5, <2>6, <2>7, <2>8 DEF RunWorker
  <1>5. CASE UNCHANGED vars
    BY <1>5 DEF vars, redisVars, workerVars
  <1>6. QED
    BY <1>1, <1>2, <1>3, <1>4, <1>5 DEF Next

\* As long as no execution outlives the TTL of its lock, at most one worker
\* is between LockTask and UnlockTask for a task, and it owns the key: for
\* any number of workers, crashes, repairs, lost replies and expired keys.
THEOREM ExclusionHolds == Spec => []ExclusiveProcessing
  <1>1. Init => ExclusiveProcessing
    BY DEF Init, ExclusiveProcessing, Holds, Processing
  <1>2. QED
    BY <1>1, TypeCorrect, NextKeepsExclusion, PTL DEF Spec
-----------------------------------------------------------------------------
(***************************************************************************)
(* Attempt numbers.  A worker that has read the maximum keeps a number     *)
(* that is still free: exclusion keeps every other worker from inserting   *)
(* a row of the same task before it does.                                  *)
(***************************************************************************)
Numbered(t) == \A i \in DOMAIN attempts[t] : attempts[t][i].no = i

NumberIsFree(w) == pc[w] = "insert" => job[w].no = Len(attempts[job[w].task]) + 1

NumberInv ==
    "overrun" \notin Faults =>
        (\A t \in Tasks : Numbered(t)) /\ (\A w \in Workers : NumberIsFree(w))

LEMMA LastIsLen ==
    ASSUME TypeInv, NEW t \in Tasks, Numbered(t)
    PROVE  LastAttemptNo(t) = Len(attempts[t])
  <1> DEFINE n == Len(attempts[t])
  <1>1. n \in Nat /\ DOMAIN attempts[t] = 1..n
    BY DEF TypeInv, TypeOK, DbTypeOK
  <1>2. AttemptNos(t) = 0..n
    <2>1. AttemptNos(t) = {0} \cup 1..n
      BY <1>1 DEF AttemptNos, Numbered
    <2>2. QED
      BY <1>1, <2>1
  <1>3. n \in AttemptNos(t) /\ \A m \in AttemptNos(t) : m <= n
    BY <1>1, <1>2
  <1>4. LastAttemptNo(t) \in AttemptNos(t) /\ \A m \in AttemptNos(t) : m <= LastAttemptNo(t)
    BY <1>3 DEF LastAttemptNo
  <1>5. QED
    BY <1>1, <1>2, <1>3, <1>4

\* What a step does that writes no attempt row and reads no maximum.
LEMMA QuietStep ==
    ASSUME TypeInv, NumberInv, "overrun" \notin Faults, attempts' = attempts,
           \A v \in Workers : pc'[v] = "insert" => pc[v] = "insert" /\ job'[v] = job[v]
    PROVE  NumberInv'
BY DEF NumberInv, Numbered, NumberIsFree

LEMMA ClientsAreQuiet ==
    ASSUME [Next]_vars, ~(\E w \in Workers : RunWorker(w) \/ WorkerCrashes(w))
    PROVE  attempts' = attempts /\ pc' = pc /\ job' = job
  <1>1. CASE \E c \in Clients, u \in Tasks : InsertTask(c, u) \/ RepairLoad(c, u)
    BY <1>1 DEF InsertTask, RepairLoad, dbVars, workerVars
  <1>2. CASE \E c \in Clients : FinishRequest(c) \/ ClientStops(c)
    BY <1>2 DEF FinishRequest, RepairReset, Enqueue, EnqueueFails, MarkTaskEnqueueFailed,
                ClientStops, dbVars, workerVars
  <1>3. CASE \E u \in Tasks : BecomeDue(u) \/ ExpireLock(u)
    BY <1>3 DEF BecomeDue, ExpireLock, dbVars, workerVars
  <1>4. CASE UNCHANGED vars
    BY <1>4 DEF vars, dbVars, workerVars
  <1>5. QED
    BY <1>1, <1>2, <1>3, <1>4 DEF Next

LEMMA LoopIsQuiet ==
    ASSUME TypeInv, NEW w \in Workers,
           \/ PromoteScheduled(w) \/ Dequeue(w) \/ DequeueTimesOut(w) \/ LockTask(w)
           \/ SkipTask(w) \/ UnlockTask(w) \/ WorkerCrashes(w)
    PROVE  /\ attempts' = attempts
           /\ \A v \in Workers : pc'[v] = "insert" => pc[v] = "insert" /\ job'[v] = job[v]
  <1> USE DEF Goto, BackToPoll, dbVars
  <1>1. WorkerTypeOK
    BY DEF TypeInv, TypeOK
  <1>2. attempts' = attempts
    BY DEF PromoteScheduled, Dequeue, DequeueTimesOut, LockTask, SkipTask, UnlockTask,
           WorkerCrashes
  <1>3. \A v \in Workers \ {w} : pc'[v] = pc[v] /\ job'[v] = job[v]
    BY <1>1 DEF PromoteScheduled, Dequeue, DequeueTimesOut, LockTask, SkipTask, UnlockTask,
           WorkerCrashes, WorkerTypeOK
  <1>4. pc'[w] \in {"poll", "pop", "lock", "load"}
    BY <1>1 DEF PromoteScheduled, Dequeue, DequeueTimesOut, LockTask, SkipTask, UnlockTask,
           WorkerCrashes, WorkerTypeOK
  <1>5. QED
    BY <1>2, <1>3, <1>4

\* Every other step of ProcessTask but NumberAttempt and InsertAttempt.
LEMMA ProcessIsQuiet ==
    ASSUME TypeInv, NEW w \in Workers, ProcessTask(w),
           ~NumberAttempt(w), ~InsertAttempt(w)
    PROVE  /\ \A v \in Workers : pc'[v] # "insert" \/ (v # w /\ pc'[v] = pc[v] /\ job'[v] = job[v])
           /\ \/ attempts' = attempts
              \/ \E s \in {"completed", "failed"}, retry \in BOOLEAN :
                     FinishAttempt(job[w].task, job[w].row, s, retry)
  <1>1. \A v \in Workers : v # w => pc'[v] = pc[v] /\ job'[v] = job[v]
    BY ProcessTaskStays
  <1>2. WorkerTypeOK
    BY DEF TypeInv, TypeOK
  <1>3. pc'[w] # "insert"
    <2> USE <1>2 DEF WorkerTypeOK, Goto
    <2>1. CASE LoadTask(w) \/ StatementFails(w) \/ RetryEnqueueFails(w)
      BY <2>1 DEF LoadTask, StatementFails, RetryEnqueueFails
    <2>2. CASE StartTask(w) \/ ConcludeTask(w) \/ FailTask(w) \/ RetryStatus(w) \/ RetryMark(w)
      BY <2>2 DEF StartTask, ConcludeTask, FailTask, RetryStatus, RetryMark
    <2>3. CASE CloseAttempt(w) \/ FailAttempt(w) \/ RetryAttempt(w) \/ RetryEnqueue(w)
      BY <2>3 DEF CloseAttempt, FailAttempt, RetryAttempt, RetryEnqueue
    <2>4. CASE Generate(w)
      BY <2>4 DEF Generate, AfterGenerate
    <2>5. CASE RegisterFile(w)
      BY <2>5 DEF RegisterFile
    <2>6. QED
      BY <2>1, <2>2, <2>3, <2>4, <2>5 DEF ProcessTask
  <1>4. \/ attempts' = attempts
        \/ \E s \in {"completed", "failed"}, retry \in BOOLEAN :
               FinishAttempt(job[w].task, job[w].row, s, retry)
    <2> USE DEF dbVars
    <2>1. CASE LoadTask(w) \/ StatementFails(w) \/ RetryEnqueueFails(w)
      BY <2>1 DEF LoadTask, StatementFails, RetryEnqueueFails
    <2>2. CASE StartTask(w) \/ ConcludeTask(w) \/ FailTask(w) \/ RetryStatus(w) \/ RetryMark(w)
      BY <2>2 DEF StartTask, ConcludeTask, FailTask, RetryStatus, RetryMark
    <2>3. CASE CloseAttempt(w)
      BY <2>3 DEF CloseAttempt
    <2>4. CASE FailAttempt(w)
      BY <2>4 DEF FailAttempt
    <2>5. CASE RetryAttempt(w)
      BY <2>5 DEF RetryAttempt
    <2>6. CASE Generate(w) \/ RegisterFile(w) \/ RetryEnqueue(w)
      BY <2>6 DEF Generate, RegisterFile, RetryEnqueue
    <2>7. QED
      BY <2>1, <2>2, <2>3, <2>4, <2>5, <2>6 DEF ProcessTask
  <1>5. QED
    BY <1>1, <1>3, <1>4

LEMMA NumberStep ==
    ASSUME TypeInv, NumberInv, "overrun" \notin Faults, NEW w \in Workers, NumberAttempt(w)
    PROVE  NumberInv'
  <1> DEFINE t == job[w].task
             j == [job[w] EXCEPT !.no = LastAttemptNo(t) + 1]
  <1>1. t \in Tasks /\ job[w] \in Job
    BY WorkerTask DEF NumberAttempt
  <1>2. attempts' = attempts /\ pc' = [pc EXCEPT ![w] = "insert"]
    BY DEF NumberAttempt, Goto, dbVars
  <1>3. job' = [job EXCEPT ![w] = j]
    BY DEF NumberAttempt
  <1>4. j.task = t /\ j.no = Len(attempts[t]) + 1
    BY <1>1, LastIsLen DEF NumberInv, Job
  <1>5. job \in [Workers -> Job] /\ pc \in [Workers -> WorkerPc]
    BY DEF TypeInv, TypeOK, WorkerTypeOK
  <1> HIDE DEF j
  <1>6. job'[w] = j /\ \A v \in Workers \ {w} : job'[v] = job[v] /\ pc'[v] = pc[v]
    BY <1>2, <1>3, <1>5
  <1>7. \A v \in Workers : NumberIsFree(v)'
    <2>1. NumberIsFree(w)'
      BY <1>2, <1>4, <1>6 DEF NumberIsFree
    <2>2. \A v \in Workers \ {w} : NumberIsFree(v)'
      BY <1>2, <1>6 DEF NumberInv, NumberIsFree
    <2>3. QED
      BY <2>1, <2>2
  <1>8. QED
    BY <1>2, <1>7 DEF NumberInv, Numbered

LEMMA InsertStep ==
    ASSUME TypeInv, ExclusiveProcessing, NumberInv, "overrun" \notin Faults,
           NEW w \in Workers, InsertAttempt(w)
    PROVE  NumberInv'
  <1> DEFINE t == job[w].task
             new == [no |-> job[w].no, status |-> "running", retry |-> FALSE]
  <1>1. t \in Tasks /\ pc[w] = "insert"
    BY WorkerTask DEF InsertAttempt
  <1>2. attempts \in [Tasks -> Seq(Attempt)] /\ attempts[t] \in Seq(Attempt)
    BY <1>1 DEF TypeInv, TypeOK, DbTypeOK
  <1>3. attempts' = [attempts EXCEPT ![t] = Append(attempts[t], new)]
    BY DEF InsertAttempt
  <1>4. new.no = Len(attempts[t]) + 1
    BY <1>1 DEF NumberInv, NumberIsFree
  <1> HIDE DEF new
  <1>5. \A u \in Tasks : Numbered(u)'
    <2>1. \A u \in Tasks \ {t} : attempts'[u] = attempts[u]
      BY <1>2, <1>3
    <2>2. attempts'[t] = Append(attempts[t], new)
      BY <1>1, <1>2, <1>3
    <2>3. ASSUME NEW u \in Tasks, u = t
          PROVE  Numbered(u)'
      <3>1. ASSUME NEW i \in 1..(Len(attempts[u]) + 1)
            PROVE  attempts'[u][i].no = i
        <4>1. Numbered(u) /\ attempts[u] \in Seq(Attempt)
          BY <1>2 DEF NumberInv
        <4>2. attempts'[u] = Append(attempts[u], new) /\ new.no = Len(attempts[u]) + 1
          BY <1>4, <2>2, <2>3
        <4>3. CASE i = Len(attempts[u]) + 1
          BY <4>1, <4>2, <4>3
        <4>4. CASE i # Len(attempts[u]) + 1
          BY <4>1, <4>2, <4>4 DEF Numbered
        <4>5. QED
          BY <4>3, <4>4
      <3>2. DOMAIN attempts'[u] = 1..(Len(attempts[u]) + 1)
        BY <1>2, <2>2, <2>3
      <3>3. QED
        BY <3>1, <3>2 DEF Numbered
    <2>4. QED
      BY <2>1, <2>3 DEF NumberInv, Numbered
  <1>6. \A v \in Workers : NumberIsFree(v)'
    <2>1. ASSUME NEW v \in Workers, pc'[v] = "insert"
          PROVE  v # w /\ pc[v] = "insert" /\ job'[v] = job[v]
      BY <1>1, <2>1 DEF InsertAttempt, Goto, TypeInv, TypeOK, WorkerTypeOK
    <2>2. ASSUME NEW v \in Workers, v # w, pc[v] = "insert"
          PROVE  job[v].task \in Tasks /\ job[v].task # t
      <3>1. job[v].task \in Tasks
        BY <2>2, WorkerTask
      <3>2. Holds(v, job[v].task) /\ Holds(w, t)
        BY <1>1, <2>2 DEF Holds, Processing
      <3>3. QED
        BY <1>1, <2>2, <3>1, <3>2 DEF ExclusiveProcessing
    <2>3. \A u \in Tasks \ {t} : attempts'[u] = attempts[u]
      BY <1>2, <1>3
    <2>4. ASSUME NEW v \in Workers, pc'[v] = "insert"
          PROVE  job'[v].no = Len(attempts'[job'[v].task]) + 1
      <3>1. v # w /\ pc[v] = "insert" /\ job'[v] = job[v]
        BY <2>1, <2>4
      <3>2. attempts'[job[v].task] = attempts[job[v].task]
        BY <2>2, <2>3, <3>1
      <3>3. job[v].no = Len(attempts[job[v].task]) + 1
        BY <3>1 DEF NumberInv, NumberIsFree
      <3>4. QED
        BY <3>1, <3>2, <3>3
    <2>5. QED
      BY <2>4 DEF NumberIsFree
  <1>7. QED
    BY <1>5, <1>6 DEF NumberInv

LEMMA ProcessStep ==
    ASSUME TypeInv, NumberInv, "overrun" \notin Faults, NEW w \in Workers, ProcessTask(w),
           ~NumberAttempt(w), ~InsertAttempt(w)
    PROVE  NumberInv'
  <1>1. \A v \in Workers : pc'[v] = "insert" => pc[v] = "insert" /\ job'[v] = job[v]
    BY ProcessIsQuiet
  <1>2. CASE attempts' = attempts
    BY <1>1, <1>2, QuietStep
  <1>3. CASE attempts' # attempts
    <2>1. PICK s \in {"completed", "failed"}, retry \in BOOLEAN :
              FinishAttempt(job[w].task, job[w].row, s, retry)
      BY <1>3, ProcessIsQuiet
    <2>2. job[w].task \in Tasks /\ job[w].row \in Nat
      <3>1. pc[w] \in Processing
        BY ProcessTaskStays
      <3>2. QED
        BY <3>1, WorkerTask DEF Processing, Job
    <2>3. /\ attempts' \in [Tasks -> Seq(Attempt)]
          /\ \A u \in Tasks : DOMAIN attempts'[u] = DOMAIN attempts[u]
          /\ \A u \in Tasks : \A i \in DOMAIN attempts[u] :
                 attempts'[u][i].no = attempts[u][i].no
      BY <2>1, <2>2, FinishedRow
    <2>4. \A u \in Tasks : Len(attempts'[u]) = Len(attempts[u])
      <3>1. \A u \in Tasks : attempts[u] \in Seq(Attempt) /\ attempts'[u] \in Seq(Attempt)
        BY <2>3 DEF TypeInv, TypeOK, DbTypeOK
      <3>2. QED
        BY <2>3, <3>1
    <2>5. \A u \in Tasks : Numbered(u)'
      BY <2>3 DEF NumberInv, Numbered
    <2>6. \A v \in Workers : pc[v] = "insert" => job[v].task \in Tasks
      BY WorkerTask
    <2>7. \A v \in Workers : NumberIsFree(v)'
      BY <1>1, <2>4, <2>6 DEF NumberInv, NumberIsFree
    <2>8. QED
      BY <2>5, <2>7 DEF NumberInv
  <1>4. QED
    BY <1>2, <1>3

LEMMA NextKeepsNumbers == TypeInv /\ ExclusiveProcessing /\ NumberInv /\ [Next]_vars => NumberInv'
  <1> SUFFICES ASSUME TypeInv, ExclusiveProcessing, NumberInv, [Next]_vars,
                      "overrun" \notin Faults
               PROVE  NumberInv'
    BY DEF NumberInv
  <1>1. ASSUME NEW w \in Workers, RunWorker(w) \/ WorkerCrashes(w)
        PROVE  NumberInv'
    <2>1. CASE NumberAttempt(w)
      BY <2>1, NumberStep
    <2>2. CASE InsertAttempt(w)
      BY <2>2, InsertStep
    <2>3. CASE ProcessTask(w) /\ ~NumberAttempt(w) /\ ~InsertAttempt(w)
      BY <2>3, ProcessStep
    <2>4. CASE ~ProcessTask(w)
      <3>1. /\ attempts' = attempts
            /\ \A v \in Workers : pc'[v] = "insert" => pc[v] = "insert" /\ job'[v] = job[v]
        BY <1>1, <2>4, LoopIsQuiet DEF RunWorker
      <3>2. QED
        BY <3>1, QuietStep
    <2>5. QED
      BY <2>1, <2>2, <2>3, <2>4
  <1>2. CASE ~(\E w \in Workers : RunWorker(w) \/ WorkerCrashes(w))
    BY <1>2, ClientsAreQuiet, QuietStep
  <1>3. QED
    BY <1>1, <1>2

\* The attempts of a task are numbered 1, 2, 3, ... in the order of their rows,
\* for any number of workers, repairs and lost replies, although CreateAttempt
\* reads the maximum and inserts the row in two statements: the task lock is
\* what makes them one, so the retry bound, which counts by number, is sound.
THEOREM NumberingHolds == Spec => []AttemptsNumbered
  <1>1. Init => NumberInv
    BY DEF Init, NumberInv, Numbered, NumberIsFree
  <1>2. NumberInv => AttemptsNumbered
    BY DEF NumberInv, Numbered, AttemptsNumbered
  <1>3. QED
    BY <1>1, <1>2, TypeCorrect, ExclusionHolds, NextKeepsNumbers, PTL DEF Spec
=============================================================================
