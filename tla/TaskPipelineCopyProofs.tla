----------------------- MODULE TaskPipelineCopyProofs -----------------------
(***************************************************************************)
(* What TaskPipeline promises as long as no operator requeues a task: the  *)
(* id of a task is in one place, so one attempt delivers its images, its   *)
(* attempts are closed when it settles, and it lives the life that         *)
(* TaskLifecycle describes.  Proved for every set of tasks, workers and    *)
(* clients and every retry limit, and each theorem for every fault it can  *)
(* bear.                                                                   *)
(***************************************************************************)
EXTENDS TaskPipelineProofs

USE PipelineAssumption

-----------------------------------------------------------------------------
(* Members of a sequence and what the commands of Redis make of them.       *)

In(s, t)     == \E i \in DOMAIN s : s[i] = t
OnceIn(s, t) == \A i, j \in DOMAIN s : s[i] = t /\ s[j] = t => i = j

\* RPUSH.
LEMMA Pushed ==
    ASSUME NEW s \in Seq(Tasks), NEW x \in Tasks, NEW t
    PROVE  /\ In(Append(s, x), t) <=> In(s, t) \/ t = x
           /\ OnceIn(s, t) /\ (t = x => ~In(s, t)) => OnceIn(Append(s, x), t)
  <1> DEFINE r == Append(s, x)
  <1>1. /\ Len(s) \in Nat /\ DOMAIN s = 1..Len(s) /\ DOMAIN r = 1..(Len(s) + 1)
        /\ r[Len(s) + 1] = x /\ \A i \in 1..Len(s) : r[i] = s[i]
    OBVIOUS
  <1> HIDE DEF r
  <1>2. In(r, t) <=> In(s, t) \/ t = x
    BY <1>1 DEF In
  <1>3. OnceIn(s, t) /\ (t = x => ~In(s, t)) => OnceIn(r, t)
    BY <1>1 DEF In, OnceIn
  <1>4. QED
    BY <1>2, <1>3 DEF r

\* BLPOP.
LEMMA Popped ==
    ASSUME NEW s \in Seq(Tasks), s # <<>>, NEW t
    PROVE  /\ In(s, t) <=> In(Tail(s), t) \/ t = Head(s)
           /\ OnceIn(s, t) => OnceIn(Tail(s), t)
           /\ OnceIn(s, t) /\ t = Head(s) => ~In(Tail(s), t)
  <1> DEFINE r == Tail(s)
  <1>1. /\ Len(s) \in Nat \ {0} /\ DOMAIN s = 1..Len(s) /\ DOMAIN r = 1..(Len(s) - 1)
        /\ Head(s) = s[1] /\ \A i \in 1..(Len(s) - 1) : r[i] = s[i + 1]
    OBVIOUS
  <1> HIDE DEF r
  <1>2. \A i \in 2..Len(s) : i - 1 \in DOMAIN r /\ r[i - 1] = s[i]
    BY <1>1
  <1>3. In(s, t) <=> In(r, t) \/ t = Head(s)
    <2>1. ASSUME In(s, t), t # Head(s) PROVE In(r, t)
      <3>1. PICK i \in 1..Len(s) : s[i] = t
        BY <1>1, <2>1 DEF In
      <3>2. i \in 2..Len(s)
        BY <1>1, <2>1, <3>1
      <3>3. QED
        BY <1>2, <3>1, <3>2 DEF In
    <2>2. QED
      BY <1>1, <2>1 DEF In
  <1>4. OnceIn(s, t) => OnceIn(r, t)
    <2>1. SUFFICES ASSUME OnceIn(s, t), NEW i \in DOMAIN r, NEW j \in DOMAIN r, r[i] = t, r[j] = t
                   PROVE  i = j
      BY DEF OnceIn
    <2>2. i + 1 \in DOMAIN s /\ j + 1 \in DOMAIN s /\ s[i + 1] = t /\ s[j + 1] = t
      BY <1>1, <2>1
    <2>3. i + 1 = j + 1
      BY <2>1, <2>2 DEF OnceIn
    <2>4. QED
      BY <1>1, <2>3
  <1>5. OnceIn(s, t) /\ t = Head(s) => ~In(r, t)
    <2>1. SUFFICES ASSUME OnceIn(s, t), t = Head(s), NEW i \in DOMAIN r, r[i] = t
                   PROVE  FALSE
      BY DEF In
    <2>2. i + 1 \in DOMAIN s /\ s[i + 1] = t /\ 1 \in DOMAIN s /\ s[1] = t
      BY <1>1, <2>1
    <2>3. i + 1 = 1
      BY <2>1, <2>2 DEF OnceIn
    <2>4. QED
      BY <1>1, <2>3
  <1>6. QED
    BY <1>3, <1>4, <1>5 DEF r

\* The RPUSHs of the script.
LEMMA Joined ==
    ASSUME NEW s \in Seq(Tasks), NEW n \in Nat, NEW b \in [1..n -> Tasks],
           \A i, j \in 1..n : b[i] = b[j] => i = j, NEW t
    PROVE  /\ In(s \o b, t) <=> In(s, t) \/ \E i \in 1..n : b[i] = t
           /\ OnceIn(s, t) /\ ((\E i \in 1..n : b[i] = t) => ~In(s, t)) => OnceIn(s \o b, t)
  <1> DEFINE r == s \o b
             m == Len(s)
  <1>1. b \in Seq(Tasks) /\ Len(b) = n
    OBVIOUS
  <1>2. /\ m \in Nat /\ DOMAIN s = 1..m /\ DOMAIN r = 1..(m + n)
        /\ \A i \in 1..m : r[i] = s[i]
        /\ \A i \in (m + 1)..(m + n) : r[i] = b[i - m]
    BY <1>1
  <1> HIDE DEF r, m
  <1>3. \A i \in 1..n : i + m \in DOMAIN r /\ r[i + m] = b[i]
    BY <1>2
  <1>4. \A i \in DOMAIN r : \/ i \in DOMAIN s /\ r[i] = s[i]
                            \/ i > m /\ i - m \in 1..n /\ r[i] = b[i - m]
    BY <1>2
  <1>5. In(r, t) <=> In(s, t) \/ \E i \in 1..n : b[i] = t
    <2>1. In(r, t) => In(s, t) \/ \E i \in 1..n : b[i] = t
      BY <1>4 DEF In
    <2>2. In(s, t) => In(r, t)
      BY <1>2 DEF In
    <2>3. (\E i \in 1..n : b[i] = t) => In(r, t)
      BY <1>3 DEF In
    <2>4. QED
      BY <2>1, <2>2, <2>3
  <1>6. ASSUME OnceIn(s, t), (\E i \in 1..n : b[i] = t) => ~In(s, t)
        PROVE  OnceIn(r, t)
    <2>1. SUFFICES ASSUME NEW i \in DOMAIN r, NEW j \in DOMAIN r, r[i] = t, r[j] = t
                   PROVE  i = j
      BY DEF OnceIn
    <2>2. CASE i \in DOMAIN s /\ j \in DOMAIN s
      BY <1>2, <1>6, <2>1, <2>2 DEF OnceIn
    <2>3. CASE i \notin DOMAIN s /\ j \notin DOMAIN s
      <3>1. i - m \in 1..n /\ j - m \in 1..n /\ b[i - m] = b[j - m]
        BY <1>4, <2>1, <2>3
      <3>2. i - m = j - m
        BY <3>1
      <3>3. QED
        BY <1>2, <3>2
    <2>4. CASE ~(i \in DOMAIN s <=> j \in DOMAIN s)
      <3>1. In(s, t)
        <4>1. ASSUME NEW k \in DOMAIN r, k \in DOMAIN s, r[k] = t PROVE In(s, t)
          <5>1. s[k] = t
            BY <1>2, <4>1
          <5>2. QED
            BY <4>1, <5>1 DEF In
        <4>2. QED
          BY <2>1, <2>4, <4>1
      <3>2. \E k \in 1..n : b[k] = t
        BY <1>4, <2>1, <2>4
      <3>3. QED
        BY <1>6, <3>1, <3>2
    <2>5. QED
      BY <2>2, <2>3, <2>4
  <1>7. QED
    BY <1>5, <1>6 DEF r

-----------------------------------------------------------------------------
(***************************************************************************)
(* Where the id of a task can be while somebody will still act on it.      *)
(***************************************************************************)
InList(t)   == In(list, t)
Delayed(t)  == scheduled[t] # "no"
Live(w, t)  == job[w].task = t /\ pc[w] \notin {"retry_mark", "unlock"}
Sends(c, t) == client[c].task = t /\ client[c].pc # "mark"

OneCopy(t) ==
    /\ OnceIn(list, t)
    /\ InList(t) => ~Delayed(t)
    /\ InList(t) \/ Delayed(t) => \A w \in Workers : ~Live(w, t)
    /\ InList(t) \/ Delayed(t) \/ (\E w \in Workers : Live(w, t)) =>
         \A c \in Clients : ~Sends(c, t)
    /\ \A v, w \in Workers : Live(v, t) /\ Live(w, t) => v = w
    /\ \A c, d \in Clients : Sends(c, t) /\ Sends(d, t) => c = d

\* A task without a row is unknown to everybody.
Unsent(t) ==
    status[t] = "none" =>
        /\ ~InList(t) /\ ~Delayed(t) /\ assets[t] = {} /\ attempts[t] = <<>>
        /\ \A w \in Workers : job[w].task # t
        /\ \A c \in Clients : client[c].task # t

\* Images are registered by the worker that has the copy, for its attempt;
\* wherever else the copy is, there is no image yet.
Delivering == {"register", "close", "conclude"}

Delivered(t) ==
    /\ InList(t) \/ Delayed(t) \/ (\E c \in Clients : Sends(c, t)) => assets[t] = {}
    /\ \A w \in Workers : Live(w, t) =>
         IF pc[w] \in Delivering THEN \A a \in assets[t] : a[1] = job[w].row
         ELSE assets[t] = {}
    /\ \A a, b \in assets[t] : a[1] = b[1]

CopyInv ==
    /\ \A c \in Clients : client[c].pc # "requeue"
    /\ \A t \in Tasks : OneCopy(t) /\ Unsent(t) /\ Delivered(t)

\* What a step may do to the tasks it is not about: nothing.
Untouched(t) ==
    /\ status'[t] = status[t] /\ attempts'[t] = attempts[t] /\ assets'[t] = assets[t]
    /\ InList(t)' = InList(t) /\ (OnceIn(list, t) => OnceIn(list', t))
    /\ scheduled'[t] = scheduled[t]
    /\ \A w \in Workers : job[w].task = t \/ job'[w].task = t =>
         job'[w] = job[w] /\ pc'[w] = pc[w]
    /\ \A c \in Clients : client[c].task = t \/ client'[c].task = t => client'[c] = client[c]

LEMMA UntouchedKeeps ==
    ASSUME NEW t \in Tasks, Untouched(t), OneCopy(t), Unsent(t), Delivered(t)
    PROVE  OneCopy(t)' /\ Unsent(t)' /\ Delivered(t)'
  <1>1. /\ InList(t)' = InList(t) /\ Delayed(t)' = Delayed(t)
        /\ OnceIn(list, t)'
    BY DEF Untouched, Delayed, OneCopy
  <1>2. /\ \A w \in Workers : Live(w, t)' = Live(w, t)
        /\ \A c \in Clients : Sends(c, t)' = Sends(c, t)
    BY DEF Untouched, Live, Sends
  <1>3. OneCopy(t)'
    BY <1>1, <1>2 DEF OneCopy
  <1>4. Unsent(t)'
    BY <1>1 DEF Unsent, Untouched
  <1>5. \A w \in Workers : Live(w, t) => pc'[w] = pc[w] /\ job'[w] = job[w]
    BY DEF Live, Untouched
  <1>6. Delivered(t)'
    BY <1>1, <1>2, <1>5 DEF Delivered, Untouched
  <1>7. QED
    BY <1>3, <1>4, <1>6

\* A step that adds no copy.
LEMMA FewerKeeps ==
    ASSUME NEW t \in Tasks, OneCopy(t), OnceIn(list, t)', InList(t)' => InList(t),
           Delayed(t)' => Delayed(t), \A w \in Workers : Live(w, t)' => Live(w, t),
           \A c \in Clients : Sends(c, t)' => Sends(c, t)
    PROVE  OneCopy(t)'
BY DEF OneCopy

\* The worker that has the copy is the only one to have it.
LEMMA Alone ==
    ASSUME NEW t \in Tasks, NEW w \in Workers, OneCopy(t), Live(w, t)
    PROVE  /\ ~InList(t) /\ ~Delayed(t) /\ \A c \in Clients : ~Sends(c, t)
           /\ \A v \in Workers \ {w} : ~Live(v, t)
BY DEF OneCopy

-----------------------------------------------------------------------------
(***************************************************************************)
(* The steps of ProcessTask, seen from the task they are about.            *)
(***************************************************************************)
StatusSteps(w)  == StartTask(w) \/ ConcludeTask(w) \/ FailTask(w) \/ RetryStatus(w) \/ RetryMark(w)
FinishSteps(w)  == CloseAttempt(w) \/ FailAttempt(w) \/ RetryAttempt(w)
AttemptSteps(w) == NumberAttempt(w) \/ InsertAttempt(w)
SilentSteps(w)  == LoadTask(w) \/ StatementFails(w) \/ RetryEnqueueFails(w)

LEMMA ProcessSplit ==
    ASSUME NEW w, ProcessTask(w)
    PROVE  \/ StatusSteps(w) \/ FinishSteps(w) \/ AttemptSteps(w) \/ SilentSteps(w)
           \/ Generate(w) \/ RegisterFile(w) \/ RetryEnqueue(w)
BY DEF ProcessTask, StatusSteps, FinishSteps, AttemptSteps, SilentSteps

\* Nothing but the rows of its task, its place in the zset and the worker.
LEMMA ProcessFrame ==
    ASSUME TypeInv, NEW w \in Workers, ProcessTask(w)
    PROVE  /\ list' = list /\ client' = client /\ repairs' = repairs
           /\ \A t \in Tasks \ {job[w].task} :
                /\ status'[t] = status[t] /\ attempts'[t] = attempts[t]
                /\ assets'[t] = assets[t] /\ scheduled'[t] = scheduled[t]
  <1> USE DEF dbVars, redisVars, UpdateTaskStatus, FinishAttempt
  <1>1. DbTypeOK /\ RedisTypeOK
    BY DEF TypeInv, TypeOK
  <1>2. CASE StatusSteps(w)
    BY <1>1, <1>2 DEF StatusSteps, StartTask, ConcludeTask, FailTask, RetryStatus, RetryMark,
                      DbTypeOK
  <1>3. CASE FinishSteps(w)
    BY <1>1, <1>3 DEF FinishSteps, CloseAttempt, FailAttempt, RetryAttempt, DbTypeOK
  <1>4. CASE AttemptSteps(w)
    BY <1>1, <1>4 DEF AttemptSteps, NumberAttempt, InsertAttempt, DbTypeOK
  <1>5. CASE SilentSteps(w)
    BY <1>5 DEF SilentSteps, LoadTask, StatementFails, RetryEnqueueFails
  <1>6. CASE Generate(w)
    BY <1>6 DEF Generate
  <1>7. CASE RegisterFile(w)
    BY <1>1, <1>7 DEF RegisterFile, DbTypeOK
  <1>8. CASE RetryEnqueue(w)
    BY <1>1, <1>8 DEF RetryEnqueue, RedisTypeOK
  <1>9. QED
    BY <1>2, <1>3, <1>4, <1>5, <1>6, <1>7, <1>8, ProcessSplit

-----------------------------------------------------------------------------
(* What each step does to the worker, to the rows of its task and to the    *)
(* place of the task in the zset.                                           *)
SameRows(t) == status'[t] = status[t] /\ attempts'[t] = attempts[t] /\ assets'[t] = assets[t]

SilentMove(w, t) ==
    /\ job'[w] = job[w] /\ SameRows(t) /\ scheduled'[t] = scheduled[t]
    /\ \/ pc[w] = "load" /\ pc'[w] = IF status[t] \in Terminal THEN "unlock" ELSE "number"
       \/ /\ "store_error" \in Faults
          /\ pc[w] \in {"load", "number", "insert", "start", "close", "conclude",
                        "fail_task", "retry_attempt", "retry_status", "retry_mark"}
          /\ pc'[w] = "unlock"
       \/ "redis_error" \in Faults /\ pc[w] = "retry_enqueue" /\ pc'[w] = "retry_mark"

StatusMove(w, t) ==
    /\ job'[w] = job[w] /\ attempts'[t] = attempts[t] /\ assets'[t] = assets[t]
    /\ scheduled'[t] = scheduled[t]
    /\ \/ pc[w] = "start" /\ pc'[w] = "generate" /\ status'[t] = "running"
       \/ pc[w] = "conclude" /\ pc'[w] = "unlock" /\ status'[t] = JobOutcome(w)
       \/ pc[w] = "fail_task" /\ pc'[w] = "unlock" /\ status'[t] = "failed"
       \/ pc[w] = "retry_status" /\ pc'[w] = "retry_enqueue" /\ status'[t] = "queued"
       \/ pc[w] = "retry_mark" /\ pc'[w] = "unlock" /\ status'[t] = "enqueue_failed"

Finished(t, row, s, retry) ==
    attempts'[t] = [attempts[t] EXCEPT ![row] =
                      [attempts[t][row] EXCEPT !.status = s, !.retry = retry]]

FinishMove(w, t) ==
    /\ job'[w] = job[w] /\ status'[t] = status[t] /\ assets'[t] = assets[t]
    /\ scheduled'[t] = scheduled[t]
    /\ \/ /\ pc[w] = "close" /\ pc'[w] = "conclude"
          /\ Finished(t, job[w].row,
                      IF JobOutcome(w) = "failed" THEN "failed" ELSE "completed", FALSE)
       \/ /\ pc[w] = "fail_attempt" /\ pc'[w] = "fail_task"
          /\ \/ Finished(t, job[w].row, "failed", FALSE)
             \/ "store_error" \in Faults /\ attempts'[t] = attempts[t]
       \/ /\ pc[w] = "retry_attempt" /\ pc'[w] = "retry_status"
          /\ Finished(t, job[w].row, "failed", TRUE)

AttemptMove(w, t) ==
    /\ status'[t] = status[t] /\ assets'[t] = assets[t] /\ scheduled'[t] = scheduled[t]
    /\ \/ /\ pc[w] = "number" /\ pc'[w] = "insert"
          /\ job'[w] = [job[w] EXCEPT !.no = LastAttemptNo(t) + 1] /\ job'[w].row = job[w].row
          /\ attempts'[t] = attempts[t]
       \/ /\ pc[w] = "insert" /\ pc'[w] = "start"
          /\ job'[w] = [job[w] EXCEPT !.row = Len(attempts[t]) + 1]
          /\ attempts'[t] = Append(attempts[t],
                              [no |-> job[w].no, status |-> "running", retry |-> FALSE])

GenerateMove(w, t) ==
    /\ SameRows(t) /\ scheduled'[t] = scheduled[t]
    /\ pc[w] = "generate"
    /\ \E n \in 0..MaxFiles, err \in {"none", "retryable", "permanent"} :
         /\ job'[w] = [job[w] EXCEPT !.files = n, !.slot = 1, !.err = err]
         /\ job'[w].row = job[w].row
         /\ pc'[w] = AfterGenerate(n, err, job[w].no)

RegisterMove(w, t) ==
    /\ status'[t] = status[t] /\ attempts'[t] = attempts[t] /\ scheduled'[t] = scheduled[t]
    /\ pc[w] = "register"
    /\ pc'[w] = IF job[w].slot < job[w].files THEN "register" ELSE "close"
    /\ job'[w].row = job[w].row
    /\ \/ /\ assets'[t] = assets[t] \cup {<<job[w].row, job[w].slot>>}
          /\ job'[w] = [job[w] EXCEPT !.slot = job[w].slot + 1,
                                      !.registered = job[w].registered + 1]
       \/ /\ "store_error" \in Faults
          /\ assets'[t] = assets[t]
          /\ job'[w] = [job[w] EXCEPT !.slot = job[w].slot + 1, !.err = "permanent"]

EnqueueMove(w, t) ==
    /\ job'[w] = job[w] /\ SameRows(t)
    /\ pc[w] = "retry_enqueue" /\ scheduled'[t] = "waiting"
    /\ pc'[w] = "unlock" \/ ("lost_reply" \in Faults /\ pc'[w] = "retry_mark")

LEMMA ProcessMove ==
    ASSUME TypeInv, NEW w \in Workers, ProcessTask(w)
    PROVE  LET t == job[w].task
           IN  \/ SilentMove(w, t) \/ StatusMove(w, t) \/ FinishMove(w, t) \/ AttemptMove(w, t)
               \/ GenerateMove(w, t) \/ RegisterMove(w, t) \/ EnqueueMove(w, t)
  <1> DEFINE t == job[w].task
  <1> USE DEF dbVars, redisVars, Goto
  <1>1. DbTypeOK /\ RedisTypeOK /\ pc \in [Workers -> WorkerPc] /\ job \in [Workers -> Job]
    BY DEF TypeInv, TypeOK, WorkerTypeOK
  <1>2. t \in Tasks /\ job[w] \in Job
    <2>1. pc[w] \in Processing
      BY ProcessTaskStays
    <2>2. QED
      BY <2>1, WorkerTask DEF Processing
  <1>3. CASE StatusSteps(w)
    <2> USE DEF UpdateTaskStatus
    <2>1. job'[w] = job[w] /\ attempts'[t] = attempts[t] /\ assets'[t] = assets[t]
          /\ scheduled'[t] = scheduled[t]
      BY <1>3 DEF StatusSteps, StartTask, ConcludeTask, FailTask, RetryStatus, RetryMark
    <2>2. \/ pc[w] = "start" /\ pc'[w] = "generate" /\ status'[t] = "running"
          \/ pc[w] = "conclude" /\ pc'[w] = "unlock" /\ status'[t] = JobOutcome(w)
          \/ pc[w] = "fail_task" /\ pc'[w] = "unlock" /\ status'[t] = "failed"
          \/ pc[w] = "retry_status" /\ pc'[w] = "retry_enqueue" /\ status'[t] = "queued"
          \/ pc[w] = "retry_mark" /\ pc'[w] = "unlock" /\ status'[t] = "enqueue_failed"
      BY <1>1, <1>2, <1>3 DEF StatusSteps, StartTask, ConcludeTask, FailTask, RetryStatus,
            RetryMark, DbTypeOK
    <2>3. QED
      BY <2>1, <2>2 DEF StatusMove
  <1>4. CASE FinishSteps(w)
    <2>1. \A s, retry : FinishAttempt(t, job[w].row, s, retry) => Finished(t, job[w].row, s, retry)
      BY <1>1, <1>2 DEF FinishAttempt, Finished, DbTypeOK
    <2>2. job'[w] = job[w] /\ status'[t] = status[t] /\ assets'[t] = assets[t]
          /\ scheduled'[t] = scheduled[t]
      BY <1>4 DEF FinishSteps, CloseAttempt, FailAttempt, RetryAttempt
    <2>3. CASE CloseAttempt(w)
      BY <1>1, <2>1, <2>2, <2>3 DEF CloseAttempt, FinishMove
    <2>4. CASE FailAttempt(w)
      BY <1>1, <2>1, <2>2, <2>4 DEF FailAttempt, FinishMove
    <2>5. CASE RetryAttempt(w)
      BY <1>1, <2>1, <2>2, <2>5 DEF RetryAttempt, FinishMove
    <2>6. QED
      BY <1>4, <2>3, <2>4, <2>5 DEF FinishSteps
  <1>5. CASE NumberAttempt(w)
    <2>1. job'[w] = [job[w] EXCEPT !.no = LastAttemptNo(t) + 1] /\ pc'[w] = "insert"
      BY <1>1, <1>5 DEF NumberAttempt
    <2>2. job'[w].row = job[w].row
      BY <1>2, <2>1 DEF Job
    <2>3. QED
      BY <1>5, <2>1, <2>2 DEF NumberAttempt, AttemptMove
  <1>6. CASE InsertAttempt(w)
    <2>1. job'[w] = [job[w] EXCEPT !.row = Len(attempts[t]) + 1] /\ pc'[w] = "start"
      BY <1>1, <1>6 DEF InsertAttempt
    <2>2. attempts'[t] = Append(attempts[t],
                              [no |-> job[w].no, status |-> "running", retry |-> FALSE])
      BY <1>1, <1>2, <1>6 DEF InsertAttempt, DbTypeOK
    <2>3. QED
      BY <1>6, <2>1, <2>2 DEF InsertAttempt, AttemptMove
  <1>7. CASE SilentSteps(w)
    BY <1>1, <1>7 DEF SilentSteps, LoadTask, StatementFails, RetryEnqueueFails, SilentMove, SameRows
  <1>8. CASE Generate(w)
    <2>1. PICK n \in 0..MaxFiles, err \in {"none", "retryable", "permanent"} :
            /\ job' = [job EXCEPT ![w].files = n, ![w].slot = 1, ![w].err = err]
            /\ Goto(w, AfterGenerate(n, err, job[w].no))
      BY <1>8 DEF Generate
    <2>2. job'[w] = [job[w] EXCEPT !.files = n, !.slot = 1, !.err = err]
          /\ pc'[w] = AfterGenerate(n, err, job[w].no)
      BY <1>1, <2>1
    <2>3. job'[w].row = job[w].row
      BY <1>2, <2>2 DEF Job
    <2>4. SameRows(t) /\ scheduled'[t] = scheduled[t] /\ pc[w] = "generate"
      BY <1>8 DEF Generate, SameRows
    <2>5. QED
      BY <2>2, <2>3, <2>4 DEF GenerateMove
  <1>9. CASE RegisterFile(w)
    <2>1. /\ status'[t] = status[t] /\ attempts'[t] = attempts[t] /\ scheduled'[t] = scheduled[t]
          /\ pc[w] = "register"
          /\ pc'[w] = IF job[w].slot < job[w].files THEN "register" ELSE "close"
      BY <1>1, <1>9 DEF RegisterFile
    <2>2. \/ /\ assets'[t] = assets[t] \cup {<<job[w].row, job[w].slot>>}
             /\ job'[w] = [job[w] EXCEPT !.slot = job[w].slot + 1,
                                         !.registered = job[w].registered + 1]
          \/ /\ "store_error" \in Faults
             /\ assets'[t] = assets[t]
             /\ job'[w] = [job[w] EXCEPT !.slot = job[w].slot + 1, !.err = "permanent"]
      BY <1>1, <1>2, <1>9 DEF RegisterFile, DbTypeOK
    <2>3. job'[w].row = job[w].row
      BY <1>2, <2>2 DEF Job
    <2>4. QED
      BY <2>1, <2>2, <2>3 DEF RegisterMove
  <1>10. CASE RetryEnqueue(w)
    BY <1>1, <1>2, <1>10 DEF RetryEnqueue, EnqueueMove, SameRows, RedisTypeOK
  <1>11. QED
    BY <1>3, <1>4, <1>5, <1>6, <1>7, <1>8, <1>9, <1>10, ProcessSplit DEF AttemptSteps

\* How the copy of a task moves, and with it what is delivered.
CopyMoves(w, t) ==
    /\ pc[w] \in Processing \ {"unlock"}
    /\ pc[w] = "retry_mark" => pc'[w] = "unlock"
    /\ \/ scheduled'[t] = scheduled[t]
       \/ pc[w] = "retry_enqueue" /\ pc'[w] \in {"unlock", "retry_mark"}
    /\ \/ assets'[t] = assets[t]
       \/ pc[w] = "register" /\ assets'[t] = assets[t] \cup {<<job[w].row, job[w].slot>>}
    /\ job'[w].row = job[w].row \/ (pc[w] = "insert" /\ pc'[w] = "start")
    /\ pc'[w] \in Delivering => pc[w] \in {"generate"} \cup Delivering
    /\ pc[w] \in Delivering => pc'[w] \in {"unlock"} \cup Delivering
    /\ status[t] # "none" => status'[t] # "none"

LEMMA ProcessMoves ==
    ASSUME TypeInv, NEW w \in Workers, ProcessTask(w)
    PROVE  CopyMoves(w, job[w].task)
  <1> DEFINE t == job[w].task
  <1>1. CASE SilentMove(w, t)
    BY <1>1 DEF SilentMove, SameRows, CopyMoves, Delivering, Processing
  <1>2. CASE StatusMove(w, t)
    <2>1. JobOutcome(w) # "none"
      BY DEF JobOutcome, Outcome
    <2>2. QED
      BY <1>2, <2>1 DEF StatusMove, CopyMoves, Delivering, Processing
  <1>3. CASE FinishMove(w, t)
    BY <1>3 DEF FinishMove, CopyMoves, Delivering, Processing
  <1>4. CASE AttemptMove(w, t)
    BY <1>4 DEF AttemptMove, CopyMoves, Delivering, Processing
  <1>5. CASE GenerateMove(w, t)
    BY <1>5 DEF GenerateMove, SameRows, AfterGenerate, CopyMoves, Delivering, Processing
  <1>6. CASE RegisterMove(w, t)
    BY <1>6 DEF RegisterMove, CopyMoves, Delivering, Processing
  <1>7. CASE EnqueueMove(w, t)
    BY <1>7 DEF EnqueueMove, SameRows, CopyMoves, Delivering, Processing
  <1>8. QED
    BY <1>1, <1>2, <1>3, <1>4, <1>5, <1>6, <1>7, ProcessMove

LEMMA ProcessUntouched ==
    ASSUME TypeInv, NEW w \in Workers, ProcessTask(w), NEW t \in Tasks, t # job[w].task
    PROVE  Untouched(t)
  <1>1. /\ list' = list /\ client' = client
        /\ status'[t] = status[t] /\ attempts'[t] = attempts[t]
        /\ assets'[t] = assets[t] /\ scheduled'[t] = scheduled[t]
    BY ProcessFrame
  <1>2. \A v \in Workers : job[v].task = t \/ job'[v].task = t => job'[v] = job[v] /\ pc'[v] = pc[v]
    BY ProcessTaskStays
  <1>3. QED
    BY <1>1, <1>2 DEF Untouched, InList

LEMMA ProcessKeepsCopy ==
    ASSUME TypeInv, NEW w \in Workers, ProcessTask(w), NEW t \in Tasks, t = job[w].task,
           OneCopy(t), Unsent(t), Delivered(t)
    PROVE  OneCopy(t)' /\ Unsent(t)' /\ Delivered(t)'
  <1>1. list' = list /\ client' = client
    BY ProcessFrame
  <1>2. /\ \A v \in Workers \ {w} : pc'[v] = pc[v] /\ job'[v] = job[v]
        /\ job'[w].task = t
    BY ProcessTaskStays
  <1>3. CopyMoves(w, t)
    BY ProcessMoves
  <1>4. /\ InList(t)' = InList(t) /\ OnceIn(list, t)' = OnceIn(list, t)
        /\ \A c \in Clients : Sends(c, t)' = Sends(c, t)
        /\ \A v \in Workers \ {w} : Live(v, t)' = Live(v, t)
    BY <1>1, <1>2 DEF InList, OnceIn, Sends, Live
  <1>5. Live(w, t)' => Live(w, t)
    BY <1>2, <1>3 DEF Live, CopyMoves, Processing
  <1>6. status[t] # "none" /\ status'[t] # "none"
    BY <1>3 DEF Unsent, CopyMoves
  <1>7. Unsent(t)'
    BY <1>6 DEF Unsent
  <1>8. CASE Delayed(t)' => Delayed(t)
    <2>1. OneCopy(t)'
      BY <1>4, <1>5, <1>8, FewerKeeps DEF OneCopy
    <2>2. \A a, b \in assets'[t] : a[1] = b[1]
      BY <1>2, <1>3 DEF Delivered, CopyMoves, Live, Delivering
    <2>3. InList(t)' \/ Delayed(t)' \/ (\E c \in Clients : Sends(c, t)') => assets'[t] = {}
      <3>1. CASE assets'[t] = assets[t]
        BY <1>4, <1>8, <3>1 DEF Delivered
      <3>2. CASE pc[w] = "register"
        BY <1>2, <1>4, <1>8, <3>2, Alone DEF Live
      <3>3. QED
        BY <1>3, <3>1, <3>2 DEF CopyMoves
    <2>4. ASSUME NEW v \in Workers, Live(v, t)'
          PROVE  IF pc'[v] \in Delivering THEN \A a \in assets'[t] : a[1] = job'[v].row
                 ELSE assets'[t] = {}
      <3>1. CASE v = w
        BY <1>2, <1>3, <1>5, <2>4, <3>1 DEF Delivered, CopyMoves, Live, Delivering
      <3>2. CASE v # w
        <4>1. Live(v, t) /\ ~Live(w, t)
          BY <1>4, <2>4, <3>2 DEF OneCopy
        <4>2. assets'[t] = assets[t]
          BY <1>2, <1>3, <4>1 DEF CopyMoves, Live
        <4>3. QED
          BY <1>2, <3>2, <4>1, <4>2 DEF Delivered
      <3>3. QED
        BY <3>1, <3>2
    <2>5. QED
      BY <1>7, <2>1, <2>2, <2>3, <2>4 DEF Delivered
  <1>9. CASE Delayed(t)' /\ ~Delayed(t)
    <2>1. pc[w] = "retry_enqueue" /\ pc'[w] \in {"unlock", "retry_mark"}
      BY <1>3, <1>9 DEF CopyMoves, Delayed
    <2>2. Live(w, t) /\ ~Live(w, t)'
      BY <1>2, <2>1 DEF Live
    <2>3. OneCopy(t)'
      BY <1>4, <1>9, <2>2, Alone DEF OneCopy
    <2>4. assets[t] = {} /\ assets'[t] = {}
      BY <1>3, <2>1, <2>2 DEF Delivered, Delivering, CopyMoves
    <2>5. \A v \in Workers : ~Live(v, t)'
      BY <1>4, <2>2, Alone
    <2>6. QED
      BY <1>7, <2>3, <2>4, <2>5 DEF Delivered
  <1>10. QED
    BY <1>8, <1>9

LEMMA ProcessTaskKeepsCopy ==
    ASSUME TypeInv, CopyInv, NEW w \in Workers, ProcessTask(w)
    PROVE  CopyInv'
  <1>1. \A c \in Clients : client'[c].pc # "requeue"
    BY ProcessFrame DEF CopyInv
  <1>2. ASSUME NEW t \in Tasks
        PROVE  OneCopy(t)' /\ Unsent(t)' /\ Delivered(t)'
    <2>1. OneCopy(t) /\ Unsent(t) /\ Delivered(t)
      BY DEF CopyInv
    <2>2. CASE t = job[w].task
      BY <2>1, <2>2, ProcessKeepsCopy
    <2>3. CASE t # job[w].task
      BY <2>1, <2>3, ProcessUntouched, UntouchedKeeps
    <2>4. QED
      BY <2>2, <2>3
  <1>3. QED
    BY <1>1, <1>2 DEF CopyInv

-----------------------------------------------------------------------------
(* The producers.                                                           *)

\* While the workers and the zset stand still and no image is registered.
LEMMA SentKeeps ==
    ASSUME NEW t \in Tasks, OneCopy(t), Delivered(t), NEW c \in Clients,
           assets'[t] = assets[t], scheduled'[t] = scheduled[t], pc' = pc, job' = job,
           \A d \in Clients \ {c} : client'[d] = client[d],
           OnceIn(list, t)', InList(t)' => InList(t) \/ Sends(c, t),
           Sends(c, t)' => Sends(c, t) /\ ~InList(t)'
    PROVE  OneCopy(t)' /\ Delivered(t)'
  <1>1. /\ Delayed(t)' = Delayed(t) /\ \A w \in Workers : Live(w, t)' = Live(w, t)
        /\ \A d \in Clients \ {c} : Sends(d, t)' = Sends(d, t)
    BY DEF Delayed, Live, Sends
  <1>2. OneCopy(t)'
    BY <1>1 DEF OneCopy
  <1>3. Delivered(t)'
    BY <1>1 DEF Delivered
  <1>4. QED
    BY <1>2, <1>3

LEMMA InsertKeepsCopy ==
    ASSUME TypeInv, CopyInv, NEW c \in Clients, NEW t \in Tasks, InsertTask(c, t)
    PROVE  CopyInv'
  <1> USE DEF redisVars, workerVars
  <1>1. /\ attempts' = attempts /\ assets' = assets /\ list' = list /\ scheduled' = scheduled
        /\ pc' = pc /\ job' = job /\ status[t] = "none" /\ client[c].pc = "idle"
    BY DEF InsertTask
  <1>2. /\ client'[c] = [pc |-> "enqueue", task |-> t]
        /\ \A d \in Clients \ {c} : client'[d] = client[d]
        /\ status'[t] = "queued" /\ \A u \in Tasks \ {t} : status'[u] = status[u]
    BY DEF InsertTask, UpdateTaskStatus, TypeInv, TypeOK, ClientTypeOK, DbTypeOK
  <1>3. client[c].task = NoTask /\ NoTask \notin Tasks
    BY <1>1 DEF TypeInv, TypeOK, ClientTypeOK
  <1>4. ASSUME NEW u \in Tasks, u # t
        PROVE  Untouched(u)
    BY <1>1, <1>2, <1>3, <1>4 DEF Untouched, InList
  <1>5. OneCopy(t)' /\ Unsent(t)' /\ Delivered(t)'
    <2>1. OneCopy(t) /\ Unsent(t) /\ Delivered(t)
      BY DEF CopyInv
    <2>2. /\ InList(t)' = InList(t) /\ Delayed(t)' = Delayed(t) /\ OnceIn(list, t)' = OnceIn(list, t)
          /\ \A w \in Workers : Live(w, t)' = Live(w, t)
      BY <1>1 DEF InList, OnceIn, Delayed, Live
    <2>3. /\ ~InList(t) /\ ~Delayed(t) /\ assets[t] = {}
          /\ (\A w \in Workers : ~Live(w, t)) /\ (\A d \in Clients : ~Sends(d, t))
      BY <1>1, <2>1 DEF Unsent, Live, Sends
    <2>4. \A d \in Clients \ {c} : ~Sends(d, t)'
      BY <1>2, <2>3 DEF Sends
    <2>5. OneCopy(t)'
      BY <2>1, <2>2, <2>3, <2>4 DEF OneCopy
    <2>6. Delivered(t)'
      BY <1>1, <2>2, <2>3 DEF Delivered
    <2>7. QED
      BY <1>2, <2>5, <2>6 DEF Unsent
  <1>6. \A d \in Clients : client'[d].pc # "requeue"
    BY <1>2 DEF CopyInv
  <1>7. QED
    BY <1>4, <1>5, <1>6, UntouchedKeeps DEF CopyInv

LEMMA RequestKeepsCopy ==
    ASSUME TypeInv, CopyInv, NEW c \in Clients, FinishRequest(c) \/ ClientStops(c)
    PROVE  CopyInv'
  <1> USE DEF redisVars, workerVars, dbVars
  <1>0. PICK t \in Tasks : t = client[c].task
    BY ClientTask DEF FinishRequest, RepairReset, Enqueue, EnqueueFails, MarkTaskEnqueueFailed,
                      ClientStops
  <1>1. t \in Tasks /\ client \in [Clients -> [pc: {"idle", "requeue", "enqueue", "mark"},
                               task: Tasks \cup {NoTask}]]
    BY DEF TypeInv, TypeOK, ClientTypeOK
  <1>2. list \in Seq(Tasks) /\ status \in [Tasks -> TaskStatus]
    BY DEF TypeInv, TypeOK, RedisTypeOK, DbTypeOK
  <1>3. ~RepairReset(c)
    BY DEF CopyInv, RepairReset
  <1>4. /\ attempts' = attempts /\ assets' = assets /\ scheduled' = scheduled
        /\ pc' = pc /\ job' = job
    BY <1>3 DEF FinishRequest, Enqueue, EnqueueFails, MarkTaskEnqueueFailed, ClientStops
  <1>5. /\ \A d \in Clients \ {c} : client'[d] = client[d]
        /\ client'[c] \in {Idle, [client[c] EXCEPT !.pc = "mark"]}
    BY <1>1, <1>3 DEF FinishRequest, Enqueue, EnqueueFails, MarkTaskEnqueueFailed, ClientStops
  <1>6. client'[c].task \in {NoTask, t} /\ client'[c].pc # "requeue" /\ ~Sends(c, t)'
    BY <1>0, <1>1, <1>5 DEF Idle, Sends
  <1>7. \/ list' = list
        \/ list' = Append(list, t) /\ client[c].pc = "enqueue"
    BY <1>0, <1>3 DEF FinishRequest, Enqueue, EnqueueFails, MarkTaskEnqueueFailed, ClientStops,
                      Push
  <1>8. \/ status' = status
        \/ status' = [status EXCEPT ![t] = "enqueue_failed"]
    BY <1>0, <1>3 DEF FinishRequest, Enqueue, EnqueueFails, MarkTaskEnqueueFailed, ClientStops,
                      UpdateTaskStatus
  <1>9. ASSUME NEW u \in Tasks, u # t
        PROVE  Untouched(u)
    <2>1. status'[u] = status[u]
      BY <1>1, <1>2, <1>8, <1>9
    <2>2. InList(u)' = InList(u) /\ (OnceIn(list, u) => OnceIn(list', u))
      <3>1. CASE list' = list
        BY <3>1 DEF InList
      <3>2. CASE list' = Append(list, t)
        <4>1. (In(list', u) <=> In(list, u)) /\ (OnceIn(list, u) => OnceIn(list', u))
          BY <1>2, <1>9, <3>2, Pushed
        <4>2. QED
          BY <4>1 DEF InList, In
      <3>3. QED
        BY <1>7, <3>1, <3>2
    <2>3. QED
      BY <1>0, <1>4, <1>5, <1>6, <1>9, <2>1, <2>2 DEF Untouched
  <1>10. OneCopy(t)' /\ Unsent(t)' /\ Delivered(t)'
    <2>1. OneCopy(t) /\ Unsent(t) /\ Delivered(t)
      BY <1>1 DEF CopyInv
    <2>2. status[t] # "none" /\ status'[t] # "none"
      BY <1>0, <1>2, <1>8, <2>1 DEF Unsent
    <2>3. OnceIn(list, t)' /\ (InList(t)' => InList(t) \/ Sends(c, t))
      <3>1. CASE list' = list
        BY <2>1, <3>1 DEF InList, OnceIn, OneCopy
      <3>2. CASE list' = Append(list, t) /\ client[c].pc = "enqueue"
        <4>1. Sends(c, t) /\ ~InList(t)
          BY <1>0, <2>1, <3>2 DEF Sends, OneCopy
        <4>2. OnceIn(list', t)
          BY <1>1, <1>2, <2>1, <3>2, <4>1, Pushed DEF InList, OneCopy
        <4>3. QED
          BY <4>1, <4>2 DEF OnceIn
      <3>3. QED
        BY <1>7, <3>1, <3>2
    <2>4. QED
      BY <1>1, <1>4, <1>5, <1>6, <2>1, <2>2, <2>3, SentKeeps DEF Unsent
  <1>11. \A d \in Clients : client'[d].pc # "requeue"
    BY <1>5, <1>6 DEF CopyInv
  <1>12. QED
    BY <1>9, <1>10, <1>11, UntouchedKeeps DEF CopyInv

-----------------------------------------------------------------------------
(* Redis and the loop of a worker around ProcessTask.                       *)

\* No row changes and no client moves; a worker that becomes live gets the
\* copy from the list, and has registered nothing.
LEMMA CarriedKeeps ==
    ASSUME NEW t \in Tasks, OneCopy(t), Unsent(t), Delivered(t), NEW w \in Workers,
           status' = status, attempts' = attempts, assets' = assets, client' = client,
           \A v \in Workers \ {w} : pc'[v] = pc[v] /\ job'[v] = job[v],
           job'[w].task = t => job[w].task = t \/ InList(t),
           OnceIn(list, t)', InList(t)' => InList(t) \/ Delayed(t),
           Delayed(t)' => Delayed(t) /\ ~InList(t)',
           Live(w, t)' => \/ /\ Live(w, t) /\ ~InList(t)'
                             /\ (pc[w] \notin Delivering /\ pc'[w] \notin Delivering)
                          \/ InList(t) /\ ~InList(t)' /\ pc'[w] = "lock"
    PROVE  OneCopy(t)' /\ Unsent(t)' /\ Delivered(t)'
  <1>1. /\ \A v \in Workers \ {w} : Live(v, t)' = Live(v, t)
        /\ \A c \in Clients : Sends(c, t)' = Sends(c, t)
    BY DEF Live, Sends
  <1>2. OneCopy(t)'
    BY <1>1 DEF OneCopy
  <1>3. Unsent(t)'
    BY DEF Unsent
  <1>4. InList(t)' \/ Delayed(t)' \/ (\E c \in Clients : Sends(c, t)') => assets'[t] = {}
    BY <1>1 DEF Delivered
  <1>5. ASSUME NEW v \in Workers, Live(v, t)'
        PROVE  IF pc'[v] \in Delivering THEN \A a \in assets'[t] : a[1] = job'[v].row
               ELSE assets'[t] = {}
    <2>1. CASE v # w
      BY <1>1, <1>5, <2>1 DEF Delivered
    <2>2. CASE v = w
      BY <1>5, <2>2 DEF Delivered, Delivering
    <2>3. QED
      BY <2>1, <2>2
  <1>6. QED
    BY <1>2, <1>3, <1>4, <1>5 DEF Delivered

LEMMA RedisKeepsCopy ==
    ASSUME TypeInv, CopyInv, NEW u \in Tasks, BecomeDue(u) \/ ExpireLock(u)
    PROVE  CopyInv'
  <1>1. /\ status' = status /\ attempts' = attempts /\ assets' = assets
        /\ list' = list /\ pc' = pc /\ job' = job /\ client' = client
    BY DEF BecomeDue, ExpireLock, dbVars, workerVars
  <1>2. \A t \in Tasks : Delayed(t)' = Delayed(t)
    BY DEF BecomeDue, ExpireLock, TypeInv, TypeOK, RedisTypeOK, Delayed
  <1>3. ASSUME NEW t \in Tasks
        PROVE  OneCopy(t)' /\ Unsent(t)' /\ Delivered(t)'
    <2>1. OneCopy(t) /\ Unsent(t) /\ Delivered(t)
      BY DEF CopyInv
    <2>2. /\ InList(t)' = InList(t) /\ OnceIn(list, t)' = OnceIn(list, t)
          /\ \A w \in Workers : Live(w, t)' = Live(w, t)
          /\ \A c \in Clients : Sends(c, t)' = Sends(c, t)
      BY <1>1 DEF InList, OnceIn, Live, Sends
    <2>3. OneCopy(t)'
      BY <1>2, <2>1, <2>2 DEF OneCopy
    <2>4. Unsent(t)'
      BY <1>1, <1>2, <2>1, <2>2 DEF Unsent
    <2>5. Delivered(t)'
      BY <1>1, <1>2, <2>1, <2>2 DEF Delivered
    <2>6. QED
      BY <2>3, <2>4, <2>5
  <1>4. QED
    BY <1>1, <1>3 DEF CopyInv

LEMMA PromoteKeepsCopy ==
    ASSUME TypeInv, CopyInv, NEW w \in Workers, PromoteScheduled(w)
    PROVE  CopyInv'
  <1> DEFINE due == {t \in Tasks : scheduled[t] = "due"}
             n   == IF Cardinality(due) < PromoteLimit THEN Cardinality(due) ELSE PromoteLimit
  <1>1. n \in Nat
    BY PromotedBatch
  <1>2. PICK batch \in [1..n -> due] :
          /\ \A i, j \in 1..n : batch[i] = batch[j] => i = j
          /\ list' = list \o batch
          /\ scheduled' = [t \in Tasks |->
                             IF \E i \in 1..n : batch[i] = t THEN "no" ELSE scheduled[t]]
    BY DEF PromoteScheduled
  <1>3. batch \in [1..n -> Tasks] /\ list \in Seq(Tasks)
    BY <1>1, <1>2 DEF TypeInv, TypeOK, RedisTypeOK
  <1>4. /\ status' = status /\ attempts' = attempts /\ assets' = assets
        /\ job' = job /\ client' = client
        /\ pc' = [pc EXCEPT ![w] = "pop"] /\ pc[w] = "poll"
    BY DEF PromoteScheduled, dbVars, Goto
  <1>5. job[w].task = NoTask /\ pc \in [Workers -> WorkerPc] /\ NoTask \notin Tasks
    BY <1>4 DEF TypeInv, TypeOK, WorkerTypeOK
  <1>6. ASSUME NEW t \in Tasks
        PROVE  OneCopy(t)' /\ Unsent(t)' /\ Delivered(t)'
    <2> DEFINE moved == \E i \in 1..n : batch[i] = t
    <2>1. OneCopy(t) /\ Unsent(t) /\ Delivered(t)
      BY DEF CopyInv
    <2>2. moved => scheduled[t] = "due"
      BY <1>2
    <2>3. scheduled'[t] = IF moved THEN "no" ELSE scheduled[t]
      BY <1>2
    <2>4. /\ In(list \o batch, t) <=> In(list, t) \/ moved
          /\ OnceIn(list, t) /\ (moved => ~In(list, t)) => OnceIn(list \o batch, t)
      <3> HIDE DEF n
      <3>1. QED
        BY <1>1, <1>2, <1>3, Joined
    <2> HIDE DEF moved, n
    <2>5. moved => Delayed(t) /\ ~InList(t)
      BY <2>1, <2>2 DEF Delayed, OneCopy
    <2>6. InList(t)' <=> InList(t) \/ moved
      BY <1>2, <2>4 DEF InList, In
    <2>7. OnceIn(list, t)'
      BY <1>2, <2>1, <2>4, <2>5 DEF OneCopy, OnceIn, InList
    <2>8. Delayed(t)' <=> Delayed(t) /\ ~moved
      BY <2>3 DEF Delayed
    <2>9. \A v \in Workers \ {w} : pc'[v] = pc[v] /\ job'[v] = job[v]
      BY <1>4, <1>5
    <2>10. ~Live(w, t) /\ ~Live(w, t)' /\ job'[w].task # t
      BY <1>4, <1>5 DEF Live
    <2>11. Delayed(t)' => ~InList(t)'
      BY <2>1, <2>6, <2>8 DEF OneCopy
    <2>12. QED
      BY <1>4, <2>1, <2>5, <2>6, <2>7, <2>8, <2>9, <2>10, <2>11, CarriedKeeps
  <1>7. QED
    BY <1>4, <1>6 DEF CopyInv

LEMMA DequeueKeepsCopy ==
    ASSUME TypeInv, CopyInv, NEW w \in Workers, Dequeue(w)
    PROVE  CopyInv'
  <1>1. /\ status' = status /\ attempts' = attempts /\ assets' = assets
        /\ scheduled' = scheduled /\ client' = client
        /\ pc[w] = "pop" /\ list # <<>> /\ list' = Tail(list)
    BY DEF Dequeue, dbVars
  <1>2. /\ list \in Seq(Tasks) /\ pc \in [Workers -> WorkerPc] /\ job \in [Workers -> Job]
        /\ NoTask \notin Tasks
    BY DEF TypeInv, TypeOK, RedisTypeOK, WorkerTypeOK
  <1>3. Head(list) \in Tasks
    BY <1>1, <1>2
  <1>4. job[w].task = NoTask /\ \A v \in Workers \ {w} : pc'[v] = pc[v] /\ job'[v] = job[v]
    BY <1>1, <1>2 DEF Dequeue, Goto, BackToPoll, TypeInv, TypeOK, WorkerTypeOK
  <1>5. \/ pc'[w] = "lock" /\ job'[w].task = Head(list)
        \/ pc'[w] = "poll" /\ job'[w].task = NoTask
    <2>1. CASE Goto(w, "lock") /\ job' = [job EXCEPT ![w].task = Head(list)]
      BY <1>2, <1>3, <2>1 DEF Goto, Job
    <2>2. CASE BackToPoll(w)
      BY <1>2, <2>2 DEF BackToPoll, Goto, NoJob
    <2>3. QED
      BY <2>1, <2>2 DEF Dequeue
  <1>6. ASSUME NEW t \in Tasks
        PROVE  OneCopy(t)' /\ Unsent(t)' /\ Delivered(t)'
    <2>1. OneCopy(t) /\ Unsent(t) /\ Delivered(t)
      BY DEF CopyInv
    <2>2. /\ In(list, t) <=> In(Tail(list), t) \/ t = Head(list)
          /\ OnceIn(list, t) => OnceIn(Tail(list), t)
          /\ OnceIn(list, t) /\ t = Head(list) => ~In(Tail(list), t)
      BY <1>1, <1>2, Popped
    <2>3. InList(t)' <=> In(Tail(list), t)
      BY <1>1 DEF InList, In
    <2>4. OnceIn(list, t)' /\ (InList(t)' => InList(t)) /\ (t = Head(list) => InList(t) /\ ~InList(t)')
      BY <1>1, <2>1, <2>2, <2>3 DEF OneCopy, OnceIn, InList
    <2>5. job'[w].task = t => t = Head(list) /\ pc'[w] = "lock"
      BY <1>2, <1>5
    <2>6. ~Live(w, t) /\ (Live(w, t)' => InList(t) /\ ~InList(t)' /\ pc'[w] = "lock")
      BY <1>2, <1>4, <2>4, <2>5 DEF Live
    <2>7. Delayed(t)' => Delayed(t) /\ ~InList(t)'
      BY <1>1, <2>1, <2>4 DEF Delayed, OneCopy
    <2>8. QED
      BY <1>1, <1>4, <2>1, <2>4, <2>5, <2>6, <2>7, CarriedKeeps
  <1>7. QED
    BY <1>1, <1>6 DEF CopyInv

LEMMA LoopKeepsCopy ==
    ASSUME TypeInv, CopyInv, NEW w \in Workers,
           DequeueTimesOut(w) \/ LockTask(w) \/ SkipTask(w) \/ UnlockTask(w) \/ WorkerCrashes(w)
    PROVE  CopyInv'
  <1> USE DEF dbVars, redisVars, Goto, BackToPoll
  <1>1. /\ status' = status /\ attempts' = attempts /\ assets' = assets
        /\ list' = list /\ scheduled' = scheduled /\ client' = client
    BY DEF DequeueTimesOut, LockTask, SkipTask, UnlockTask, WorkerCrashes
  <1>2. pc \in [Workers -> WorkerPc] /\ job \in [Workers -> Job] /\ NoTask \notin Tasks
    BY DEF TypeInv, TypeOK, WorkerTypeOK
  <1>3. \A v \in Workers \ {w} : pc'[v] = pc[v] /\ job'[v] = job[v]
    BY <1>2 DEF DequeueTimesOut, LockTask, SkipTask, UnlockTask, WorkerCrashes
  <1>4. \/ pc[w] = "pop" /\ job'[w].task = NoTask
        \/ pc[w] = "lock" /\ pc'[w] = "load" /\ job'[w] = job[w]
        \/ job'[w].task = NoTask
    <2>1. CASE DequeueTimesOut(w)
      BY <1>2, <2>1 DEF DequeueTimesOut, TypeInv, TypeOK, WorkerTypeOK
    <2>2. CASE LockTask(w)
      BY <1>2, <2>2 DEF LockTask, NoJob
    <2>3. CASE SkipTask(w) \/ UnlockTask(w) \/ WorkerCrashes(w)
      BY <1>2, <2>3 DEF SkipTask, UnlockTask, WorkerCrashes, NoJob
    <2>4. QED
      BY <2>1, <2>2, <2>3
  <1>5. ASSUME NEW t \in Tasks
        PROVE  OneCopy(t)' /\ Unsent(t)' /\ Delivered(t)'
    <2>1. OneCopy(t) /\ Unsent(t) /\ Delivered(t)
      BY DEF CopyInv
    <2>2. /\ InList(t)' = InList(t) /\ OnceIn(list, t)' /\ Delayed(t)' = Delayed(t)
      BY <1>1, <2>1 DEF InList, OnceIn, OneCopy, Delayed
    <2>3. (job'[w].task = t => job[w].task = t) /\ (Delayed(t)' => Delayed(t) /\ ~InList(t)')
      BY <1>2, <1>4, <2>1, <2>2 DEF OneCopy
    <2>4. Live(w, t)' => /\ Live(w, t) /\ ~InList(t)'
                         /\ pc[w] \notin Delivering /\ pc'[w] \notin Delivering
      BY <1>2, <1>4, <2>1, <2>2 DEF Live, OneCopy, Delivering
    <2>5. QED
      BY <1>1, <1>3, <2>1, <2>2, <2>3, <2>4, CarriedKeeps
  <1>6. QED
    BY <1>1, <1>5 DEF CopyInv

-----------------------------------------------------------------------------
LEMMA RepairsStay ==
    ASSUME TypeInv, [Next]_vars, repairs' = 0
    PROVE  repairs = 0 /\ \A c \in Clients, t \in Tasks : ~RepairLoad(c, t)
  <1>1. ASSUME NEW c \in Clients, NEW t \in Tasks, RepairLoad(c, t)
        PROVE  FALSE
    BY <1>1 DEF RepairLoad, TypeInv, TypeOK
  <1>2. CASE \E c \in Clients, t \in Tasks : InsertTask(c, t)
    BY <1>1, <1>2 DEF InsertTask
  <1>3. CASE \E c \in Clients : FinishRequest(c) \/ ClientStops(c)
    BY <1>1, <1>3 DEF FinishRequest, RepairReset, Enqueue, EnqueueFails, MarkTaskEnqueueFailed,
                ClientStops
  <1>4. CASE \E t \in Tasks : BecomeDue(t) \/ ExpireLock(t)
    BY <1>1, <1>4 DEF BecomeDue, ExpireLock
  <1>5. ASSUME NEW w \in Workers, RunWorker(w) \/ WorkerCrashes(w)
        PROVE  repairs' = repairs
    BY <1>5, ProcessFrame DEF RunWorker, PromoteScheduled, Dequeue, DequeueTimesOut, LockTask,
          SkipTask, UnlockTask, WorkerCrashes
  <1>6. CASE UNCHANGED vars
    BY <1>1, <1>6 DEF vars
  <1>7. QED
    BY <1>1, <1>2, <1>3, <1>4, <1>5, <1>6 DEF Next

\* Until an operator requeues a task.
CopyHeld == repairs = 0 => CopyInv

LEMMA NextKeepsCopy == TypeInv /\ CopyHeld /\ [Next]_vars => CopyHeld'
  <1> SUFFICES ASSUME TypeInv, CopyHeld, [Next]_vars, repairs' = 0
               PROVE  CopyInv'
    BY DEF CopyHeld
  <1>1. CopyInv /\ \A c \in Clients, t \in Tasks : ~RepairLoad(c, t)
    BY RepairsStay DEF CopyHeld
  <1>2. CASE \E c \in Clients, t \in Tasks : InsertTask(c, t)
    BY <1>1, <1>2, InsertKeepsCopy
  <1>3. CASE \E c \in Clients : FinishRequest(c) \/ ClientStops(c)
    BY <1>1, <1>3, RequestKeepsCopy
  <1>4. CASE \E t \in Tasks : BecomeDue(t) \/ ExpireLock(t)
    BY <1>1, <1>4, RedisKeepsCopy
  <1>5. ASSUME NEW w \in Workers, RunWorker(w) \/ WorkerCrashes(w)
        PROVE  CopyInv'
    BY <1>1, <1>5, PromoteKeepsCopy, DequeueKeepsCopy, LoopKeepsCopy, ProcessTaskKeepsCopy
       DEF RunWorker
  <1>6. CASE UNCHANGED vars
    <2>1. \A t \in Tasks : Untouched(t)
      BY <1>6 DEF Untouched, InList, vars, dbVars, redisVars, workerVars
    <2>2. QED
      BY <1>1, <1>6, <2>1, UntouchedKeeps DEF CopyInv, vars
  <1>7. QED
    BY <1>1, <1>2, <1>3, <1>4, <1>5, <1>6 DEF Next

LEMMA InitCopy == Init => CopyInv
  <1> SUFFICES ASSUME Init PROVE CopyInv
    OBVIOUS
  <1>1. \A t \in Tasks : ~InList(t) /\ ~Delayed(t) /\ OnceIn(list, t)
    BY DEF Init, InList, In, Delayed, OnceIn
  <1>2. /\ \A w \in Workers : \A t \in Tasks : job[w].task # t
        /\ \A c \in Clients : \A t \in Tasks : client[c].task # t
        /\ \A c \in Clients : client[c].pc = "idle"
    BY DEF Init, NoJob, Idle
  <1>3. \A t \in Tasks : (\A w \in Workers : ~Live(w, t)) /\ (\A c \in Clients : ~Sends(c, t))
    BY <1>2 DEF Live, Sends
  <1>4. \A t \in Tasks : OneCopy(t)
    BY <1>1, <1>3 DEF OneCopy
  <1>5. \A t \in Tasks : Unsent(t) /\ Delivered(t)
    BY <1>1, <1>2, <1>3 DEF Init, Unsent, Delivered
  <1>6. QED
    BY <1>2, <1>4, <1>5 DEF CopyInv

LEMMA CopyHolds == Spec => []CopyHeld
  <1>1. Init => CopyHeld
    BY InitCopy DEF CopyHeld
  <1>2. QED
    BY <1>1, TypeCorrect, NextKeepsCopy, PTL DEF Spec

\* As long as no operator requeues a task, all its images come from one
\* attempt, whatever fails: crashes, lost replies, statements that fail, even
\* executions that outlive their lock.  A second delivery takes a second copy
\* of the id, and only the repair command makes one.
THEOREM OneAttemptHolds == Spec => [](repairs = 0 => OneAttemptDelivers)
  <1>1. CopyHeld => (repairs = 0 => OneAttemptDelivers)
    BY DEF CopyHeld, CopyInv, Delivered, OneAttemptDelivers
  <1>2. QED
    BY <1>1, CopyHolds, PTL

\* A set whose members are all equal has at most one.
LEMMA AtMostOne ==
    ASSUME NEW S, \A x, y \in S : x = y
    PROVE  /\ IsFiniteSet(S)
           /\ Cardinality(S) = (IF S = {} THEN 0 ELSE 1)
  <1>1. CASE S = {}
    BY <1>1, FS_EmptySet
  <1>2. CASE S # {}
    <2>1. PICK x \in S : S = {x}
      BY <1>2
    <2>2. QED
      BY <1>2, <2>1, FS_Singleton
  <1>3. QED
    BY <1>1, <1>2

\* As long as no operator requeues a task, its id is in at most one place: on
\* the Redis list, in the zset, with a worker that will still run or requeue
\* it, or with a handler that has yet to push it, whatever fails meanwhile.
THEOREM OneCopyHolds == Spec => [](repairs = 0 => AtMostOneCopy)
  <1>1. CopyHeld => (repairs = 0 => AtMostOneCopy)
    <2> SUFFICES ASSUME CopyInv, NEW t \in Tasks
                 PROVE  Cardinality(Queued(t))
                        + (IF scheduled[t] # "no" THEN 1 ELSE 0)
                        + Cardinality({w \in Carriers(t) : pc[w] \notin {"retry_mark", "unlock"}})
                        + Cardinality({c \in Producers(t) : client[c].pc # "mark"}) <= 1
      BY DEF CopyHeld, AtMostOneCopy
    <2> DEFINE L == {w \in Carriers(t) : pc[w] \notin {"retry_mark", "unlock"}}
               S == {c \in Producers(t) : client[c].pc # "mark"}
    <2>1. OneCopy(t)
      BY DEF CopyInv
    <2>2. /\ L = {w \in Workers : Live(w, t)} /\ S = {c \in Clients : Sends(c, t)}
          /\ Queued(t) = {i \in DOMAIN list : list[i] = t}
      BY DEF Carriers, Producers, Live, Sends, Queued
    <2>3. /\ Cardinality(Queued(t)) = IF Queued(t) = {} THEN 0 ELSE 1
          /\ Queued(t) # {} <=> InList(t)
      <3>1. \A i, j \in Queued(t) : i = j
        BY <2>1, <2>2 DEF OneCopy, OnceIn
      <3>2. QED
        BY <2>2, <3>1, AtMostOne DEF InList, In
    <2>4. Cardinality(L) = IF L = {} THEN 0 ELSE 1
      <3>1. \A v, w \in L : v = w
        BY <2>1, <2>2 DEF OneCopy
      <3>2. QED
        BY <3>1, AtMostOne
    <2>5. Cardinality(S) = IF S = {} THEN 0 ELSE 1
      <3>1. \A c, d \in S : c = d
        BY <2>1, <2>2 DEF OneCopy
      <3>2. QED
        BY <3>1, AtMostOne
    <2>6. /\ Queued(t) # {} => scheduled[t] = "no"
          /\ Queued(t) # {} \/ scheduled[t] # "no" => L = {}
          /\ Queued(t) # {} \/ scheduled[t] # "no" \/ L # {} => S = {}
      BY <2>1, <2>2, <2>3 DEF OneCopy, Delayed
    <2> HIDE DEF L, S
    <2>7. QED
      BY <2>3, <2>4, <2>5, <2>6 DEF L, S
  <1>2. QED
    BY <1>1, CopyHolds, PTL

-----------------------------------------------------------------------------
(***************************************************************************)
(* What every step but ProcessTask's own does to a task: nothing to its    *)
(* attempts and images, and its id only moves on.                          *)
(***************************************************************************)
StatusFlow(t) ==
    \/ status'[t] = status[t]
    \/ status[t] = "none" /\ status'[t] = "queued"
    \/ /\ status'[t] = "enqueue_failed"
       /\ \E c \in Clients : client[c].task = t /\ client[c].pc = "mark" /\ client'[c] = Idle

QueueFlow(t) ==
    /\ Delayed(t)' => Delayed(t)
    /\ InList(t)' => \/ InList(t) \/ Delayed(t)
                     \/ \E c \in Clients : /\ Sends(c, t)
                                           /\ client'[c] = Idle \/ "lost_reply" \in Faults

ClientFlow(t) ==
    \A c \in Clients : client'[c].task = t =>
        \/ client[c].task = t /\ (client[c].pc = "mark" => client'[c].pc = "mark")
        \/ status[t] = "none" /\ status'[t] = "queued" /\ client'[c].pc # "mark"

WorkerFlow(w, t) ==
    job'[w].task = t =>
        \/ pc'[w] = pc[w] /\ job'[w] = job[w]
        \/ pc[w] = "lock" /\ pc'[w] = "load" /\ job'[w] = job[w]
        \/ /\ pc[w] = "pop" /\ pc'[w] = "lock" /\ InList(t)
           /\ job'[w] = [job[w] EXCEPT !.task = t]

Flow(t) ==
    /\ attempts'[t] = attempts[t] /\ assets'[t] = assets[t]
    /\ StatusFlow(t) /\ QueueFlow(t) /\ ClientFlow(t)
    /\ \A w \in Workers : WorkerFlow(w, t)

LEMMA UntouchedFlows ==
    ASSUME NEW t \in Tasks, Untouched(t)
    PROVE  Flow(t)
  <1>1. StatusFlow(t) /\ QueueFlow(t)
    BY DEF Untouched, StatusFlow, QueueFlow, Delayed
  <1>2. ClientFlow(t) /\ \A w \in Workers : WorkerFlow(w, t)
    BY DEF Untouched, ClientFlow, WorkerFlow
  <1>3. QED
    BY <1>1, <1>2 DEF Untouched, Flow

LEMMA RequestFlows ==
    ASSUME TypeInv, NEW c \in Clients, NEW t \in Tasks,
           \/ \E u \in Tasks : InsertTask(c, u)
           \/ (FinishRequest(c) \/ ClientStops(c)) /\ ~RepairReset(c)
    PROVE  Flow(t)
  <1> USE DEF redisVars, workerVars, dbVars
  <1>1. /\ client \in [Clients -> [pc: {"idle", "requeue", "enqueue", "mark"},
                                  task: Tasks \cup {NoTask}]]
        /\ status \in [Tasks -> TaskStatus] /\ list \in Seq(Tasks) /\ NoTask \notin Tasks
    BY DEF TypeInv, TypeOK, ClientTypeOK, DbTypeOK, RedisTypeOK
  <1>2. CASE \E u \in Tasks : InsertTask(c, u)
    <2>1. PICK u \in Tasks : InsertTask(c, u)
      BY <1>2
    <2>2. /\ attempts' = attempts /\ assets' = assets /\ list' = list /\ scheduled' = scheduled
          /\ pc' = pc /\ job' = job
          /\ status[u] = "none" /\ status' = [status EXCEPT ![u] = "queued"]
          /\ client' = [client EXCEPT ![c] = [pc |-> "enqueue", task |-> u]]
      BY <2>1 DEF InsertTask, UpdateTaskStatus
    <2>3. StatusFlow(t)
      BY <1>1, <2>2 DEF StatusFlow
    <2>4. QueueFlow(t)
      BY <2>2 DEF QueueFlow, InList, Delayed
    <2>5. ClientFlow(t)
      BY <1>1, <2>2 DEF ClientFlow
    <2>6. \A w \in Workers : WorkerFlow(w, t)
      BY <2>2 DEF WorkerFlow
    <2>7. QED
      BY <2>2, <2>3, <2>4, <2>5, <2>6 DEF Flow
  <1>3. CASE (FinishRequest(c) \/ ClientStops(c)) /\ ~RepairReset(c)
    <2> USE DEF FinishRequest, Enqueue, EnqueueFails, MarkTaskEnqueueFailed, ClientStops
    <2>1. /\ attempts' = attempts /\ assets' = assets /\ scheduled' = scheduled
          /\ pc' = pc /\ job' = job
      BY <1>3
    <2>2. \/ client' = [client EXCEPT ![c] = Idle]
          \/ client' = [client EXCEPT ![c].pc = "mark"]
      BY <1>3
    <2>3. StatusFlow(t)
      <3>1. \/ status' = status
            \/ /\ status' = [status EXCEPT ![client[c].task] = "enqueue_failed"]
               /\ client[c].pc = "mark" /\ client' = [client EXCEPT ![c] = Idle]
        BY <1>3 DEF UpdateTaskStatus
      <3>2. CASE status' = status
        BY <3>2 DEF StatusFlow
      <3>3. CASE /\ status' = [status EXCEPT ![client[c].task] = "enqueue_failed"]
                 /\ client[c].pc = "mark" /\ client' = [client EXCEPT ![c] = Idle]
        BY <1>1, <3>3 DEF StatusFlow
      <3>4. QED
        BY <3>1, <3>2, <3>3
    <2>4. QueueFlow(t)
      <3>1. \/ list' = list
            \/ /\ list' = Append(list, client[c].task) /\ client[c].pc = "enqueue"
               /\ client' = [client EXCEPT ![c] = Idle] \/ "lost_reply" \in Faults
        BY <1>3 DEF Push
      <3>2. CASE list' = list
        BY <2>1, <3>2 DEF QueueFlow, InList, Delayed
      <3>3. CASE /\ list' = Append(list, client[c].task) /\ client[c].pc = "enqueue"
                 /\ client' = [client EXCEPT ![c] = Idle] \/ "lost_reply" \in Faults
        <4>1. client[c].task \in Tasks
          BY <3>3, ClientTask
        <4>2. In(list', t) <=> In(list, t) \/ t = client[c].task
          BY <1>1, <3>3, <4>1, Pushed
        <4>3. t = client[c].task => Sends(c, t) /\ (client'[c] = Idle \/ "lost_reply" \in Faults)
          BY <1>1, <3>3 DEF Sends
        <4>4. InList(t)' <=> InList(t) \/ t = client[c].task
          BY <4>2 DEF InList, In
        <4>5. QED
          BY <2>1, <4>3, <4>4 DEF QueueFlow, Delayed
      <3>4. QED
        BY <3>1, <3>2, <3>3
    <2>5. ClientFlow(t)
      BY <1>1, <2>2 DEF ClientFlow, Idle
    <2>6. \A w \in Workers : WorkerFlow(w, t)
      BY <2>1 DEF WorkerFlow
    <2>7. QED
      BY <2>1, <2>3, <2>4, <2>5, <2>6 DEF Flow
  <1>4. QED
    BY <1>2, <1>3

LEMMA RedisFlows ==
    ASSUME TypeInv, NEW t \in Tasks, NEW u \in Tasks, BecomeDue(u) \/ ExpireLock(u)
    PROVE  Flow(t)
  <1>1. /\ status' = status /\ attempts' = attempts /\ assets' = assets
        /\ list' = list /\ pc' = pc /\ job' = job /\ client' = client
    BY DEF BecomeDue, ExpireLock, dbVars, workerVars
  <1>2. Delayed(t)' = Delayed(t)
    BY DEF BecomeDue, ExpireLock, TypeInv, TypeOK, RedisTypeOK, Delayed
  <1>3. StatusFlow(t) /\ QueueFlow(t)
    BY <1>1, <1>2 DEF StatusFlow, QueueFlow, InList
  <1>4. ClientFlow(t) /\ \A w \in Workers : WorkerFlow(w, t)
    BY <1>1 DEF ClientFlow, WorkerFlow
  <1>5. QED
    BY <1>1, <1>3, <1>4 DEF Flow

LEMMA LoopFlows ==
    ASSUME TypeInv, NEW w \in Workers, NEW t \in Tasks,
           \/ PromoteScheduled(w) \/ Dequeue(w) \/ DequeueTimesOut(w)
           \/ LockTask(w) \/ SkipTask(w) \/ UnlockTask(w) \/ WorkerCrashes(w)
    PROVE  Flow(t)
  <1> USE DEF dbVars, redisVars, Goto, BackToPoll
  <1>1. /\ status' = status /\ attempts' = attempts /\ assets' = assets /\ client' = client
    BY DEF PromoteScheduled, Dequeue, DequeueTimesOut, LockTask, SkipTask, UnlockTask, WorkerCrashes
  <1>2. /\ list \in Seq(Tasks) /\ scheduled \in [Tasks -> {"no", "waiting", "due"}]
        /\ pc \in [Workers -> WorkerPc] /\ job \in [Workers -> Job] /\ NoTask \notin Tasks
    BY DEF TypeInv, TypeOK, RedisTypeOK, WorkerTypeOK
  <1>3. QueueFlow(t)
    <2>1. CASE PromoteScheduled(w)
      <3> DEFINE due == {u \in Tasks : scheduled[u] = "due"}
                 n   == IF Cardinality(due) < PromoteLimit THEN Cardinality(due) ELSE PromoteLimit
      <3>1. n \in Nat
        BY PromotedBatch
      <3>2. PICK batch \in [1..n -> due] :
              /\ \A i, j \in 1..n : batch[i] = batch[j] => i = j
              /\ list' = list \o batch
              /\ scheduled' = [u \in Tasks |->
                                 IF \E i \in 1..n : batch[i] = u THEN "no" ELSE scheduled[u]]
        BY <2>1 DEF PromoteScheduled
      <3>3. batch \in [1..n -> Tasks] /\ \A i \in 1..n : scheduled[batch[i]] = "due"
        BY <3>2
      <3> HIDE DEF n, due
      <3>4. In(list \o batch, t) <=> In(list, t) \/ \E i \in 1..n : batch[i] = t
        <4>1. list \in Seq(Tasks) /\ n \in Nat /\ batch \in [1..n -> Tasks]
          BY <1>2, <3>1, <3>3
        <4>2. \A i, j \in 1..n : batch[i] = batch[j] => i = j
          BY <3>2
        <4>3. QED
          BY ONLY <4>1, <4>2, Joined
      <3>5. InList(t)' => InList(t) \/ Delayed(t)
        BY <3>2, <3>3, <3>4 DEF InList, In, Delayed
      <3>6. Delayed(t)' => Delayed(t)
        BY <3>2 DEF Delayed
      <3>7. QED
        BY <3>5, <3>6 DEF QueueFlow
    <2>2. CASE Dequeue(w)
      <3>1. list # <<>> /\ list' = Tail(list) /\ scheduled' = scheduled
        BY <2>2 DEF Dequeue
      <3>2. In(list', t) => In(list, t)
        BY <1>2, <3>1, Popped
      <3>3. QED
        BY <3>1, <3>2 DEF QueueFlow, InList, In, Delayed
    <2>3. CASE ~PromoteScheduled(w) /\ ~Dequeue(w)
      <3>1. list' = list /\ scheduled' = scheduled
        BY <2>3 DEF DequeueTimesOut, LockTask, SkipTask, UnlockTask, WorkerCrashes
      <3>2. QED
        BY <3>1 DEF QueueFlow, InList, Delayed
    <2>4. QED
      BY <2>1, <2>2, <2>3
  <1>4. \A v \in Workers \ {w} : pc'[v] = pc[v] /\ job'[v] = job[v]
    BY <1>2 DEF PromoteScheduled, Dequeue, DequeueTimesOut, LockTask, SkipTask, UnlockTask,
                WorkerCrashes
  <1>5. WorkerFlow(w, t)
    <2>1. CASE PromoteScheduled(w)
      BY <1>2, <2>1 DEF PromoteScheduled, WorkerFlow, TypeInv, TypeOK, WorkerTypeOK
    <2>2. CASE Dequeue(w)
      <3>1. pc[w] = "pop" /\ list # <<>> /\ Head(list) \in Tasks
        BY <1>2, <2>2 DEF Dequeue
      <3>2. CASE BackToPoll(w)
        BY <1>2, <3>2 DEF WorkerFlow, NoJob
      <3>3. CASE pc' = [pc EXCEPT ![w] = "lock"] /\ job' = [job EXCEPT ![w].task = Head(list)]
        <4>1. /\ pc'[w] = "lock" /\ job'[w] = [job[w] EXCEPT !.task = Head(list)]
              /\ job'[w].task = Head(list)
          BY <1>2, <3>1, <3>3 DEF Job
        <4>2. t = Head(list) => InList(t)
          BY <1>2, <3>1, Popped DEF InList
        <4>3. QED
          BY <3>1, <4>1, <4>2 DEF WorkerFlow
      <3>4. QED
        BY <2>2, <3>2, <3>3 DEF Dequeue
    <2>3. CASE DequeueTimesOut(w)
      BY <1>2, <2>3 DEF DequeueTimesOut, WorkerFlow, TypeInv, TypeOK, WorkerTypeOK
    <2>4. CASE LockTask(w)
      BY <1>2, <2>4 DEF LockTask, WorkerFlow, NoJob
    <2>5. CASE SkipTask(w) \/ UnlockTask(w) \/ WorkerCrashes(w)
      BY <1>2, <2>5 DEF SkipTask, UnlockTask, WorkerCrashes, WorkerFlow, NoJob
    <2>6. QED
      BY <2>1, <2>2, <2>3, <2>4, <2>5
  <1>6. \A v \in Workers : WorkerFlow(v, t)
    BY <1>4, <1>5 DEF WorkerFlow
  <1>7. StatusFlow(t) /\ ClientFlow(t)
    BY <1>1 DEF StatusFlow, ClientFlow
  <1>8. QED
    BY <1>1, <1>3, <1>6, <1>7 DEF Flow

LEMMA StepFlows ==
    ASSUME TypeInv, CopyInv, [Next]_vars, repairs' = 0, NEW t \in Tasks
    PROVE  Flow(t) \/ \E w \in Workers : ProcessTask(w) /\ job[w].task = t
  <1>1. \A c \in Clients, u \in Tasks : ~RepairLoad(c, u)
    BY RepairsStay
  <1>2. \A c \in Clients : ~RepairReset(c)
    BY DEF CopyInv, RepairReset
  <1>3. CASE \E c \in Clients, u \in Tasks : InsertTask(c, u)
    BY <1>3, RequestFlows
  <1>4. CASE \E c \in Clients : FinishRequest(c) \/ ClientStops(c)
    BY <1>2, <1>4, RequestFlows
  <1>5. CASE \E u \in Tasks : BecomeDue(u) \/ ExpireLock(u)
    BY <1>5, RedisFlows
  <1>6. ASSUME NEW w \in Workers, RunWorker(w) \/ WorkerCrashes(w), ~ProcessTask(w)
        PROVE  Flow(t)
    BY <1>6, LoopFlows DEF RunWorker
  <1>7. ASSUME NEW w \in Workers, ProcessTask(w), job[w].task # t
        PROVE  Flow(t)
    BY <1>7, ProcessUntouched, UntouchedFlows
  <1>8. CASE UNCHANGED vars
    <2>1. Untouched(t)
      BY <1>8 DEF Untouched, InList, vars, dbVars, redisVars, workerVars
    <2>2. QED
      BY <2>1, UntouchedFlows
  <1>9. QED
    BY <1>1, <1>3, <1>4, <1>5, <1>6, <1>7, <1>8 DEF Next

\* What a step of ProcessTask leaves alone even for its own task.
LEMMA OwnTask ==
    ASSUME TypeInv, NEW w \in Workers, ProcessTask(w), NEW t \in Tasks, t = job[w].task
    PROVE  /\ job[w] \in Job /\ job'[w] \in Job /\ job'[w].task = t /\ CopyMoves(w, t)
           /\ \A v \in Workers \ {w} : /\ pc'[v] = pc[v] /\ job'[v] = job[v]
                                       /\ Live(v, t)' = Live(v, t)
           /\ InList(t)' = InList(t) /\ \A c \in Clients : Sends(c, t)' = Sends(c, t)
           /\ client' = client
           /\ Live(w, t)' => Live(w, t)
           /\ ~Live(w, t) <=> pc[w] = "retry_mark"
           /\ pc[w] = "retry_mark" => Delayed(t)' = Delayed(t)
  <1>1. list' = list /\ client' = client
    BY ProcessFrame
  <1>2. job'[w].task = t /\ pc[w] \in Processing
        /\ \A v \in Workers \ {w} : pc'[v] = pc[v] /\ job'[v] = job[v]
    BY ProcessTaskStays
  <1>3. CopyMoves(w, t)
    BY ProcessMoves
  <1>4. /\ InList(t)' = InList(t)
        /\ \A c \in Clients : Sends(c, t)' = Sends(c, t)
        /\ \A v \in Workers \ {w} : Live(v, t)' = Live(v, t)
    BY <1>1, <1>2 DEF InList, Sends, Live
  <1>5. /\ Live(w, t)' => Live(w, t)
        /\ ~Live(w, t) <=> pc[w] = "retry_mark"
        /\ pc[w] = "retry_mark" => Delayed(t)' = Delayed(t)
    BY <1>2, <1>3 DEF Live, CopyMoves, Processing, Delayed
  <1>6. job[w] \in Job /\ job'[w] \in Job
    <2>1. TypeInv'
      BY NextKeepsTypeInv DEF Next, RunWorker
    <2>2. QED
      BY <2>1 DEF TypeInv, TypeOK, WorkerTypeOK
  <1>7. QED
    BY <1>1, <1>2, <1>3, <1>4, <1>5, <1>6

-----------------------------------------------------------------------------
(***************************************************************************)
(* Attempt numbers again, now from the single copy: no lock is needed, so  *)
(* not even an execution that outlives it repeats a number.                *)
(***************************************************************************)
Attempting == {"start", "generate", "register", "close", "conclude", "fail_attempt", "fail_task",
               "retry_attempt", "retry_status", "retry_enqueue"}

NumberFits(w, t) ==
    /\ pc[w] = "insert" => job[w].no = Len(attempts[t]) + 1
    /\ pc[w] \in Attempting =>
         job[w].row = Len(attempts[t]) /\ job[w].no = job[w].row /\ job[w].row > 0

NumbersFit(t) == Numbered(t) /\ \A w \in Workers : Live(w, t) => NumberFits(w, t)

LEMMA FinishedSeq ==
    ASSUME TypeInv, NEW t \in Tasks, NEW row \in Nat,
           NEW s \in {"running", "completed", "failed"}, NEW retry \in BOOLEAN,
           Finished(t, row, s, retry)
    PROVE  /\ DOMAIN attempts'[t] = DOMAIN attempts[t] /\ Len(attempts'[t]) = Len(attempts[t])
           /\ \A i \in DOMAIN attempts[t] : attempts'[t][i].no = attempts[t][i].no
           /\ \A i \in DOMAIN attempts[t] \ {row} : attempts'[t][i] = attempts[t][i]
           /\ row \in DOMAIN attempts[t] =>
                attempts'[t][row].status = s /\ attempts'[t][row].retry = retry
  <1> DEFINE a == attempts[t]
             b == attempts'[t]
             e == [a[row] EXCEPT !.status = s, !.retry = retry]
  <1>1. a \in Seq(Attempt)
    BY DEF TypeInv, TypeOK, DbTypeOK
  <1>2. ASSUME row \in DOMAIN a
        PROVE  e \in Attempt /\ e.no = a[row].no /\ e.status = s /\ e.retry = retry
    <2>1. a[row] \in Attempt
      BY <1>1, <1>2
    <2>2. QED
      BY <2>1 DEF Attempt
  <1>3. b = [a EXCEPT ![row] = e]
    BY DEF Finished
  <1> HIDE DEF e, a, b
  <1>4. b \in Seq(Attempt) /\ DOMAIN b = DOMAIN a /\ Len(b) = Len(a)
    BY <1>1, <1>2, <1>3, SeqUpdate
  <1>5. \A i \in DOMAIN a : b[i] = IF i = row THEN e ELSE a[i]
    BY <1>1, <1>3
  <1>6. QED
    BY <1>2, <1>4, <1>5 DEF a, b

LEMMA FlowKeepsNumbers ==
    ASSUME NEW t \in Tasks, NumbersFit(t), Flow(t)
    PROVE  NumbersFit(t)'
  <1>1. Numbered(t)'
    BY DEF Flow, NumbersFit, Numbered
  <1>2. ASSUME NEW w \in Workers, Live(w, t)'
        PROVE  NumberFits(w, t)'
    <2>1. attempts'[t] = attempts[t] /\ WorkerFlow(w, t)
      BY DEF Flow
    <2>2. CASE pc'[w] = pc[w] /\ job'[w] = job[w]
      BY <1>2, <2>1, <2>2 DEF NumbersFit, NumberFits, Live
    <2>3. CASE pc'[w] \in {"lock", "load"}
      BY <2>3 DEF NumberFits, Attempting
    <2>4. QED
      BY <1>2, <2>1, <2>2, <2>3 DEF WorkerFlow, Live
  <1>3. QED
    BY <1>1, <1>2 DEF NumbersFit

LEMMA MoveKeepsNumbers ==
    ASSUME TypeInv, NEW w \in Workers, ProcessTask(w), NEW t \in Tasks, t = job[w].task,
           OneCopy(t), NumbersFit(t)
    PROVE  NumbersFit(t)'
  <1>1. attempts[t] \in Seq(Attempt) /\ Len(attempts[t]) \in Nat /\ job[w] \in Job
    BY OwnTask DEF TypeInv, TypeOK, DbTypeOK
  <1>2. \A v \in Workers : Live(v, t)' =>
            (v = w /\ Live(w, t)) \/ (v # w /\ ~Live(w, t) /\ Live(v, t))
    BY OwnTask DEF OneCopy
  <1>3. ASSUME attempts'[t] = attempts[t],
               Live(w, t) => NumberFits(w, t)'
        PROVE  NumbersFit(t)'
    <2>1. Numbered(t)'
      BY <1>3 DEF NumbersFit, Numbered
    <2>2. ASSUME NEW v \in Workers, Live(v, t)'
          PROVE  NumberFits(v, t)'
      <3>1. CASE v = w
        BY <1>2, <1>3, <2>2, <3>1
      <3>2. CASE v # w
        <4>1. Live(v, t) /\ pc'[v] = pc[v] /\ job'[v] = job[v]
          BY <1>2, <2>2, <3>2, OwnTask
        <4>2. QED
          BY <1>3, <4>1 DEF NumbersFit, NumberFits
      <3>3. QED
        BY <3>1, <3>2
    <2>3. QED
      BY <2>1, <2>2 DEF NumbersFit
  <1>4. CASE pc[w] = "retry_mark"
    <2>1. attempts'[t] = attempts[t] /\ ~Live(w, t)
      <3>1. ~Live(w, t)
        BY <1>4, OwnTask
      <3>2. QED
        BY <1>4, <3>1, ProcessMove DEF SilentMove, SameRows, StatusMove, FinishMove, AttemptMove,
                  GenerateMove, RegisterMove, EnqueueMove
    <2>2. QED
      BY <1>3, <2>1
  <1>5. CASE pc[w] # "retry_mark"
    <2>1. Live(w, t) /\ NumberFits(w, t)
      BY <1>5, OwnTask DEF NumbersFit
    <2>2. CASE SilentMove(w, t)
      <3>1. NumberFits(w, t)'
        BY <1>5, <2>1, <2>2 DEF SilentMove, SameRows, NumberFits, Attempting
      <3>2. QED
        BY <1>3, <2>2, <3>1 DEF SilentMove, SameRows
    <2>3. CASE StatusMove(w, t)
      <3>1. NumberFits(w, t)'
        BY <1>5, <2>1, <2>3 DEF StatusMove, NumberFits, Attempting
      <3>2. QED
        BY <1>3, <2>3, <3>1 DEF StatusMove
    <2>4. CASE FinishMove(w, t)
      <3>1. /\ DOMAIN attempts'[t] = DOMAIN attempts[t] /\ Len(attempts'[t]) = Len(attempts[t])
            /\ \A i \in DOMAIN attempts[t] : attempts'[t][i].no = attempts[t][i].no
        <4>1. ASSUME NEW s \in {"completed", "failed"}, NEW retry \in BOOLEAN,
                     Finished(t, job[w].row, s, retry)
              PROVE  /\ DOMAIN attempts'[t] = DOMAIN attempts[t]
                     /\ Len(attempts'[t]) = Len(attempts[t])
                     /\ \A i \in DOMAIN attempts[t] : attempts'[t][i].no = attempts[t][i].no
          <5>1. job[w].row \in Nat
            BY <1>1 DEF Job
          <5>2. QED
            BY <4>1, <5>1, FinishedSeq
        <4>2. QED
          BY <2>4, <4>1, Zenon DEF FinishMove
      <3>2. NumberFits(w, t)'
        BY <2>1, <2>4, <3>1 DEF FinishMove, NumberFits, Attempting
      <3>3. Numbered(t)'
        BY <3>1 DEF NumbersFit, Numbered
      <3>4. \A v \in Workers : Live(v, t)' => v = w
        BY <1>2, <2>1
      <3>5. QED
        BY <3>2, <3>3, <3>4 DEF NumbersFit
    <2>5. CASE AttemptMove(w, t) /\ pc[w] = "number"
      <3>1. LastAttemptNo(t) = Len(attempts[t])
        BY LastIsLen DEF NumbersFit
      <3>2. attempts'[t] = attempts[t] /\ pc'[w] = "insert" /\ job'[w].no = Len(attempts[t]) + 1
        BY <1>1, <2>5, <3>1 DEF AttemptMove, Job
      <3>3. NumberFits(w, t)'
        BY <3>2 DEF NumberFits, Attempting
      <3>4. QED
        BY <1>3, <3>2, <3>3
    <2>6. CASE AttemptMove(w, t) /\ pc[w] = "insert"
      <3> DEFINE row == [no |-> job[w].no, status |-> "running", retry |-> FALSE]
      <3>1. /\ pc'[w] = "start" /\ job'[w].row = Len(attempts[t]) + 1
            /\ job'[w].no = job[w].no /\ attempts'[t] = Append(attempts[t], row)
            /\ job[w].no = Len(attempts[t]) + 1 /\ row.no = job[w].no
        BY <1>1, <2>1, <2>6 DEF AttemptMove, Job, NumberFits
      <3> HIDE DEF row
      <3>2. /\ Len(attempts'[t]) = Len(attempts[t]) + 1
            /\ DOMAIN attempts'[t] = 1..(Len(attempts[t]) + 1)
            /\ attempts'[t][Len(attempts[t]) + 1] = row
            /\ \A i \in 1..Len(attempts[t]) : attempts'[t][i] = attempts[t][i]
        BY <1>1, <3>1
      <3>3. Numbered(t)'
        BY <1>1, <3>1, <3>2 DEF NumbersFit, Numbered
      <3>4. NumberFits(w, t)'
        BY <1>1, <3>1, <3>2 DEF NumberFits, Attempting
      <3>5. \A v \in Workers : Live(v, t)' => v = w
        BY <1>2, <2>1
      <3>6. QED
        BY <3>3, <3>4, <3>5 DEF NumbersFit
    <2>7. CASE GenerateMove(w, t)
      <3>1. attempts'[t] = attempts[t] /\ job'[w].row = job[w].row /\ job'[w].no = job[w].no
            /\ pc'[w] # "insert" /\ pc[w] \in Attempting
        BY <1>1, <2>7 DEF GenerateMove, SameRows, Job, AfterGenerate, Attempting
      <3>2. NumberFits(w, t)'
        BY <2>1, <3>1 DEF NumberFits
      <3>3. QED
        BY <1>3, <3>1, <3>2
    <2>8. CASE RegisterMove(w, t)
      <3>1. attempts'[t] = attempts[t] /\ job'[w].row = job[w].row /\ job'[w].no = job[w].no
            /\ pc'[w] # "insert" /\ pc[w] \in Attempting
        BY <1>1, <2>8 DEF RegisterMove, Job, Attempting
      <3>2. NumberFits(w, t)'
        BY <2>1, <3>1 DEF NumberFits
      <3>3. QED
        BY <1>3, <3>1, <3>2
    <2>9. CASE EnqueueMove(w, t)
      <3>1. NumberFits(w, t)'
        BY <2>9 DEF EnqueueMove, NumberFits, Attempting
      <3>2. QED
        BY <1>3, <2>9, <3>1 DEF EnqueueMove, SameRows
    <2>10. QED
      BY <2>2, <2>3, <2>4, <2>5, <2>6, <2>7, <2>8, <2>9, ProcessMove DEF AttemptMove
  <1>6. QED
    BY <1>4, <1>5

NumbersHeld == repairs = 0 => \A t \in Tasks : NumbersFit(t)

LEMMA NumbersHold == Spec => []NumbersHeld
  <1>1. Init => NumbersHeld
    BY DEF Init, NumbersHeld, NumbersFit, NumberFits, Numbered, Live, Attempting
  <1>2. TypeInv /\ CopyHeld /\ NumbersHeld /\ [Next]_vars => NumbersHeld'
    <2> SUFFICES ASSUME TypeInv, CopyHeld, NumbersHeld, [Next]_vars, repairs' = 0, NEW t \in Tasks
                 PROVE  NumbersFit(t)'
      BY DEF NumbersHeld
    <2>1. CopyInv /\ NumbersFit(t)
      BY RepairsStay DEF CopyHeld, NumbersHeld
    <2>2. CASE Flow(t)
      BY <2>1, <2>2, FlowKeepsNumbers
    <2>3. CASE \E w \in Workers : ProcessTask(w) /\ job[w].task = t
      BY <2>1, <2>3, MoveKeepsNumbers DEF CopyInv
    <2>4. QED
      BY <2>1, <2>2, <2>3, StepFlows
  <1>3. QED
    BY <1>1, <1>2, TypeCorrect, CopyHolds, PTL DEF Spec

\* As long as no operator requeues a task, its attempts are numbered 1, 2, 3,
\* ... even when executions outlive their lock, which NumberingHolds excludes.
THEOREM NumberingNeedsNoLock == Spec => [](repairs = 0 => \A t \in Tasks : Numbered(t))
  <1>1. NumbersHeld => (repairs = 0 => \A t \in Tasks : Numbered(t))
    BY DEF NumbersHeld, NumbersFit
  <1>2. QED
    BY <1>1, NumbersHold, PTL

-----------------------------------------------------------------------------
(***************************************************************************)
(* The life of one task, from the single copy of its id: its attempts are  *)
(* closed when it settles, it lives as TaskLifecycle describes, and it is  *)
(* not forgotten.  Each theorem names the faults it cannot bear.           *)
(***************************************************************************)

Pending(t) == InList(t) \/ Delayed(t) \/ \E c \in Clients : Sends(c, t)

\* A step of ProcessTask is one by the worker that has the copy, or the mark
\* of a worker whose retry could not be scheduled.
LEMMA Acting ==
    ASSUME TypeInv, NEW w \in Workers, ProcessTask(w), NEW t \in Tasks, t = job[w].task,
           OneCopy(t), Unsent(t)
    PROVE  /\ status[t] # "none" /\ status'[t] # "none"
           /\ pc[w] # "retry_mark" =>
                /\ Live(w, t) /\ ~Pending(t) /\ (Pending(t)' => Delayed(t)')
                /\ \A v \in Workers : Live(v, t)' => v = w
           /\ pc[w] = "retry_mark" =>
                /\ ~Live(w, t)' /\ Pending(t)' = Pending(t)
                /\ attempts'[t] = attempts[t] /\ assets'[t] = assets[t]
                /\ \/ status'[t] = "enqueue_failed"
                   \/ "store_error" \in Faults /\ status'[t] = status[t]
           /\ \A v \in Workers \ {w} : Live(v, t)' = Live(v, t) /\ pc'[v] = pc[v] /\ job'[v] = job[v]
  <1>1. CopyMoves(w, t) /\ \A v \in Workers \ {w} :
            Live(v, t)' = Live(v, t) /\ pc'[v] = pc[v] /\ job'[v] = job[v]
    BY OwnTask
  <1>2. status[t] # "none" /\ status'[t] # "none"
    BY <1>1 DEF Unsent, CopyMoves
  <1>3. CASE pc[w] # "retry_mark"
    <2>1. Live(w, t) /\ InList(t)' = InList(t) /\ \A c \in Clients : Sends(c, t)' = Sends(c, t)
      BY <1>3, OwnTask
    <2>2. ~Pending(t) /\ \A v \in Workers \ {w} : ~Live(v, t)
      BY <2>1, Alone DEF Pending
    <2>3. QED
      BY <1>1, <1>2, <1>3, <2>1, <2>2 DEF Pending
  <1>4. CASE pc[w] = "retry_mark"
    <2>1. ~Live(w, t)' /\ Pending(t)' = Pending(t)
      BY <1>4, OwnTask DEF Pending
    <2>2. attempts'[t] = attempts[t] /\ assets'[t] = assets[t]
          /\ \/ status'[t] = "enqueue_failed"
             \/ "store_error" \in Faults /\ status'[t] = status[t]
      BY <1>4, ProcessMove DEF SilentMove, SameRows, StatusMove, FinishMove, AttemptMove,
               GenerateMove, RegisterMove, EnqueueMove
    <2>3. QED
      BY <1>1, <1>2, <1>4, <2>1, <2>2
  <1>5. QED
    BY <1>3, <1>4

-----------------------------------------------------------------------------
(***************************************************************************)
(* Attempts and the end of the task.                                       *)
(***************************************************************************)
Tried(t, n) ==
    \A i \in DOMAIN attempts[t] :
        i <= n => attempts[t][i].status = "failed" /\ attempts[t][i].retry = TRUE

Closed(t) ==
    /\ Tried(t, Len(attempts[t]) - 1)
    /\ \A i \in DOMAIN attempts[t] :
         i = Len(attempts[t]) => attempts[t][i].status # "running" /\ attempts[t][i].retry = FALSE

\* Between its insert and its close an attempt is not marked for retry.
Open(t) ==
    /\ Tried(t, Len(attempts[t]) - 1)
    /\ \A i \in DOMAIN attempts[t] : i = Len(attempts[t]) => attempts[t][i].retry = FALSE

Opened  == {"start", "generate", "register", "close", "fail_attempt", "retry_attempt"}
Closing == {"conclude", "fail_task"}

AttemptFits(w, t) ==
    IF pc[w] \in Opened THEN Open(t)
    ELSE IF pc[w] \in Closing THEN Closed(t)
    ELSE Tried(t, Len(attempts[t]))

AttemptsFit(t) ==
    /\ Pending(t) => Tried(t, Len(attempts[t]))
    /\ \A w \in Workers : Live(w, t) => AttemptFits(w, t)
    /\ status[t] \in Terminal => ~Pending(t) /\ Closed(t) /\ \A w \in Workers : ~Live(w, t)

LEMMA SameAttempts ==
    ASSUME NEW t \in Tasks, attempts'[t] = attempts[t]
    PROVE  /\ Open(t)' = Open(t) /\ Closed(t)' = Closed(t)
           /\ Tried(t, Len(attempts[t]))' = Tried(t, Len(attempts[t]))
BY DEF Open, Closed, Tried

\* The next place of the copy.
LEMMA FlowLive ==
    ASSUME NEW t \in Tasks, Flow(t), NEW w \in Workers, Live(w, t)'
    PROVE  \/ Live(w, t) /\ pc'[w] = pc[w] /\ job'[w] = job[w]
           \/ Live(w, t) /\ pc[w] = "lock" /\ pc'[w] = "load" /\ job'[w] = job[w]
           \/ /\ InList(t) /\ pc[w] = "pop" /\ pc'[w] = "lock"
              /\ job'[w] = [job[w] EXCEPT !.task = t]
BY DEF Flow, WorkerFlow, Live

LEMMA FlowPending ==
    ASSUME NEW t \in Tasks, Flow(t), Pending(t)'
    PROVE  Pending(t) \/ status[t] = "none"
  <1>1. CASE InList(t)' \/ Delayed(t)'
    BY <1>1 DEF Flow, QueueFlow, Pending
  <1>2. CASE \E c \in Clients : Sends(c, t)'
    BY <1>2 DEF Flow, ClientFlow, Pending, Sends
  <1>3. QED
    BY <1>1, <1>2 DEF Pending

LEMMA FlowKeepsAttempts ==
    ASSUME NEW t \in Tasks, AttemptsFit(t), Unsent(t), Flow(t)
    PROVE  AttemptsFit(t)'
  <1>1. attempts'[t] = attempts[t] /\ StatusFlow(t)
    BY DEF Flow
  <1>2. status[t] = "none" => Tried(t, Len(attempts[t])) /\ ~Pending(t) /\ \A w \in Workers : ~Live(w, t)
    BY DEF Unsent, Tried, Pending, Live, Sends
  <1>3. Pending(t)' => Tried(t, Len(attempts[t]))'
    BY <1>1, <1>2, FlowPending, SameAttempts DEF AttemptsFit
  <1>4. ASSUME NEW w \in Workers, Live(w, t)'
        PROVE  AttemptFits(w, t)'
    <2>1. CASE Live(w, t) /\ pc'[w] = pc[w]
      BY <1>1, <2>1, SameAttempts DEF AttemptsFit, AttemptFits
    <2>2. CASE pc'[w] \in {"lock", "load"} /\ Tried(t, Len(attempts[t]))
      BY <1>1, <2>2, SameAttempts DEF AttemptFits, Opened, Closing
    <2>3. CASE Live(w, t) /\ pc[w] = "lock" /\ pc'[w] = "load"
      BY <2>2, <2>3 DEF AttemptsFit, AttemptFits, Opened, Closing
    <2>4. CASE InList(t) /\ pc'[w] = "lock"
      BY <2>2, <2>4 DEF AttemptsFit, Pending
    <2>5. QED
      BY <1>4, <2>1, <2>3, <2>4, FlowLive
  <1>5. ASSUME status'[t] \in Terminal
        PROVE  ~Pending(t)' /\ Closed(t)' /\ \A w \in Workers : ~Live(w, t)'
    <2>1. status[t] \in Terminal
      BY <1>1, <1>5 DEF StatusFlow, Terminal
    <2>2. ~Pending(t) /\ status[t] # "none" /\ Closed(t) /\ ~InList(t) /\ \A w \in Workers : ~Live(w, t)
      BY <2>1 DEF AttemptsFit, Terminal, Pending
    <2>3. QED
      BY <1>1, <2>2, FlowLive, FlowPending, SameAttempts
  <1>6. QED
    BY <1>3, <1>4, <1>5 DEF AttemptsFit

LEMMA MoveKeepsAttempts ==
    ASSUME TypeInv, "store_error" \notin Faults, NEW w \in Workers, ProcessTask(w), NEW t \in Tasks,
           t = job[w].task, OneCopy(t), Unsent(t), NumbersFit(t), AttemptsFit(t)
    PROVE  AttemptsFit(t)'
  <1> DEFINE n == Len(attempts[t])
  <1>1. attempts[t] \in Seq(Attempt) /\ n \in Nat /\ DOMAIN attempts[t] = 1..n /\ job[w] \in Job
    BY OwnTask DEF TypeInv, TypeOK, DbTypeOK
  <1>2. CASE pc[w] = "retry_mark"
    <2>1. /\ ~Live(w, t)' /\ Pending(t)' = Pending(t) /\ attempts'[t] = attempts[t]
          /\ status'[t] = "enqueue_failed"
          /\ \A v \in Workers \ {w} : Live(v, t)' = Live(v, t) /\ pc'[v] = pc[v]
      BY <1>2, Acting
    <2>2. \A v \in Workers : Live(v, t)' => AttemptFits(v, t)'
      BY <2>1, SameAttempts DEF AttemptsFit, AttemptFits
    <2>3. QED
      BY <2>1, <2>2, SameAttempts DEF AttemptsFit, Terminal
  <1>3. CASE pc[w] # "retry_mark"
    <2>1. /\ Live(w, t) /\ ~Pending(t) /\ (Pending(t)' => Delayed(t)')
          /\ \A v \in Workers : Live(v, t)' => v = w
      BY <1>3, Acting
    <2>2. AttemptFits(w, t) /\ status[t] \notin Terminal /\ NumberFits(w, t)
      BY <2>1 DEF AttemptsFit, NumbersFit
    <2>3. ~Delayed(t)
      BY <2>1 DEF Pending
    <2>4. SUFFICES /\ Delayed(t)' => Tried(t, Len(attempts[t]))'
                   /\ Live(w, t)' => AttemptFits(w, t)'
                   /\ status'[t] \in Terminal => ~Delayed(t)' /\ Closed(t)' /\ ~Live(w, t)'
      BY <2>1 DEF AttemptsFit
    <2>5. CASE SilentMove(w, t)
      BY <1>3, <2>2, <2>3, <2>5, SameAttempts
         DEF SilentMove, SameRows, Delayed, AttemptFits, Opened, Closing, Live
    <2>6. CASE StatusMove(w, t)
      <3>1. attempts'[t] = attempts[t] /\ ~Delayed(t)' /\ job'[w] = job[w]
        BY <2>3, <2>6 DEF StatusMove, Delayed
      <3>2. CASE pc[w] = "start" /\ pc'[w] = "generate" /\ status'[t] = "running"
        BY <2>2, <3>1, <3>2, SameAttempts DEF AttemptFits, Opened, Closing, Terminal
      <3>3. CASE pc[w] = "retry_status" /\ pc'[w] = "retry_enqueue" /\ status'[t] = "queued"
        BY <2>2, <3>1, <3>3, SameAttempts DEF AttemptFits, Opened, Closing, Terminal
      <3>4. CASE pc[w] \in Closing /\ pc'[w] = "unlock"
        BY <2>2, <3>1, <3>4, SameAttempts DEF AttemptFits, Opened, Closing, Live
      <3>5. QED
        BY <1>3, <2>6, <3>2, <3>3, <3>4 DEF StatusMove, Closing
    <2>7. CASE FinishMove(w, t)
      <3>1. /\ job[w].row \in Nat /\ job[w].row = n /\ n > 0 /\ Open(t)
            /\ ~Delayed(t)' /\ status'[t] \notin Terminal
        BY <1>1, <2>2, <2>3, <2>7
           DEF FinishMove, NumberFits, Attempting, AttemptFits, Opened, Closing, Delayed, Job
      <3>2. ASSUME NEW s \in {"completed", "failed"}, NEW retry \in BOOLEAN,
                   Finished(t, job[w].row, s, retry)
            PROVE  /\ Len(attempts'[t]) = n /\ DOMAIN attempts'[t] = 1..n
                   /\ attempts'[t][n].status = s /\ attempts'[t][n].retry = retry
                   /\ \A i \in 1..n : i <= n - 1 =>
                        attempts'[t][i].status = "failed" /\ attempts'[t][i].retry = TRUE
        <4>1. /\ DOMAIN attempts'[t] = DOMAIN attempts[t] /\ Len(attempts'[t]) = Len(attempts[t])
              /\ \A i \in DOMAIN attempts[t] \ {job[w].row} : attempts'[t][i] = attempts[t][i]
              /\ job[w].row \in DOMAIN attempts[t] =>
                   attempts'[t][job[w].row].status = s /\ attempts'[t][job[w].row].retry = retry
          BY <3>1, <3>2, FinishedSeq
        <4>2. \A i \in 1..n : i <= n - 1 =>
                attempts[t][i].status = "failed" /\ attempts[t][i].retry = TRUE /\ i # n
          BY <1>1, <3>1 DEF Open, Tried
        <4>3. n \in DOMAIN attempts[t] /\ job[w].row = n
          BY <1>1, <3>1
        <4>4. \A i \in 1..n : i # n => attempts'[t][i] = attempts[t][i]
          BY <1>1, <4>1, <4>3
        <4>5. attempts'[t][n].status = s /\ attempts'[t][n].retry = retry
          BY <4>1, <4>3
        <4>6. QED
          BY <1>1, <4>1, <4>2, <4>4, <4>5
      <3>3. CASE pc[w] = "retry_attempt"
        <4>1. Finished(t, job[w].row, "failed", TRUE) /\ pc'[w] = "retry_status"
          BY <2>7, <3>3 DEF FinishMove
        <4>2. /\ Len(attempts'[t]) = n /\ DOMAIN attempts'[t] = 1..n
              /\ attempts'[t][n].status = "failed" /\ attempts'[t][n].retry = TRUE
              /\ \A i \in 1..n : i <= n - 1 =>
                   attempts'[t][i].status = "failed" /\ attempts'[t][i].retry = TRUE
          BY <3>2, <4>1
        <4>3. \A i \in 1..n : i = n \/ i <= n - 1
          BY <1>1
        <4>4. Tried(t, Len(attempts[t]))'
          BY <4>2, <4>3 DEF Tried
        <4>5. QED
          BY <3>1, <4>1, <4>4 DEF AttemptFits, Opened, Closing
      <3>4. CASE pc[w] \in {"close", "fail_attempt"}
        <4>1. pc'[w] \in Closing /\ \E s \in {"completed", "failed"} :
                                       Finished(t, job[w].row, s, FALSE)
          BY <2>7, <3>4 DEF FinishMove, Closing
        <4>2. Closed(t)'
          BY <1>1, <3>2, <4>1 DEF Closed, Tried
        <4>3. QED
          BY <3>1, <4>1, <4>2 DEF AttemptFits, Opened, Closing
      <3>5. QED
        BY <2>7, <3>3, <3>4 DEF FinishMove
    <2>8. CASE AttemptMove(w, t) /\ pc[w] = "number"
      BY <2>2, <2>3, <2>8, SameAttempts DEF AttemptMove, Delayed, AttemptFits, Opened, Closing
    <2>9. CASE AttemptMove(w, t) /\ pc[w] = "insert"
      <3> DEFINE row == [no |-> job[w].no, status |-> "running", retry |-> FALSE]
      <3>1. attempts'[t] = Append(attempts[t], row) /\ row.retry = FALSE /\ pc'[w] = "start"
            /\ ~Delayed(t)' /\ status'[t] \notin Terminal /\ Tried(t, n)
        BY <2>2, <2>3, <2>9 DEF AttemptMove, Delayed, AttemptFits, Opened, Closing
      <3> HIDE DEF row
      <3>2. /\ Len(attempts'[t]) = n + 1 /\ DOMAIN attempts'[t] = 1..(n + 1)
            /\ attempts'[t][n + 1] = row /\ \A i \in 1..n : attempts'[t][i] = attempts[t][i]
        BY <1>1, <3>1
      <3>3. Open(t)'
        BY <1>1, <3>1, <3>2 DEF Open, Tried
      <3>4. QED
        BY <3>1, <3>3 DEF AttemptFits, Opened
    <2>10. CASE GenerateMove(w, t)
      <3>1. attempts'[t] = attempts[t] /\ ~Delayed(t)' /\ status'[t] = status[t]
            /\ pc[w] \in Opened /\ pc'[w] \in Opened
        BY <2>3, <2>10 DEF GenerateMove, SameRows, Delayed, AfterGenerate, Opened
      <3>2. QED
        BY <2>2, <3>1, SameAttempts DEF AttemptFits
    <2>11. CASE RegisterMove(w, t)
      <3>1. attempts'[t] = attempts[t] /\ ~Delayed(t)' /\ status'[t] = status[t]
            /\ pc[w] \in Opened /\ pc'[w] \in Opened
        BY <2>3, <2>11 DEF RegisterMove, Delayed, Opened
      <3>2. QED
        BY <2>2, <3>1, SameAttempts DEF AttemptFits
    <2>12. CASE EnqueueMove(w, t)
      BY <2>2, <2>12, SameAttempts
         DEF EnqueueMove, SameRows, AttemptFits, Opened, Closing, Live
    <2>13. QED
      BY <2>5, <2>6, <2>7, <2>8, <2>9, <2>10, <2>11, <2>12, ProcessMove DEF AttemptMove
  <1>4. QED
    BY <1>2, <1>3

AttemptsHeld ==
    "store_error" \notin Faults /\ repairs = 0 => \A t \in Tasks : AttemptsFit(t)

LEMMA AttemptsHold == Spec => []AttemptsHeld
  <1>1. Init => AttemptsHeld
    <2> SUFFICES ASSUME Init, NEW t \in Tasks PROVE AttemptsFit(t)
      BY DEF AttemptsHeld
    <2>1. attempts[t] = <<>> /\ status[t] = "none" /\ \A w \in Workers : ~Live(w, t)
      BY DEF Init, NoJob, Live
    <2>2. QED
      BY <2>1 DEF AttemptsFit, Tried, Terminal
  <1>2. TypeInv /\ CopyHeld /\ NumbersHeld /\ AttemptsHeld /\ [Next]_vars => AttemptsHeld'
    <2> SUFFICES ASSUME TypeInv, CopyHeld, NumbersHeld, AttemptsHeld, [Next]_vars,
                        "store_error" \notin Faults, repairs' = 0, NEW t \in Tasks
                 PROVE  AttemptsFit(t)'
      BY DEF AttemptsHeld
    <2>1. CopyInv /\ NumbersFit(t) /\ AttemptsFit(t)
      BY RepairsStay DEF CopyHeld, NumbersHeld, AttemptsHeld
    <2>2. CASE Flow(t)
      BY <2>1, <2>2, FlowKeepsAttempts DEF CopyInv
    <2>3. CASE \E w \in Workers : ProcessTask(w) /\ job[w].task = t
      BY <2>1, <2>3, MoveKeepsAttempts DEF CopyInv
    <2>4. QED
      BY <2>1, <2>2, <2>3, StepFlows
  <1>3. QED
    BY <1>1, <1>2, TypeCorrect, CopyHolds, NumbersHold, PTL DEF Spec

\* As long as no operator requeues a task and no statement fails, a settled
\* task has no open attempt, only its last attempt can have delivered, and
\* every earlier one is marked for retry: through crashes, lost replies,
\* failing Redis commands and executions that outlive their lock.
THEOREM SettledHolds ==
    "store_error" \notin Faults => (Spec => [](repairs = 0 => SettledClosesAttempts))
  <1> SUFFICES ASSUME "store_error" \notin Faults
               PROVE  Spec => [](repairs = 0 => SettledClosesAttempts)
    OBVIOUS
  <1>1. TypeInv /\ AttemptsHeld => (repairs = 0 => SettledClosesAttempts)
    <2> SUFFICES ASSUME TypeInv, AttemptsHeld, repairs = 0, NEW t \in Tasks, status[t] \in Terminal,
                        NEW i \in DOMAIN attempts[t]
                 PROVE  /\ attempts[t][i].status # "running"
                        /\ attempts[t][i].status = "completed" => i = Len(attempts[t])
                        /\ attempts[t][i].retry <=> i < Len(attempts[t])
      BY DEF SettledClosesAttempts
    <2>1. Closed(t)
      BY DEF AttemptsHeld, AttemptsFit
    <2>2. /\ Len(attempts[t]) \in Nat /\ i \in 1..Len(attempts[t])
      BY DEF TypeInv, TypeOK, DbTypeOK
    <2>3. CASE i = Len(attempts[t])
      BY <2>1, <2>2, <2>3 DEF Closed
    <2>4. CASE i <= Len(attempts[t]) - 1
      BY <2>1, <2>2, <2>4 DEF Closed, Tried
    <2>5. QED
      BY <2>2, <2>3, <2>4
  <1>2. QED
    BY <1>1, TypeCorrect, AttemptsHold, PTL

-----------------------------------------------------------------------------
(***************************************************************************)
(* The lifecycle a caller relies on.  Without lost replies a handler or a  *)
(* worker that failed to pass the id on has not passed it on, so it may    *)
(* still mark the task; with the single copy it is the only one to do so.  *)
(***************************************************************************)
AtQueued == {"lock", "load", "number", "insert", "start", "retry_enqueue"}

\* The images a worker has counted are the images there are.
CountFits(w, t) ==
    IF pc[w] \in Delivering THEN
        /\ job[w].registered = Cardinality(assets[t])
        /\ \A a \in assets[t] : a[2] < job[w].slot
    ELSE job[w].registered = 0

LifeFits(w, t) ==
    /\ status[t] = IF pc[w] \in AtQueued THEN "queued" ELSE "running"
    /\ CountFits(w, t)
    /\ pc[w] \in (AtQueued \ {"start"}) \cup {"retry_attempt", "retry_status"} =>
         Len(attempts[t]) <= MaxRetries

\* A handler that has the id is alone with a task nobody has tried.
Fresh(c, t) ==
    /\ status[t] = "queued" /\ attempts[t] = <<>> /\ assets[t] = {}
    /\ ~InList(t) /\ ~Delayed(t) /\ \A w \in Workers : job[w].task # t
    /\ \A d \in Clients : client[d].task = t => d = c

\* So is a worker whose ZADD failed.
Stranded(w, t) ==
    /\ status[t] = "queued" /\ ~Pending(t)
    /\ \A v \in Workers : ~Live(v, t)
    /\ \A v \in Workers : job[v].task = t /\ pc[v] = "retry_mark" => v = w

LifeFit(t) ==
    /\ IsFiniteSet(assets[t])
    /\ InList(t) \/ Delayed(t) => status[t] = "queued" /\ Len(attempts[t]) <= MaxRetries
    /\ \A c \in Clients : client[c].task = t => Fresh(c, t)
    /\ \A w \in Workers : Live(w, t) => LifeFits(w, t)
    /\ \A w \in Workers : job[w].task = t /\ pc[w] = "retry_mark" => Stranded(w, t)

Rested == \A w \in Workers : pc[w] \in {"poll", "pop"} => job[w].registered = 0

LEMMA RestedHolds == Spec => []Rested
  <1>1. Init => Rested
    BY DEF Init, Rested, NoJob
  <1>2. TypeInv /\ Rested /\ [Next]_vars => Rested'
    <2> SUFFICES ASSUME TypeInv, Rested, [Next]_vars, NEW w \in Workers
                 PROVE  pc'[w] \in {"poll", "pop"} => job'[w].registered = 0
      BY DEF Rested
    <2> USE DEF Goto, BackToPoll
    <2>0. pc \in [Workers -> WorkerPc] /\ job \in [Workers -> Job]
      BY DEF TypeInv, TypeOK, WorkerTypeOK
    <2>1. ASSUME NEW v \in Workers, ProcessTask(v)
          PROVE  pc'[w] \in {"poll", "pop"} => job'[w].registered = 0
      <3>1. CASE w # v
        BY <2>1, <3>1, ProcessTaskStays DEF Rested
      <3>2. CASE w = v
        <4>1. TypeInv' /\ job'[w].task \in Tasks
          <5>1. job'[w].task = job[w].task /\ job[w].task \in Tasks
            BY <2>1, <3>2, ProcessTaskStays, WorkerTask DEF Processing
          <5>2. QED
            BY <5>1, NextKeepsTypeInv
        <4>2. QED
          BY <4>1 DEF TypeInv, TypeOK, WorkerTypeOK
      <3>3. QED
        BY <3>1, <3>2
    <2>2. ASSUME NEW v \in Workers, PromoteScheduled(v) \/ DequeueTimesOut(v)
          PROVE  pc'[w] \in {"poll", "pop"} => job'[w].registered = 0
      BY <2>0, <2>2 DEF PromoteScheduled, DequeueTimesOut, Rested
    <2>3. ASSUME NEW v \in Workers, Dequeue(v)
          PROVE  pc'[w] \in {"poll", "pop"} => job'[w].registered = 0
      BY <2>0, <2>3 DEF Dequeue, Rested, NoJob
    <2>4. ASSUME NEW v \in Workers, LockTask(v)
          PROVE  pc'[w] \in {"poll", "pop"} => job'[w].registered = 0
      BY <2>0, <2>4 DEF LockTask, Rested, NoJob
    <2>5. ASSUME NEW v \in Workers, SkipTask(v) \/ UnlockTask(v) \/ WorkerCrashes(v)
          PROVE  pc'[w] \in {"poll", "pop"} => job'[w].registered = 0
      BY <2>0, <2>5 DEF SkipTask, UnlockTask, WorkerCrashes, Rested, NoJob
    <2>6. CASE ~(\E v \in Workers : RunWorker(v) \/ WorkerCrashes(v))
      BY <2>6, ClientsAreQuiet DEF Rested
    <2>7. QED
      BY <2>1, <2>2, <2>3, <2>4, <2>5, <2>6 DEF RunWorker
  <1>3. QED
    BY <1>1, <1>2, TypeCorrect, PTL DEF Spec

LEMMA FlowKeepsLife ==
    ASSUME TypeInv, Rested, "lost_reply" \notin Faults, NEW t \in Tasks,
           OneCopy(t)', Unsent(t), LifeFit(t), Flow(t)
    PROVE  LifeFit(t)'
  <1>1. attempts'[t] = attempts[t] /\ assets'[t] = assets[t]
    BY DEF Flow
  <1>2. /\ InList(t)' => \/ InList(t) \/ Delayed(t)
                         \/ \E c \in Clients : client[c].task = t /\ client[c].pc # "mark"
                                               /\ client'[c] = Idle
        /\ Delayed(t)' => Delayed(t)
    BY DEF Flow, QueueFlow, Sends
  <1>3. \A w \in Workers : job'[w].task = t =>
          \/ pc'[w] = pc[w] /\ job'[w] = job[w]
          \/ pc[w] = "lock" /\ pc'[w] = "load" /\ job'[w] = job[w]
          \/ pc[w] = "pop" /\ pc'[w] = "lock" /\ InList(t) /\ job'[w] = [job[w] EXCEPT !.task = t]
    BY DEF Flow, WorkerFlow
  <1>4. Idle.task = NoTask /\ NoTask # t
    BY DEF Idle
  <1>5. ASSUME NEW c \in Clients, client[c].task = t
        PROVE  LifeFit(t)'
    <2>1. Fresh(c, t) /\ IsFiniteSet(assets[t])
      BY <1>5 DEF LifeFit
    <2>2. status[t] = "queued" /\ \A w \in Workers : job'[w].task # t
      BY <1>3, <2>1 DEF Fresh
    <2>3. \A d \in Clients : client'[d].task = t => d = c
      BY <2>1, <2>2 DEF Fresh, Flow, ClientFlow
    <2>4. ~Delayed(t)'
      BY <1>2, <2>1 DEF Fresh
    <2>5. CASE client'[c].task = t
      <3>1. ~InList(t)'
        BY <1>2, <1>4, <2>1, <2>5 DEF Fresh
      <3>2. status'[t] = status[t]
        BY <1>4, <2>1, <2>2, <2>5 DEF Flow, StatusFlow, Fresh
      <3>3. Fresh(c, t)'
        BY <1>1, <2>1, <2>2, <2>3, <2>4, <3>1, <3>2 DEF Fresh
      <3>4. QED
        BY <1>1, <2>1, <2>2, <2>3, <2>4, <3>1, <3>3 DEF LifeFit, Live
    <2>6. CASE client'[c].task # t
      <3>1. InList(t)' => status'[t] = "queued" /\ Len(attempts'[t]) <= MaxRetries
        <4>1. ASSUME InList(t)'
              PROVE  client[c].pc # "mark"
          BY <1>2, <2>1, <4>1 DEF Fresh
        <4>2. client[c].pc # "mark" => status'[t] = "queued"
          BY <2>1, <2>2 DEF Flow, StatusFlow, Fresh
        <4>3. Len(attempts'[t]) <= MaxRetries
          BY <1>1, <2>1 DEF Fresh
        <4>4. QED
          BY <4>1, <4>2, <4>3
      <3>2. \A d \in Clients : client'[d].task # t
        BY <2>3, <2>6
      <3>3. QED
        BY <1>1, <2>1, <2>2, <2>4, <3>1, <3>2 DEF LifeFit, Live
    <2>7. QED
      BY <2>5, <2>6
  <1>6. CASE (\A c \in Clients : client[c].task # t) /\ status[t] = "none"
    <2>1. /\ ~InList(t) /\ ~Delayed(t) /\ attempts[t] = <<>> /\ assets[t] = {}
          /\ \A w \in Workers : job[w].task # t
      BY <1>6 DEF Unsent
    <2>2. ~InList(t)' /\ ~Delayed(t)' /\ \A w \in Workers : job'[w].task # t
      BY <1>2, <1>3, <1>6, <2>1
    <2>3. ASSUME NEW c \in Clients, client'[c].task = t
          PROVE  Fresh(c, t)'
      <3>1. status'[t] = "queued" /\ \A d \in Clients : client'[d].task = t => client'[d].pc # "mark"
        BY <1>6, <2>3 DEF Flow, ClientFlow
      <3>2. \A d \in Clients : client'[d].task = t => d = c
        BY <2>3, <3>1 DEF OneCopy, Sends
      <3>3. QED
        BY <1>1, <2>1, <2>2, <3>1, <3>2 DEF Fresh
    <2>4. QED
      BY <1>1, <2>1, <2>2, <2>3 DEF LifeFit, Live
  <1>7. CASE (\A c \in Clients : client[c].task # t) /\ status[t] # "none"
    <2>1. status'[t] = status[t] /\ \A c \in Clients : client'[c].task # t
      BY <1>7 DEF Flow, StatusFlow, ClientFlow
    <2>2. (InList(t)' => InList(t) \/ Delayed(t)) /\ (Delayed(t)' => Delayed(t))
      BY <1>2, <1>7
    <2>3. ASSUME NEW w \in Workers, Live(w, t)'
          PROVE  LifeFits(w, t)'
      <3>1. CASE Live(w, t) /\ pc'[w] = pc[w] /\ job'[w] = job[w]
        BY <1>1, <2>1, <3>1 DEF LifeFit, LifeFits, CountFits
      <3>2. CASE Live(w, t) /\ pc[w] = "lock" /\ pc'[w] = "load" /\ job'[w] = job[w]
        BY <1>1, <2>1, <3>2 DEF LifeFit, LifeFits, CountFits, AtQueued, Delivering
      <3>3. CASE /\ InList(t) /\ pc[w] = "pop" /\ pc'[w] = "lock"
                 /\ job'[w] = [job[w] EXCEPT !.task = t]
        <4>1. job[w] \in Job /\ job[w].registered = 0
          BY <3>3 DEF Rested, TypeInv, TypeOK, WorkerTypeOK
        <4>2. job'[w].registered = 0
          BY <3>3, <4>1 DEF Job
        <4>3. QED
          BY <1>1, <2>1, <3>3, <4>2 DEF LifeFit, LifeFits, CountFits, AtQueued, Delivering
      <3>4. QED
        BY <2>3, <3>1, <3>2, <3>3, FlowLive
    <2>4. ASSUME NEW w \in Workers, job'[w].task = t, pc'[w] = "retry_mark"
          PROVE  Stranded(w, t)'
      <3>1. job[w].task = t /\ pc[w] = "retry_mark"
        BY <1>3, <2>4
      <3>2. Stranded(w, t)
        BY <3>1 DEF LifeFit
      <3>3. ~Pending(t)'
        BY <1>7, <3>2, FlowPending DEF Stranded
      <3>4. \A v \in Workers : ~Live(v, t)'
        BY <3>2, FlowLive DEF Stranded, Pending
      <3>5. \A v \in Workers : job'[v].task = t /\ pc'[v] = "retry_mark" =>
              job[v].task = t /\ pc[v] = "retry_mark"
        BY <1>3
      <3>6. QED
        BY <2>1, <3>2, <3>3, <3>4, <3>5 DEF Stranded
    <2>5. QED
      BY <1>1, <2>1, <2>2, <2>3, <2>4 DEF LifeFit
  <1>8. QED
    BY <1>5, <1>6, <1>7

\* The worker that has the copy of a task after its step.
LEMMA OwnLife ==
    ASSUME TypeInv, "lost_reply" \notin Faults, NEW w \in Workers, ProcessTask(w), NEW t \in Tasks,
           t = job[w].task, pc[w] # "retry_mark", Live(w, t), ~Pending(t),
           NumberFits(w, t), Delivered(t), LifeFits(w, t), IsFiniteSet(assets[t])
    PROVE  /\ IsFiniteSet(assets'[t])
           /\ Live(w, t)' => LifeFits(w, t)'
           /\ Delayed(t)' => /\ status'[t] = "queued" /\ Len(attempts'[t]) <= MaxRetries
                             /\ pc'[w] # "retry_mark"
           /\ pc'[w] = "retry_mark" => status'[t] = "queued"
  <1>1. job[w] \in Job /\ job'[w] \in Job /\ ~Delayed(t)
        /\ attempts[t] \in Seq(Attempt) /\ Len(attempts[t]) \in Nat
    BY OwnTask DEF Pending, TypeInv, TypeOK, DbTypeOK
  <1>2. pc[w] \notin Delivering => assets[t] = {} /\ Cardinality(assets[t]) = 0
    BY FS_EmptySet DEF Delivered
  <1>3. CASE SilentMove(w, t)
    BY <1>1, <1>3 DEF SilentMove, SameRows, Delayed, LifeFits, CountFits, AtQueued, Delivering, Live,
                      Terminal
  <1>4. CASE StatusMove(w, t)
    BY <1>1, <1>4 DEF StatusMove, Delayed, LifeFits, CountFits, AtQueued, Delivering, Live
  <1>5. CASE FinishMove(w, t)
    <2>1. Len(attempts'[t]) = Len(attempts[t])
      <3>1. ASSUME NEW s \in {"completed", "failed"}, NEW retry \in BOOLEAN,
                   Finished(t, job[w].row, s, retry)
            PROVE  Len(attempts'[t]) = Len(attempts[t])
        <4>1. job[w].row \in Nat
          BY <1>1 DEF Job
        <4>2. QED
          BY <3>1, <4>1, FinishedSeq
      <3>2. QED
        BY <1>5, <3>1, Zenon DEF FinishMove
    <2>2. QED
      BY <1>1, <1>5, <2>1 DEF FinishMove, Delayed, LifeFits, CountFits, AtQueued, Delivering
  <1>6. CASE AttemptMove(w, t)
    <2>1. job'[w].registered = job[w].registered
      BY <1>1, <1>6 DEF AttemptMove, Job
    <2>2. QED
      BY <1>1, <1>6, <2>1 DEF AttemptMove, Delayed, LifeFits, CountFits, AtQueued, Delivering
  <1>7. CASE GenerateMove(w, t)
    <2>1. PICK n \in 0..MaxFiles, err \in {"none", "retryable", "permanent"} :
            /\ job'[w] = [job[w] EXCEPT !.files = n, !.slot = 1, !.err = err]
            /\ pc'[w] = AfterGenerate(n, err, job[w].no)
      BY <1>7 DEF GenerateMove
    <2>2. job'[w].registered = job[w].registered
      BY <1>1, <2>1 DEF Job
    <2>3. /\ pc'[w] \in {"register", "close", "retry_attempt", "fail_attempt"}
          /\ pc'[w] = "retry_attempt" => job[w].no <= MaxRetries
      BY <2>1 DEF AfterGenerate
    <2>4. /\ attempts'[t] = attempts[t] /\ assets'[t] = assets[t] /\ status'[t] = status[t]
          /\ ~Delayed(t)' /\ pc[w] = "generate"
      BY <1>1, <1>7 DEF GenerateMove, SameRows, Delayed
    <2>5. job[w].no = Len(attempts[t]) /\ job[w].registered = 0 /\ assets[t] = {}
          /\ Cardinality(assets[t]) = 0 /\ status[t] = "running"
      BY <1>2, <2>4 DEF NumberFits, Attempting, LifeFits, CountFits, AtQueued, Delivering
    <2>6. LifeFits(w, t)'
      BY <2>2, <2>3, <2>4, <2>5 DEF LifeFits, CountFits, AtQueued, Delivering
    <2>7. QED
      BY <2>3, <2>4, <2>6
  <1>8. CASE RegisterMove(w, t)
    <2>1. /\ attempts'[t] = attempts[t] /\ status'[t] = status[t] /\ ~Delayed(t)'
          /\ pc[w] = "register" /\ pc'[w] \in {"register", "close"}
      BY <1>1, <1>8 DEF RegisterMove, Delayed
    <2>2. /\ job[w].registered = Cardinality(assets[t]) /\ \A a \in assets[t] : a[2] < job[w].slot
          /\ status[t] = "running" /\ job[w].slot \in Nat
      BY <1>1, <2>1 DEF LifeFits, CountFits, AtQueued, Delivering, Job
    <2>3. CASE /\ assets'[t] = assets[t] \cup {<<job[w].row, job[w].slot>>}
               /\ job'[w] = [job[w] EXCEPT !.slot = job[w].slot + 1,
                                           !.registered = job[w].registered + 1]
      <3> DEFINE new == <<job[w].row, job[w].slot>>
      <3>1. job'[w].slot = job[w].slot + 1 /\ job'[w].registered = job[w].registered + 1
        BY <1>1, <2>3 DEF Job
      <3>2. new \notin assets[t]
        BY <2>2
      <3>3. IsFiniteSet(assets'[t]) /\ Cardinality(assets'[t]) = Cardinality(assets[t]) + 1
        <4> HIDE DEF new
        <4>1. /\ IsFiniteSet(assets[t] \cup {new})
              /\ Cardinality(assets[t] \cup {new}) = Cardinality(assets[t]) + 1
          BY <3>2, FS_AddElement
        <4>2. assets'[t] = assets[t] \cup {new}
          BY <2>3 DEF new
        <4>3. QED
          BY <4>1, <4>2
      <3>4. \A a \in assets'[t] : a[2] < job'[w].slot
        <4>1. ASSUME NEW a \in assets[t] PROVE a[2] < job[w].slot + 1
          <5>1. a[2] \in Nat
            BY DEF TypeInv, TypeOK, DbTypeOK
          <5>2. QED
            BY <2>2, <5>1
        <4>2. new[2] < job[w].slot + 1
          BY <2>2
        <4>3. QED
          BY <2>3, <3>1, <4>1, <4>2
      <3>5. LifeFits(w, t)'
        BY <2>1, <2>2, <3>1, <3>3, <3>4 DEF LifeFits, CountFits, AtQueued, Delivering
      <3>6. QED
        BY <2>1, <3>3, <3>5
    <2>4. CASE /\ assets'[t] = assets[t]
               /\ job'[w] = [job[w] EXCEPT !.slot = job[w].slot + 1, !.err = "permanent"]
      <3>1. job'[w].slot = job[w].slot + 1 /\ job'[w].registered = job[w].registered
        BY <1>1, <2>4 DEF Job
      <3>2. \A a \in assets'[t] : a[2] < job'[w].slot
        <4>1. ASSUME NEW a \in assets[t] PROVE a[2] < job[w].slot + 1
          <5>1. a[2] \in Nat
            BY DEF TypeInv, TypeOK, DbTypeOK
          <5>2. QED
            BY <2>2, <5>1
        <4>2. QED
          BY <2>4, <3>1, <4>1
      <3>3. LifeFits(w, t)'
        BY <2>1, <2>2, <2>4, <3>1, <3>2 DEF LifeFits, CountFits, AtQueued, Delivering
      <3>4. QED
        BY <2>1, <2>4, <3>3
    <2>5. QED
      BY <1>8, <2>3, <2>4 DEF RegisterMove
  <1>9. CASE EnqueueMove(w, t)
    BY <1>1, <1>9 DEF EnqueueMove, SameRows, LifeFits, AtQueued, Live
  <1>10. QED
    BY <1>3, <1>4, <1>5, <1>6, <1>7, <1>8, <1>9, ProcessMove

LEMMA MoveKeepsLife ==
    ASSUME TypeInv, "lost_reply" \notin Faults, NEW w \in Workers, ProcessTask(w), NEW t \in Tasks,
           t = job[w].task, OneCopy(t), Unsent(t), Delivered(t), NumbersFit(t), LifeFit(t)
    PROVE  LifeFit(t)'
  <1>1. \A c \in Clients : client[c].task # t /\ client'[c].task # t
    BY OwnTask DEF LifeFit, Fresh
  <1>2. \A v \in Workers \ {w} : Live(v, t)' = Live(v, t) /\ pc'[v] = pc[v] /\ job'[v] = job[v]
    BY Acting
  <1>3. CASE pc[w] = "retry_mark"
    <2>1. Stranded(w, t) /\ ~Live(w, t)' /\ Pending(t)' = Pending(t) /\ assets'[t] = assets[t]
      BY <1>3, Acting DEF LifeFit
    <2>2. ~Pending(t)' /\ (\A v \in Workers : ~Live(v, t)')
      BY <1>2, <2>1 DEF Stranded
    <2>3. pc'[w] # "retry_mark"
      BY <1>3, OwnTask DEF CopyMoves
    <2>4. \A v \in Workers : ~(job'[v].task = t /\ pc'[v] = "retry_mark")
      BY <1>2, <2>1, <2>3 DEF Stranded
    <2>5. QED
      BY <1>1, <2>1, <2>2, <2>4 DEF LifeFit, Pending
  <1>4. CASE pc[w] # "retry_mark"
    <2>1. /\ Live(w, t) /\ ~Pending(t) /\ (Pending(t)' => Delayed(t)')
          /\ \A v \in Workers : Live(v, t)' => v = w
      BY <1>4, Acting
    <2>2. /\ IsFiniteSet(assets'[t])
          /\ Live(w, t)' => LifeFits(w, t)'
          /\ Delayed(t)' => /\ status'[t] = "queued" /\ Len(attempts'[t]) <= MaxRetries
                            /\ pc'[w] # "retry_mark"
          /\ pc'[w] = "retry_mark" => status'[t] = "queued"
      BY <1>4, <2>1, OwnLife DEF LifeFit, NumbersFit
    <2>3. \A v \in Workers \ {w} : ~(job'[v].task = t /\ pc'[v] = "retry_mark")
      BY <1>2, <2>1 DEF LifeFit, Stranded
    <2>4. job'[w].task = t /\ pc'[w] = "retry_mark" => Stranded(w, t)'
      BY <2>1, <2>2, <2>3 DEF Stranded, Live
    <2>5. InList(t)' => FALSE
      BY <2>1, OwnTask DEF Pending
    <2>6. QED
      BY <1>1, <2>1, <2>2, <2>3, <2>4, <2>5 DEF LifeFit
  <1>5. QED
    BY <1>3, <1>4

LifeHeld == "lost_reply" \notin Faults /\ repairs = 0 => \A t \in Tasks : LifeFit(t)

LEMMA LifeHolds == Spec => []LifeHeld
  <1>1. Init => LifeHeld
    <2> SUFFICES ASSUME Init, NEW t \in Tasks PROVE LifeFit(t)
      BY DEF LifeHeld
    <2>1. ~InList(t) /\ ~Delayed(t) /\ assets[t] = {}
      BY DEF Init, InList, In, Delayed
    <2>2. /\ \A w \in Workers : job[w].task # t
          /\ \A c \in Clients : client[c].task # t
      BY DEF Init, NoJob, Idle
    <2>3. QED
      BY <2>1, <2>2, FS_EmptySet DEF LifeFit, Live
  <1>2. TypeInv /\ Rested /\ CopyHeld /\ CopyHeld' /\ NumbersHeld /\ LifeHeld /\ [Next]_vars => LifeHeld'
    <2> SUFFICES ASSUME TypeInv, Rested, CopyHeld, CopyHeld', NumbersHeld, LifeHeld, [Next]_vars,
                        "lost_reply" \notin Faults, repairs' = 0, NEW t \in Tasks
                 PROVE  LifeFit(t)'
      BY DEF LifeHeld
    <2>1. CopyInv /\ CopyInv' /\ NumbersFit(t) /\ LifeFit(t)
      BY RepairsStay DEF CopyHeld, NumbersHeld, LifeHeld
    <2>2. OneCopy(t) /\ OneCopy(t)' /\ Unsent(t) /\ Delivered(t)
      BY <2>1 DEF CopyInv
    <2>3. CASE Flow(t)
      BY <2>1, <2>2, <2>3, FlowKeepsLife
    <2>4. CASE \E w \in Workers : ProcessTask(w) /\ job[w].task = t
      BY <2>1, <2>2, <2>4, MoveKeepsLife
    <2>5. QED
      BY <2>1, <2>3, <2>4, StepFlows
  <1>3. QED
    BY <1>1, <1>2, TypeCorrect, RestedHolds, CopyHolds, NumbersHold, PTL DEF Spec

-----------------------------------------------------------------------------
(* The refinement: what a step does to the state a caller sees.             *)
tries  == [t \in Tasks |-> Len(attempts[t])]
images == [t \in Tasks |-> Cardinality(assets[t])]

LEMMA OnlyThisTask ==
    ASSUME TypeInv, TypeInv', NEW t \in Tasks,
           \A u \in Tasks \ {t} :
               status'[u] = status[u] /\ attempts'[u] = attempts[u] /\ assets'[u] = assets[u]
    PROVE  /\ status' = [status EXCEPT ![t] = status'[t]]
           /\ tries' = [tries EXCEPT ![t] = Len(attempts'[t])]
           /\ images' = [images EXCEPT ![t] = Cardinality(assets'[t])]
  <1>1. status \in [Tasks -> TaskStatus] /\ status' \in [Tasks -> TaskStatus]
    BY DEF TypeInv, TypeOK, DbTypeOK
  <1>2. status' = [status EXCEPT ![t] = status'[t]]
    BY <1>1
  <1>3. tries' = [tries EXCEPT ![t] = Len(attempts'[t])]
    BY DEF tries
  <1>4. images' = [images EXCEPT ![t] = Cardinality(assets'[t])]
    BY DEF images
  <1>5. QED
    BY <1>2, <1>3, <1>4

LEMMA MoveImplemented ==
    ASSUME TypeInv, TypeInv', NEW t \in Tasks, NEW from, NEW to,
           \A u \in Tasks \ {t} :
               status'[u] = status[u] /\ attempts'[u] = attempts[u] /\ assets'[u] = assets[u],
           Len(attempts'[t]) = Len(attempts[t]), assets'[t] = assets[t],
           status[t] = from, status'[t] = to
    PROVE  Lifecycle!Move(t, from, to)
  <1>1. /\ status' = [status EXCEPT ![t] = status'[t]]
        /\ tries' = [tries EXCEPT ![t] = Len(attempts'[t])]
        /\ images' = [images EXCEPT ![t] = Cardinality(assets'[t])]
    BY OnlyThisTask
  <1>2. tries' = tries /\ images' = images
    BY <1>1 DEF tries, images
  <1>3. QED
    BY <1>1, <1>2 DEF Lifecycle!Move, tries, images

\* A step of ProcessTask that changes nothing a caller sees.
LEMMA StutterImplemented ==
    ASSUME TypeInv, TypeInv', NEW t \in Tasks,
           \A u \in Tasks \ {t} :
               status'[u] = status[u] /\ attempts'[u] = attempts[u] /\ assets'[u] = assets[u],
           Len(attempts'[t]) = Len(attempts[t]), assets'[t] = assets[t], status'[t] = status[t]
    PROVE  UNCHANGED Lifecycle!vars
  <1>1. /\ status' = [status EXCEPT ![t] = status'[t]]
        /\ tries' = [tries EXCEPT ![t] = Len(attempts'[t])]
        /\ images' = [images EXCEPT ![t] = Cardinality(assets'[t])]
    BY OnlyThisTask
  <1>2. status' = status
    BY <1>1 DEF TypeInv, TypeOK, DbTypeOK
  <1>3. tries' = tries /\ images' = images
    BY <1>1 DEF tries, images
  <1>4. QED
    BY <1>2, <1>3 DEF Lifecycle!vars, tries, images

LEMMA ProcessImplemented ==
    ASSUME TypeInv, TypeInv', "lost_reply" \notin Faults, NEW w \in Workers, ProcessTask(w),
           NEW t \in Tasks, t = job[w].task,
           OneCopy(t), Unsent(t), Delivered(t), NumbersFit(t), LifeFit(t)
    PROVE  [Lifecycle!Next]_Lifecycle!vars
  <1>1. /\ \A u \in Tasks \ {t} :
             status'[u] = status[u] /\ attempts'[u] = attempts[u] /\ assets'[u] = assets[u]
        /\ job[w] \in Job /\ attempts[t] \in Seq(Attempt) /\ Len(attempts[t]) \in Nat
    BY ProcessFrame, OwnTask DEF TypeInv, TypeOK, DbTypeOK
  <1>2. /\ status' = [status EXCEPT ![t] = status'[t]]
        /\ tries' = [tries EXCEPT ![t] = Len(attempts'[t])]
        /\ images' = [images EXCEPT ![t] = Cardinality(assets'[t])]
    BY <1>1, OnlyThisTask
  <1>3. ASSUME NEW from, NEW to, status[t] = from, status'[t] = to,
               attempts'[t] = attempts[t], assets'[t] = assets[t]
        PROVE  Lifecycle!Move(t, from, to)
    BY <1>1, <1>3, MoveImplemented
  <1>4. ASSUME Len(attempts'[t]) = Len(attempts[t]), assets'[t] = assets[t], status'[t] = status[t]
        PROVE  UNCHANGED Lifecycle!vars
    BY <1>1, <1>4, StutterImplemented
  <1>5. CASE pc[w] = "retry_mark"
    <2>1. /\ attempts'[t] = attempts[t] /\ assets'[t] = assets[t]
          /\ \/ status'[t] = "enqueue_failed"
             \/ status'[t] = status[t]
      BY <1>5, Acting
    <2>2. status[t] = "queued"
      BY <1>5 DEF LifeFit, Stranded
    <2>3. CASE status'[t] = "enqueue_failed"
      <3>1. Lifecycle!Reject(t)
        BY <1>3, <2>1, <2>2, <2>3 DEF Lifecycle!Reject
      <3>2. QED
        BY <3>1 DEF Lifecycle!Next
    <2>4. CASE status'[t] = status[t]
      BY <1>4, <2>1, <2>4
    <2>5. QED
      BY <2>1, <2>3, <2>4
  <1>6. CASE pc[w] # "retry_mark"
    <2>1. Live(w, t) /\ LifeFits(w, t) /\ NumberFits(w, t)
      BY <1>6, OwnTask DEF LifeFit, NumbersFit
    <2>2. CASE SilentMove(w, t) \/ GenerateMove(w, t) \/ EnqueueMove(w, t)
      BY <1>4, <2>2 DEF SilentMove, GenerateMove, EnqueueMove, SameRows
    <2>3. CASE FinishMove(w, t)
      <3>1. Len(attempts'[t]) = Len(attempts[t])
        <4>1. ASSUME NEW s \in {"completed", "failed"}, NEW retry \in BOOLEAN,
                     Finished(t, job[w].row, s, retry)
              PROVE  Len(attempts'[t]) = Len(attempts[t])
          <5>1. job[w].row \in Nat
            BY <1>1 DEF Job
          <5>2. QED
            BY <4>1, <5>1, FinishedSeq
        <4>2. QED
          BY <2>3, <4>1, Zenon DEF FinishMove
      <3>2. QED
        BY <1>4, <2>3, <3>1 DEF FinishMove
    <2>4. CASE AttemptMove(w, t) /\ pc[w] = "number"
      BY <1>4, <2>4 DEF AttemptMove
    <2>5. CASE AttemptMove(w, t) /\ pc[w] = "insert"
      <3>1. status'[t] = status[t] /\ assets'[t] = assets[t] /\ Len(attempts'[t]) = Len(attempts[t]) + 1
        BY <1>1, <2>5 DEF AttemptMove
      <3>2. status[t] = "queued" /\ Len(attempts[t]) <= MaxRetries
        BY <2>1, <2>5 DEF LifeFits, AtQueued
      <3>3. status' = status
        BY <1>2, <3>1 DEF TypeInv, TypeOK, DbTypeOK
      <3>4. images' = images
        BY <1>2, <3>1 DEF images
      <3>5. tries[t] = Len(attempts[t]) /\ tries' = [tries EXCEPT ![t] = tries[t] + 1]
        BY <1>2, <3>1 DEF tries
      <3>6. Lifecycle!Try(t)
        BY <3>2, <3>3, <3>4, <3>5 DEF Lifecycle!Try, tries, images
      <3>7. QED
        BY <3>6 DEF Lifecycle!Next
    <2>6. CASE RegisterMove(w, t)
      <3>1. status'[t] = status[t] /\ attempts'[t] = attempts[t] /\ pc[w] = "register"
        BY <2>6 DEF RegisterMove
      <3>2. status[t] = "running" /\ \A a \in assets[t] : a[2] < job[w].slot
        BY <2>1, <3>1 DEF LifeFits, CountFits, AtQueued, Delivering
      <3>3. CASE assets'[t] = assets[t]
        BY <1>4, <3>1, <3>3
      <3>4. CASE assets'[t] = assets[t] \cup {<<job[w].row, job[w].slot>>}
        <4> DEFINE new == <<job[w].row, job[w].slot>>
        <4>1. new \notin assets[t]
          BY <1>1, <3>2 DEF Job
        <4> HIDE DEF new
        <4>2. Cardinality(assets[t] \cup {new}) = Cardinality(assets[t]) + 1
          BY <4>1, FS_AddElement DEF LifeFit
        <4>3. Cardinality(assets'[t]) = Cardinality(assets[t]) + 1
          BY <3>4, <4>2 DEF new
        <4>4. status' = status
          BY <1>2, <3>1 DEF TypeInv, TypeOK, DbTypeOK
        <4>5. tries' = tries
          BY <1>2, <3>1 DEF tries
        <4>6. images[t] = Cardinality(assets[t]) /\ images' = [images EXCEPT ![t] = images[t] + 1]
          BY <1>2, <4>3 DEF images
        <4>7. Lifecycle!Deliver(t)
          BY <3>2, <4>4, <4>5, <4>6 DEF Lifecycle!Deliver, tries, images
        <4>8. QED
          BY <4>7 DEF Lifecycle!Next
      <3>5. QED
        BY <2>6, <3>3, <3>4 DEF RegisterMove
    <2>7. CASE StatusMove(w, t)
      <3>1. attempts'[t] = attempts[t] /\ assets'[t] = assets[t]
        BY <2>7 DEF StatusMove
      <3>2. CASE pc[w] = "start" /\ status'[t] = "running"
        <4>1. Lifecycle!Move(t, "queued", "running") /\ Len(attempts[t]) > 0
          BY <1>1, <1>3, <2>1, <3>1, <3>2 DEF LifeFits, AtQueued, NumberFits, Attempting
        <4>2. Lifecycle!Begin(t)
          BY <4>1 DEF Lifecycle!Begin
        <4>3. QED
          BY <4>2 DEF Lifecycle!Next
      <3>3. CASE pc[w] = "retry_status" /\ status'[t] = "queued"
        <4>1. Lifecycle!Move(t, "running", "queued") /\ Len(attempts[t]) <= MaxRetries
          BY <1>3, <2>1, <3>1, <3>3 DEF LifeFits, AtQueued
        <4>2. Cardinality(assets[t]) = 0
          BY <2>1, <3>3, FS_EmptySet DEF Delivered, Delivering
        <4>3. Lifecycle!Retry(t)
          BY <4>1, <4>2 DEF Lifecycle!Retry
        <4>4. QED
          BY <4>3 DEF Lifecycle!Next
      <3>4. CASE pc[w] = "fail_task" /\ status'[t] = "failed"
        <4>1. Lifecycle!Move(t, "running", "failed")
          BY <1>3, <2>1, <3>1, <3>4 DEF LifeFits, AtQueued
        <4>2. Cardinality(assets[t]) = 0
          BY <2>1, <3>4, FS_EmptySet DEF Delivered, Delivering
        <4>3. Lifecycle!Settle(t)
          BY <4>1, <4>2 DEF Lifecycle!Settle
        <4>4. QED
          BY <4>3 DEF Lifecycle!Next
      <3>5. CASE pc[w] = "conclude" /\ status'[t] = JobOutcome(w)
        <4>0. Requested[t] \in 1..10
          OBVIOUS
        <4>1. /\ status[t] = "running" /\ job[w].registered = Cardinality(assets[t])
              /\ job[w].registered \in Nat /\ Requested[t] \in Nat
          <5>1. status[t] = "running" /\ job[w].registered = Cardinality(assets[t])
            BY <2>1, <3>5 DEF LifeFits, CountFits, AtQueued, Delivering
          <5>2. job[w].registered \in Nat
            BY <1>1 DEF Job
          <5>3. QED
            BY <4>0, <5>1, <5>2
        <4>2. \/ status'[t] = "failed" /\ Cardinality(assets[t]) = 0
              \/ status'[t] = "partially_completed" /\ Cardinality(assets[t]) > 0
              \/ status'[t] = "completed" /\ Cardinality(assets[t]) >= Requested[t]
          BY <3>5, <4>1 DEF JobOutcome, Outcome
        <4>3. Lifecycle!Move(t, "running", status'[t])
          BY <1>3, <3>1, <4>1
        <4>4. Lifecycle!Settle(t)
          BY <4>2, <4>3 DEF Lifecycle!Settle
        <4>5. QED
          BY <4>4 DEF Lifecycle!Next
      <3>6. QED
        BY <1>6, <2>7, <3>2, <3>3, <3>4, <3>5 DEF StatusMove
    <2>8. QED
      BY <2>2, <2>3, <2>4, <2>5, <2>6, <2>7, ProcessMove DEF AttemptMove
  <1>7. QED
    BY <1>5, <1>6

\* Of the other steps only a submission and the mark of a handler show.
LEMMA FlowImplemented ==
    ASSUME TypeInv, TypeInv', "lost_reply" \notin Faults, CopyInv, [Next]_vars, repairs' = 0,
           ~(\E w \in Workers : ProcessTask(w)), \A t \in Tasks : LifeFit(t)
    PROVE  [Lifecycle!Next]_Lifecycle!vars
  <1>1. attempts' = attempts /\ assets' = assets
    <2>1. \A t \in Tasks : Flow(t)
      BY StepFlows
    <2>2. \A t \in Tasks : attempts'[t] = attempts[t] /\ assets'[t] = assets[t]
      BY <2>1 DEF Flow
    <2>3. QED
      BY <2>2 DEF TypeInv, TypeOK, DbTypeOK
  <1>2. ASSUME NEW c \in Clients, NEW t \in Tasks, InsertTask(c, t)
        PROVE  [Lifecycle!Next]_Lifecycle!vars
    <2>1. status[t] = "none" /\ status' = [status EXCEPT ![t] = "queued"]
      BY <1>2 DEF InsertTask, UpdateTaskStatus
    <2>2. Lifecycle!Submit(t)
      BY <1>1, <2>1 DEF Lifecycle!Submit, Lifecycle!Move
    <2>3. QED
      BY <2>2 DEF Lifecycle!Next
  <1>3. ASSUME NEW c \in Clients, MarkTaskEnqueueFailed(c)
        PROVE  [Lifecycle!Next]_Lifecycle!vars
    <2>1. client[c].task \in Tasks
      BY <1>3, ClientTask DEF MarkTaskEnqueueFailed
    <2>2. status[client[c].task] = "queued"
      BY <2>1 DEF LifeFit, Fresh
    <2>3. status' = [status EXCEPT ![client[c].task] = "enqueue_failed"]
      BY <1>3 DEF MarkTaskEnqueueFailed, UpdateTaskStatus
    <2>4. Lifecycle!Reject(client[c].task)
      BY <1>1, <2>2, <2>3 DEF Lifecycle!Reject, Lifecycle!Move
    <2>5. QED
      BY <2>1, <2>4 DEF Lifecycle!Next
  <1>4. ASSUME status' = status
        PROVE  [Lifecycle!Next]_Lifecycle!vars
    BY <1>1, <1>4 DEF Lifecycle!vars
  <1>5. \A c \in Clients : ~RepairReset(c) /\ \A t \in Tasks : ~RepairLoad(c, t)
    BY RepairsStay DEF CopyInv, RepairReset
  <1>6. CASE \E c \in Clients : (FinishRequest(c) \/ ClientStops(c)) /\ ~MarkTaskEnqueueFailed(c)
    BY <1>4, <1>5, <1>6 DEF FinishRequest, Enqueue, EnqueueFails, ClientStops, dbVars
  <1>7. CASE \E t \in Tasks : BecomeDue(t) \/ ExpireLock(t)
    BY <1>4, <1>7 DEF BecomeDue, ExpireLock, dbVars
  <1>8. CASE \E w \in Workers : RunWorker(w) \/ WorkerCrashes(w)
    BY <1>4, <1>8 DEF RunWorker, PromoteScheduled, Dequeue, DequeueTimesOut, LockTask, SkipTask,
                      UnlockTask, WorkerCrashes, dbVars
  <1>9. CASE UNCHANGED vars
    BY <1>4, <1>9 DEF vars, dbVars
  <1>10. QED
    BY <1>2, <1>3, <1>5, <1>6, <1>7, <1>8, <1>9 DEF Next

\* Only the load of a repair counts one: no other statement of a handler or of
\* a worker, and nothing that time does, touches the counter.
LEMMA RepairsCounted ==
    ASSUME TypeInv, [Next]_vars
    PROVE  repairs' = repairs \/ \E c \in Clients, t \in Tasks : RepairLoad(c, t)
  <1>1. \A w \in Workers : RunWorker(w) \/ WorkerCrashes(w) => repairs' = repairs
    BY ProcessFrame DEF RunWorker, PromoteScheduled, Dequeue, DequeueTimesOut, LockTask,
                        SkipTask, UnlockTask, WorkerCrashes
  <1>2. \A c \in Clients : FinishRequest(c) \/ ClientStops(c) => repairs' = repairs
    BY DEF FinishRequest, RepairReset, Enqueue, EnqueueFails, MarkTaskEnqueueFailed, ClientStops
  <1>3. \A t \in Tasks : /\ BecomeDue(t) \/ ExpireLock(t) => repairs' = repairs
                        /\ \A c \in Clients : InsertTask(c, t) => repairs' = repairs
    BY DEF BecomeDue, ExpireLock, InsertTask
  <1>4. QED
    BY <1>1, <1>2, <1>3 DEF Next, vars

\* With MaxRepairs = 0 no operator requeues anything.
LEMMA NoRepair == Spec => [](MaxRepairs = 0 => repairs = 0)
  <1> DEFINE Unused == MaxRepairs = 0 => repairs = 0
  <1>1. Init => Unused
    BY DEF Init
  <1>2. ASSUME TypeInv, Unused, [Next]_vars PROVE Unused'
    <2>1. ASSUME NEW c \in Clients, NEW t \in Tasks, RepairLoad(c, t), MaxRepairs = 0
          PROVE  FALSE
      BY <1>2, <2>1 DEF RepairLoad
    <2> QED
      BY <1>2, <2>1, RepairsCounted
  <1> HIDE DEF Unused
  <1>3. Spec => []Unused
    BY <1>1, <1>2, TypeCorrect, PTL DEF Spec
  <1>4. QED
    BY <1>3 DEF Unused

\* Without repair and lost replies the pipeline implements the lifecycle of
\* TaskLifecycle, for every number of tasks, workers, handlers, images and
\* retries, through crashes, failing Redis commands and statements, early
\* retries and executions that outlive their lock: a task is tried at most
\* 1 + MaxRetries times, goes back to the queue only while it has no image,
\* and settles at most once, with a status that agrees with its images.
THEOREM LifecycleHolds ==
    "lost_reply" \notin Faults /\ MaxRepairs = 0 => (Spec => ImplementsLifecycle)
  <1> SUFFICES ASSUME "lost_reply" \notin Faults, MaxRepairs = 0
               PROVE  Spec => ImplementsLifecycle
    OBVIOUS
  <1>1. Init => Lifecycle!Init
    <2> SUFFICES ASSUME Init PROVE Lifecycle!Init
      OBVIOUS
    <2>1. [t \in Tasks |-> Len(attempts[t])] = [t \in Tasks |-> 0]
      BY DEF Init
    <2>2. [t \in Tasks |-> Cardinality(assets[t])] = [t \in Tasks |-> 0]
      BY FS_EmptySet DEF Init
    <2>3. QED
      BY <2>1, <2>2 DEF Init, Lifecycle!Init
  <1>2. /\ TypeInv /\ TypeInv' /\ CopyHeld /\ NumbersHeld /\ LifeHeld /\ [Next]_vars
        /\ (MaxRepairs = 0 => repairs = 0) /\ (MaxRepairs = 0 => repairs = 0)'
        => [Lifecycle!Next]_Lifecycle!vars
    <2> SUFFICES ASSUME TypeInv, TypeInv', CopyHeld, NumbersHeld, LifeHeld, [Next]_vars,
                        repairs = 0, repairs' = 0
                 PROVE  [Lifecycle!Next]_Lifecycle!vars
      OBVIOUS
    <2>1. CopyInv /\ \A t \in Tasks : LifeFit(t) /\ NumbersFit(t)
      BY DEF CopyHeld, NumbersHeld, LifeHeld
    <2>2. ASSUME NEW w \in Workers, ProcessTask(w)
          PROVE  [Lifecycle!Next]_Lifecycle!vars
      <3>1. job[w].task \in Tasks
        BY <2>2, ProcessTaskStays, WorkerTask DEF Processing
      <3>2. PICK t \in Tasks : t = job[w].task
        BY <3>1
      <3>3. QED
        BY <2>1, <2>2, <3>2, ProcessImplemented DEF CopyInv
    <2>3. QED
      BY <2>1, <2>2, FlowImplemented
  <1>3. QED
    BY <1>1, <1>2, TypeCorrect, CopyHolds, NumbersHold, LifeHolds, NoRepair, PTL
       DEF Spec, ImplementsLifecycle, Lifecycle!Spec

-----------------------------------------------------------------------------
(***************************************************************************)
(* Nothing is forgotten, as long as nothing fails: an execution may even   *)
(* outlive its lock, because the copy it works on is the only one.  What   *)
(* could lose a task without any fault is SkipTask, which drops the id of  *)
(* a locked task; the invariant shows that no other worker has the lock.   *)
(***************************************************************************)
Benign == Faults \subseteq {"overrun"}

HasCopy(t) == Pending(t) \/ \E w \in Workers : Live(w, t)

\* The worker that still has to unlock a task is the last to know of it, but
\* for a retry that is not due.
Left(w, t) ==
    /\ ~InList(t) /\ scheduled[t] # "due"
    /\ \A v \in Workers : ~Live(v, t)
    /\ \A c \in Clients : ~Sends(c, t)

Kept(t) ==
    /\ status[t] \in {"queued", "running"} => HasCopy(t)
    /\ lock[t] # NoWorker => Holds(lock[t], t)
    /\ \A w \in Workers : job[w].task = t /\ pc[w] = "unlock" => Left(w, t)

Unmarked == /\ \A w \in Workers : pc[w] # "retry_mark"
            /\ \A c \in Clients : client[c].pc # "mark"

KeptInv == Unmarked /\ \A t \in Tasks : Kept(t)

LEMMA InsertKeepsKept ==
    ASSUME TypeInv, CopyInv, KeptInv, NEW c \in Clients, NEW u \in Tasks, InsertTask(c, u)
    PROVE  KeptInv'
  <1> USE DEF redisVars, workerVars
  <1>1. /\ list' = list /\ scheduled' = scheduled /\ lock' = lock /\ pc' = pc /\ job' = job
        /\ status[u] = "none" /\ client[c].pc = "idle"
    BY DEF InsertTask
  <1>2. /\ client'[c] = [pc |-> "enqueue", task |-> u]
        /\ \A d \in Clients \ {c} : client'[d] = client[d]
        /\ status'[u] = "queued" /\ \A t \in Tasks \ {u} : status'[t] = status[t]
    BY DEF InsertTask, UpdateTaskStatus, TypeInv, TypeOK, ClientTypeOK, DbTypeOK
  <1>3. client[c].task = NoTask /\ NoTask \notin Tasks
    BY <1>1 DEF TypeInv, TypeOK, ClientTypeOK
  <1>4. Unmarked'
    BY <1>1, <1>2 DEF KeptInv, Unmarked
  <1>5. ASSUME NEW t \in Tasks
        PROVE  Kept(t)'
    <2>1. /\ InList(t)' = InList(t) /\ Delayed(t)' = Delayed(t)
          /\ \A w \in Workers : Live(w, t)' = Live(w, t)
          /\ \A d \in Clients : d # c => Sends(d, t)' = Sends(d, t)
          /\ (lock[t] # NoWorker => Holds(lock[t], t))' = (lock[t] # NoWorker => Holds(lock[t], t))
      BY <1>1, <1>2 DEF InList, Delayed, Live, Sends, Holds
    <2>2. Sends(c, t)' <=> t = u
      BY <1>2 DEF Sends
    <2>3. status'[t] \in {"queued", "running"} => HasCopy(t)'
      <3>1. CASE t = u
        BY <2>2, <3>1 DEF HasCopy, Pending
      <3>2. CASE t # u
        BY <1>2, <1>3, <2>1, <2>2, <3>2 DEF KeptInv, Kept, HasCopy, Pending, Sends
      <3>3. QED
        BY <3>1, <3>2
    <2>4. ASSUME NEW w \in Workers, job'[w].task = t, pc'[w] = "unlock"
          PROVE  Left(w, t)'
      <3>1. Left(w, t) /\ t # u
        BY <1>1, <2>4 DEF KeptInv, Kept, CopyInv, Unsent
      <3>2. QED
        BY <1>1, <2>1, <2>2, <3>1 DEF Left
    <2>5. QED
      BY <2>1, <2>3, <2>4 DEF KeptInv, Kept
  <1>6. QED
    BY <1>4, <1>5 DEF KeptInv

LEMMA EnqueueKeepsKept ==
    ASSUME TypeInv, CopyInv, KeptInv, NEW c \in Clients, Enqueue(c)
    PROVE  KeptInv'
  <1> USE DEF dbVars, workerVars
  <1>1. /\ status' = status /\ scheduled' = scheduled /\ lock' = lock /\ pc' = pc /\ job' = job
        /\ list' = Append(list, client[c].task) /\ client[c].pc = "enqueue"
        /\ client[c].task \in Tasks /\ list \in Seq(Tasks)
    BY ClientTask DEF Enqueue, Push, TypeInv, TypeOK, RedisTypeOK
  <1>2. client'[c] = Idle /\ \A d \in Clients \ {c} : client'[d] = client[d]
    BY DEF Enqueue, TypeInv, TypeOK, ClientTypeOK
  <1>3. Unmarked'
    BY <1>1, <1>2 DEF KeptInv, Unmarked, Idle
  <1>4. ASSUME NEW t \in Tasks
        PROVE  Kept(t)'
    <2>1. In(list', t) <=> In(list, t) \/ t = client[c].task
      BY <1>1, Pushed
    <2>2. /\ InList(t)' <=> InList(t) \/ t = client[c].task
          /\ Delayed(t)' = Delayed(t) /\ \A w \in Workers : Live(w, t)' = Live(w, t)
          /\ \A d \in Clients : d # c => Sends(d, t)' = Sends(d, t)
          /\ (lock[t] # NoWorker => Holds(lock[t], t))' = (lock[t] # NoWorker => Holds(lock[t], t))
      BY <1>1, <1>2, <2>1 DEF InList, In, Delayed, Live, Sends, Holds
    <2>3. (Sends(c, t) <=> t = client[c].task) /\ ~Sends(c, t)'
      BY <1>1, <1>2 DEF Sends, Idle
    <2>4. HasCopy(t) => HasCopy(t)'
      BY <2>2, <2>3 DEF HasCopy, Pending
    <2>5. ASSUME NEW w \in Workers, job'[w].task = t, pc'[w] = "unlock"
          PROVE  Left(w, t)'
      <3>1. Left(w, t)
        BY <1>1, <2>5 DEF KeptInv, Kept
      <3>2. QED
        BY <1>1, <2>2, <2>3, <3>1 DEF Left
    <2>6. QED
      BY <1>1, <2>2, <2>4, <2>5 DEF KeptInv, Kept
  <1>5. QED
    BY <1>3, <1>4 DEF KeptInv

LEMMA RedisKeepsKept ==
    ASSUME TypeInv, Benign, KeptInv, NEW u \in Tasks, BecomeDue(u) \/ ExpireLock(u)
    PROVE  KeptInv'
  <1>1. /\ status' = status /\ list' = list /\ pc' = pc /\ job' = job /\ client' = client
    BY DEF BecomeDue, ExpireLock, dbVars, workerVars
  <1>2. /\ \A t \in Tasks : Delayed(t)' = Delayed(t)
        /\ \A t \in Tasks : \/ scheduled'[t] = scheduled[t]
                            \/ \A w \in Workers : ~(Holds(w, t) /\ pc[w] = "unlock")
        /\ \A t \in Tasks : lock'[t] \in {lock[t], NoWorker}
    BY DEF BecomeDue, ExpireLock, TypeInv, TypeOK, RedisTypeOK, Delayed, Benign
  <1>3. ASSUME NEW t \in Tasks
        PROVE  Kept(t)'
    <2>1. /\ InList(t)' = InList(t) /\ \A w \in Workers : Live(w, t)' = Live(w, t)
          /\ \A c \in Clients : Sends(c, t)' = Sends(c, t)
      BY <1>1 DEF InList, Live, Sends
    <2>2. HasCopy(t)' = HasCopy(t)
      BY <1>2, <2>1 DEF HasCopy, Pending
    <2>3. lock'[t] # NoWorker => Holds(lock[t], t)' /\ lock'[t] = lock[t]
      BY <1>1, <1>2 DEF KeptInv, Kept, Holds
    <2>4. ASSUME NEW w \in Workers, job'[w].task = t, pc'[w] = "unlock"
          PROVE  Left(w, t)'
      <3>1. Left(w, t) /\ Holds(w, t) /\ pc[w] = "unlock"
        BY <1>1, <2>4 DEF KeptInv, Kept, Holds, Processing
      <3>2. scheduled'[t] = scheduled[t]
        BY <1>2, <3>1
      <3>3. QED
        BY <2>1, <3>1, <3>2 DEF Left
    <2>5. (lock[t] # NoWorker => Holds(lock[t], t))'
      BY <1>1, <2>3 DEF Holds
    <2>6. QED
      BY <1>1, <2>2, <2>4, <2>5 DEF KeptInv, Kept
  <1>4. QED
    BY <1>1, <1>3 DEF KeptInv, Unmarked

LEMMA RequestKeepsKept ==
    ASSUME TypeInv, Benign, CopyInv, KeptInv, NEW c \in Clients, FinishRequest(c) \/ ClientStops(c)
    PROVE  KeptInv'
  <1>1. "crash" \notin Faults /\ "store_error" \notin Faults
        /\ "redis_error" \notin Faults /\ "lost_reply" \notin Faults
    BY DEF Benign
  <1>2. ~ClientStops(c) /\ ~EnqueueFails(c)
    BY <1>1 DEF ClientStops, EnqueueFails
  <1>3. ~RepairReset(c) /\ ~MarkTaskEnqueueFailed(c)
    BY DEF CopyInv, KeptInv, Unmarked, RepairReset, MarkTaskEnqueueFailed
  <1>4. QED
    BY <1>2, <1>3, EnqueueKeepsKept DEF FinishRequest

LEMMA PromoteKeepsKept ==
    ASSUME TypeInv, KeptInv, NEW w \in Workers, PromoteScheduled(w)
    PROVE  KeptInv'
  <1> DEFINE due == {t \in Tasks : scheduled[t] = "due"}
             n   == IF Cardinality(due) < PromoteLimit THEN Cardinality(due) ELSE PromoteLimit
  <1>1. n \in Nat
    BY PromotedBatch
  <1>2. PICK batch \in [1..n -> due] :
          /\ \A i, j \in 1..n : batch[i] = batch[j] => i = j
          /\ list' = list \o batch
          /\ scheduled' = [t \in Tasks |->
                             IF \E i \in 1..n : batch[i] = t THEN "no" ELSE scheduled[t]]
    BY DEF PromoteScheduled
  <1>3. batch \in [1..n -> Tasks] /\ list \in Seq(Tasks)
    BY <1>1, <1>2 DEF TypeInv, TypeOK, RedisTypeOK
  <1>4. /\ status' = status /\ job' = job /\ client' = client /\ lock' = lock
        /\ pc' = [pc EXCEPT ![w] = "pop"] /\ pc[w] = "poll"
    BY DEF PromoteScheduled, dbVars, Goto
  <1>5. job[w].task = NoTask /\ pc \in [Workers -> WorkerPc] /\ NoTask \notin Tasks
    BY <1>4 DEF TypeInv, TypeOK, WorkerTypeOK
  <1>6. ASSUME NEW t \in Tasks
        PROVE  Kept(t)'
    <2> DEFINE moved == \E i \in 1..n : batch[i] = t
    <2>1. Kept(t)
      BY DEF KeptInv
    <2>2. (moved => scheduled[t] = "due")
          /\ scheduled'[t] = IF moved THEN "no" ELSE scheduled[t]
      BY <1>2
    <2>3. In(list \o batch, t) <=> In(list, t) \/ moved
      <3> HIDE DEF n
      <3>1. QED
        BY <1>1, <1>2, <1>3, Joined
    <2> HIDE DEF moved, n
    <2>4. InList(t)' <=> InList(t) \/ moved
      BY <1>2, <2>3 DEF InList, In
    <2>5. /\ \A v \in Workers : Live(v, t)' = Live(v, t)
          /\ \A c \in Clients : Sends(c, t)' = Sends(c, t)
      BY <1>4, <1>5 DEF Live, Sends
    <2>6. HasCopy(t) => HasCopy(t)'
      BY <2>2, <2>4, <2>5 DEF HasCopy, Pending, Delayed
    <2>7. (lock[t] # NoWorker => Holds(lock[t], t))'
      BY <1>4, <1>5, <2>1 DEF Kept, Holds, TypeInv, TypeOK, RedisTypeOK
    <2>8. ASSUME NEW v \in Workers, job'[v].task = t, pc'[v] = "unlock"
          PROVE  Left(v, t)'
      <3>1. Left(v, t)
        BY <1>4, <1>5, <2>1, <2>8 DEF Kept
      <3>2. ~moved
        BY <2>2, <3>1 DEF Left
      <3>3. QED
        BY <2>2, <2>4, <2>5, <3>1, <3>2 DEF Left
    <2>9. QED
      BY <1>4, <2>1, <2>6, <2>7, <2>8 DEF Kept
  <1>7. Unmarked'
    BY <1>4, <1>5 DEF KeptInv, Unmarked
  <1>8. QED
    BY <1>6, <1>7 DEF KeptInv

LEMMA DequeueKeepsKept ==
    ASSUME TypeInv, Benign, KeptInv, NEW w \in Workers, Dequeue(w)
    PROVE  KeptInv'
  <1>1. /\ status' = status /\ scheduled' = scheduled /\ client' = client /\ lock' = lock
        /\ pc[w] = "pop" /\ list # <<>> /\ list' = Tail(list)
    BY DEF Dequeue, dbVars
  <1>2. /\ list \in Seq(Tasks) /\ pc \in [Workers -> WorkerPc] /\ job \in [Workers -> Job]
        /\ NoTask \notin Tasks /\ lock \in [Tasks -> Workers \cup {NoWorker}]
    BY DEF TypeInv, TypeOK, RedisTypeOK, WorkerTypeOK
  <1>3. Goto(w, "lock") /\ job' = [job EXCEPT ![w].task = Head(list)]
    BY DEF Dequeue, Benign
  <1>4. /\ \A v \in Workers \ {w} : pc'[v] = pc[v] /\ job'[v] = job[v]
        /\ pc'[w] = "lock" /\ job'[w].task = Head(list) /\ Head(list) \in Tasks
    BY <1>1, <1>2, <1>3 DEF Goto, Job
  <1>5. job[w].task = NoTask
    BY <1>1 DEF TypeInv, TypeOK, WorkerTypeOK
  <1>6. ASSUME NEW t \in Tasks
        PROVE  Kept(t)'
    <2>1. Kept(t)
      BY DEF KeptInv
    <2>2. In(list, t) <=> In(Tail(list), t) \/ t = Head(list)
      BY <1>1, <1>2, Popped
    <2>3. (InList(t) <=> InList(t)' \/ t = Head(list)) /\ Delayed(t)' = Delayed(t)
      BY <1>1, <2>2 DEF InList, In, Delayed
    <2>4. /\ \A v \in Workers \ {w} : Live(v, t)' = Live(v, t)
          /\ ~Live(w, t) /\ (Live(w, t)' <=> t = Head(list))
          /\ \A c \in Clients : Sends(c, t)' = Sends(c, t)
      BY <1>1, <1>2, <1>4, <1>5 DEF Live, Sends
    <2>5. HasCopy(t) => HasCopy(t)'
      BY <2>3, <2>4 DEF HasCopy, Pending
    <2>6. (lock[t] # NoWorker => Holds(lock[t], t))'
      BY <1>1, <1>2, <1>4, <2>1 DEF Kept, Holds, Processing
    <2>7. ASSUME NEW v \in Workers, job'[v].task = t, pc'[v] = "unlock"
          PROVE  Left(v, t)'
      <3>1. Left(v, t)
        BY <1>4, <2>1, <2>7 DEF Kept
      <3>2. t # Head(list)
        BY <2>3, <3>1 DEF Left
      <3>3. QED
        BY <1>1, <2>3, <2>4, <3>1, <3>2 DEF Left
    <2>8. QED
      BY <1>1, <2>1, <2>5, <2>6, <2>7 DEF Kept
  <1>7. Unmarked'
    BY <1>1, <1>4 DEF KeptInv, Unmarked
  <1>8. QED
    BY <1>6, <1>7 DEF KeptInv

\* The lock of a popped task is free: who held it had the other copy of the
\* id, or was about to unlock a task that is nowhere else.
LEMMA NoneSkipped ==
    ASSUME TypeInv, Benign, CopyInv, KeptInv, NEW w \in Workers
    PROVE  ~SkipTask(w)
  <1> SUFFICES ASSUME SkipTask(w) PROVE FALSE
    OBVIOUS
  <1>1. pc[w] = "lock" /\ lock[job[w].task] # NoWorker
    BY DEF SkipTask, Benign
  <1>2. PICK t \in Tasks : t = job[w].task
    BY <1>1, WorkerTask
  <1>3. Kept(t) /\ OneCopy(t) /\ Live(w, t)
    BY <1>1, <1>2 DEF KeptInv, CopyInv, Live
  <1>4. PICK v \in Workers : v = lock[t] /\ Holds(v, t)
    BY <1>1, <1>2, <1>3 DEF Kept, TypeInv, TypeOK, RedisTypeOK
  <1>5. v # w /\ pc[v] # "retry_mark"
    BY <1>1, <1>4 DEF Holds, Processing, KeptInv, Unmarked
  <1>6. CASE pc[v] = "unlock"
    BY <1>3, <1>4, <1>6 DEF Kept, Holds, Left
  <1>7. CASE pc[v] # "unlock"
    BY <1>3, <1>4, <1>5, <1>7 DEF Holds, Live, OneCopy
  <1>8. QED
    BY <1>6, <1>7

LEMMA LoopKeepsKept ==
    ASSUME TypeInv, Benign, CopyInv, KeptInv, NEW w \in Workers,
           DequeueTimesOut(w) \/ LockTask(w) \/ SkipTask(w) \/ UnlockTask(w) \/ WorkerCrashes(w)
    PROVE  KeptInv'
  <1> USE DEF dbVars, redisVars, Goto, BackToPoll
  <1>0. ~SkipTask(w) /\ ~WorkerCrashes(w)
    BY NoneSkipped DEF Benign, WorkerCrashes
  <1>1. /\ status' = status /\ list' = list /\ scheduled' = scheduled /\ client' = client
    BY <1>0 DEF DequeueTimesOut, LockTask, UnlockTask
  <1>2. /\ pc \in [Workers -> WorkerPc] /\ job \in [Workers -> Job] /\ NoTask \notin Tasks
        /\ lock \in [Tasks -> Workers \cup {NoWorker}]
    BY DEF TypeInv, TypeOK, RedisTypeOK, WorkerTypeOK
  <1>3. \A v \in Workers \ {w} : pc'[v] = pc[v] /\ job'[v] = job[v]
    BY <1>0, <1>2 DEF DequeueTimesOut, LockTask, UnlockTask
  <1>4. \/ /\ pc[w] = "pop" /\ pc'[w] = "poll" /\ lock' = lock
           /\ job[w].task = NoTask /\ job'[w].task = NoTask
        \/ /\ pc[w] = "lock" /\ pc'[w] = "load" /\ job'[w] = job[w]
           /\ lock' = [lock EXCEPT ![job[w].task] = w]
        \/ /\ pc[w] = "unlock" /\ pc'[w] = "poll" /\ job'[w].task = NoTask
           /\ lock' = [lock EXCEPT ![job[w].task] = NoWorker]
    <2>1. CASE DequeueTimesOut(w)
      BY <1>2, <2>1 DEF DequeueTimesOut, TypeInv, TypeOK, WorkerTypeOK
    <2>2. CASE LockTask(w)
      BY <1>2, <2>2 DEF LockTask, Benign
    <2>3. CASE UnlockTask(w)
      BY <1>2, <2>3 DEF UnlockTask, NoJob, Benign
    <2>4. QED
      BY <1>0, <2>1, <2>2, <2>3
  <1>5. ASSUME NEW t \in Tasks
        PROVE  Kept(t)'
    <2>1. Kept(t)
      BY DEF KeptInv
    <2>2. /\ InList(t)' = InList(t) /\ Delayed(t)' = Delayed(t)
          /\ \A v \in Workers \ {w} : Live(v, t)' = Live(v, t) /\ Holds(v, t)' = Holds(v, t)
          /\ \A c \in Clients : Sends(c, t)' = Sends(c, t)
      BY <1>1, <1>3 DEF InList, In, Delayed, Live, Holds, Sends
    <2>3. Live(w, t)' = Live(w, t)
      BY <1>2, <1>4 DEF Live
    <2>4. HasCopy(t)' = HasCopy(t)
      BY <2>2, <2>3 DEF HasCopy, Pending
    <2>5. (lock[t] # NoWorker => Holds(lock[t], t))'
      <3>1. CASE job[w].task = t /\ pc[w] \in {"lock", "unlock"}
        BY <1>2, <1>4, <3>1 DEF Holds, Processing
      <3>2. CASE ~(job[w].task = t /\ pc[w] \in {"lock", "unlock"})
        <4>1. lock'[t] = lock[t]
          BY <1>2, <1>4, <3>2
        <4>2. ~Holds(w, t)
          BY <1>2, <1>4, <3>2 DEF Holds, Processing
        <4>3. QED
          BY <1>2, <2>1, <2>2, <4>1, <4>2 DEF Kept, Holds
      <3>3. QED
        BY <3>1, <3>2
    <2>6. ASSUME NEW v \in Workers, job'[v].task = t, pc'[v] = "unlock"
          PROVE  Left(v, t)'
      <3>1. v # w
        BY <1>4, <2>6
      <3>2. Left(v, t)
        BY <1>3, <2>1, <2>6, <3>1 DEF Kept
      <3>3. QED
        BY <1>1, <2>2, <2>3, <3>2 DEF Left
    <2>7. QED
      BY <1>1, <2>1, <2>4, <2>5, <2>6 DEF Kept
  <1>6. Unmarked'
    BY <1>1, <1>3, <1>4 DEF KeptInv, Unmarked
  <1>7. QED
    BY <1>5, <1>6 DEF KeptInv

\* How ProcessTask can end when nothing fails.
LEMMA EndsWell ==
    ASSUME TypeInv, Benign, NEW w \in Workers, ProcessTask(w), pc[w] # "retry_mark"
    PROVE  LET t == job[w].task
           IN  /\ pc'[w] \in Processing \ {"retry_mark"}
               /\ pc'[w] = "unlock" => status'[t] \in Terminal \/ scheduled'[t] = "waiting"
               /\ scheduled'[t] \in {scheduled[t], "waiting"}
  <1> DEFINE t == job[w].task
  <1>1. JobOutcome(w) \in Terminal
    BY DEF JobOutcome, Outcome, Terminal
  <1>2. CASE SilentMove(w, t)
    BY <1>2 DEF SilentMove, SameRows, Benign, Processing
  <1>3. CASE StatusMove(w, t)
    BY <1>1, <1>3 DEF StatusMove, Processing, Terminal
  <1>4. CASE FinishMove(w, t)
    BY <1>4 DEF FinishMove, Processing
  <1>5. CASE AttemptMove(w, t)
    BY <1>5 DEF AttemptMove, Processing
  <1>6. CASE GenerateMove(w, t)
    BY <1>6 DEF GenerateMove, AfterGenerate, Processing
  <1>7. CASE RegisterMove(w, t)
    BY <1>7 DEF RegisterMove, Processing
  <1>8. CASE EnqueueMove(w, t)
    BY <1>8 DEF EnqueueMove, Processing, Benign
  <1>9. QED
    BY <1>2, <1>3, <1>4, <1>5, <1>6, <1>7, <1>8, ProcessMove

LEMMA OtherKept ==
    ASSUME NEW t \in Tasks, Kept(t), Untouched(t), lock'[t] = lock[t],
           lock[t] \in Workers \cup {NoWorker}
    PROVE  Kept(t)'
  <1>1. /\ InList(t)' = InList(t) /\ Delayed(t)' = Delayed(t)
        /\ \A w \in Workers : Live(w, t)' = Live(w, t) /\ Holds(w, t)' = Holds(w, t)
        /\ \A c \in Clients : Sends(c, t)' = Sends(c, t)
    BY DEF Untouched, Delayed, Live, Holds, Sends
  <1>2. HasCopy(t)' = HasCopy(t)
    BY <1>1 DEF HasCopy, Pending
  <1>3. (lock[t] # NoWorker => Holds(lock[t], t))'
    BY <1>1 DEF Kept, Holds
  <1>4. \A w \in Workers : job'[w].task = t /\ pc'[w] = "unlock" => Left(w, t)'
    BY <1>1 DEF Kept, Untouched, Left
  <1>5. QED
    BY <1>2, <1>3, <1>4 DEF Kept, Untouched

LEMMA ProcessKeepsKept ==
    ASSUME TypeInv, Benign, CopyInv, KeptInv, NEW w \in Workers, ProcessTask(w)
    PROVE  KeptInv'
  <1>1. lock' = lock /\ client' = client /\ pc[w] \in Processing /\ pc[w] # "retry_mark"
    BY ProcessTaskStays, ProcessFrame DEF KeptInv, Unmarked
  <1>2. PICK t \in Tasks : t = job[w].task
    BY <1>1, WorkerTask DEF Processing
  <1>3. OneCopy(t) /\ Unsent(t) /\ Kept(t) /\ lock \in [Tasks -> Workers \cup {NoWorker}]
    BY DEF CopyInv, KeptInv, TypeInv, TypeOK, RedisTypeOK
  <1>4. /\ pc'[w] \in Processing \ {"retry_mark"}
        /\ pc'[w] = "unlock" => status'[t] \in Terminal \/ scheduled'[t] = "waiting"
        /\ scheduled'[t] \in {scheduled[t], "waiting"}
    BY <1>1, <1>2, EndsWell
  <1>5. /\ job'[w].task = t /\ InList(t)' = InList(t) /\ \A c \in Clients : Sends(c, t)' = Sends(c, t)
        /\ \A v \in Workers \ {w} : pc'[v] = pc[v] /\ job'[v] = job[v]
    BY <1>2, OwnTask
  <1>6. /\ Live(w, t) /\ ~InList(t) /\ ~Delayed(t) /\ \A c \in Clients : ~Sends(c, t)
        /\ \A v \in Workers : Live(v, t)' => v = w
    BY <1>1, <1>2, <1>3, Acting DEF Pending
  <1>7. Unmarked'
    BY <1>1, <1>4, <1>5 DEF KeptInv, Unmarked
  <1>8. status'[t] \in {"queued", "running"} => HasCopy(t)'
    <2>1. CASE pc'[w] = "unlock"
      BY <1>4, <2>1 DEF HasCopy, Pending, Delayed, Terminal
    <2>2. CASE pc'[w] # "unlock"
      BY <1>4, <1>5, <2>2 DEF HasCopy, Live
    <2>3. QED
      BY <2>1, <2>2
  <1>9. (lock[t] # NoWorker => Holds(lock[t], t))'
    BY <1>1, <1>3, <1>4, <1>5 DEF Kept, Holds
  <1>10. ASSUME NEW v \in Workers, job'[v].task = t, pc'[v] = "unlock"
         PROVE  Left(v, t)'
    <2>1. v = w
      <3>1. v # w => Left(v, t)
        BY <1>3, <1>5, <1>10 DEF Kept
      <3>2. QED
        BY <1>6, <3>1 DEF Left
    <2>2. \A u \in Workers : ~Live(u, t)'
      BY <1>6, <1>10, <2>1 DEF Live
    <2>3. scheduled'[t] # "due"
      BY <1>4, <1>6 DEF Delayed
    <2>4. QED
      BY <1>5, <1>6, <2>2, <2>3 DEF Left
  <1>11. Kept(t)'
    BY <1>8, <1>9, <1>10 DEF Kept
  <1>12. ASSUME NEW u \in Tasks, u # t
         PROVE  Kept(u)'
    BY <1>1, <1>2, <1>3, <1>12, ProcessUntouched, OtherKept DEF KeptInv
  <1>13. QED
    BY <1>7, <1>11, <1>12 DEF KeptInv

KeptHeld == repairs = 0 => KeptInv

LEMMA NextKeepsKept ==
    Benign /\ TypeInv /\ CopyHeld /\ KeptHeld /\ [Next]_vars => KeptHeld'
  <1> SUFFICES ASSUME Benign, TypeInv, CopyHeld, KeptHeld, [Next]_vars, repairs' = 0
               PROVE  KeptInv'
    BY DEF KeptHeld
  <1>1. CopyInv /\ KeptInv /\ \A c \in Clients, t \in Tasks : ~RepairLoad(c, t)
    BY RepairsStay DEF CopyHeld, KeptHeld
  <1>2. CASE \E c \in Clients, t \in Tasks : InsertTask(c, t)
    BY <1>1, <1>2, InsertKeepsKept
  <1>3. CASE \E c \in Clients : FinishRequest(c) \/ ClientStops(c)
    BY <1>1, <1>3, RequestKeepsKept
  <1>4. CASE \E t \in Tasks : BecomeDue(t) \/ ExpireLock(t)
    BY <1>1, <1>4, RedisKeepsKept
  <1>5. ASSUME NEW w \in Workers, RunWorker(w) \/ WorkerCrashes(w)
        PROVE  KeptInv'
    BY <1>1, <1>5, PromoteKeepsKept, DequeueKeepsKept, LoopKeepsKept, ProcessKeepsKept
       DEF RunWorker
  <1>6. CASE UNCHANGED vars
    <2>1. \A t \in Tasks : Untouched(t) /\ lock'[t] = lock[t] /\ lock[t] \in Workers \cup {NoWorker}
      BY <1>6 DEF Untouched, InList, vars, dbVars, redisVars, workerVars, TypeInv, TypeOK, RedisTypeOK
    <2>2. Unmarked'
      BY <1>1, <1>6 DEF KeptInv, Unmarked, vars, workerVars
    <2>3. QED
      BY <1>1, <2>1, <2>2, OtherKept DEF KeptInv
  <1>7. QED
    BY <1>1, <1>2, <1>3, <1>4, <1>5, <1>6 DEF Next

\* While nothing fails and no operator requeues a task, an unsettled task is
\* with somebody who will act on it or in Redis, even if executions outlive
\* their lock: for every number of tasks, workers and handlers and every
\* promotion batch, SkipTask never drops the id of a task that is needed.
THEOREM NeverForgottenHolds ==
    Faults \subseteq {"overrun"} => (Spec => [](repairs = 0 => NeverForgotten))
  <1> SUFFICES ASSUME Benign
               PROVE  Spec => [](repairs = 0 => NeverForgotten)
    BY DEF Benign
  <1>1. Init => KeptHeld
    <2> SUFFICES ASSUME Init PROVE KeptInv
      BY DEF KeptHeld
    <2>1. Unmarked
      BY DEF Init, Unmarked, Idle
    <2>2. \A t \in Tasks : Kept(t)
      BY DEF Init, Kept
    <2>3. QED
      BY <2>1, <2>2 DEF KeptInv
  <1>2. TypeInv /\ CopyHeld /\ KeptHeld /\ [Next]_vars => KeptHeld'
    BY NextKeepsKept
  <1>3. KeptHeld => (repairs = 0 => NeverForgotten)
    <2> SUFFICES ASSUME KeptInv, NEW t \in Tasks, status[t] \in {"queued", "running"}
                 PROVE  \/ Queued(t) # {} \/ scheduled[t] # "no"
                        \/ Carriers(t) # {} \/ Producers(t) # {}
      BY DEF KeptHeld, NeverForgotten
    <2>1. HasCopy(t)
      BY DEF KeptInv, Kept
    <2>2. /\ InList(t) => Queued(t) # {}
          /\ \A w \in Workers : Live(w, t) => Carriers(t) # {}
          /\ \A c \in Clients : Sends(c, t) => Producers(t) # {}
      BY DEF InList, In, Queued, Live, Carriers, Sends, Producers
    <2>3. QED
      BY <2>1, <2>2 DEF HasCopy, Pending, Delayed
  <1>4. QED
    BY <1>1, <1>2, <1>3, TypeCorrect, CopyHolds, PTL DEF Spec

=============================================================================
