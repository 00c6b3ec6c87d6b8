------------------------------ MODULE WebTasks ------------------------------
(***************************************************************************)
(* The image tasks of the web client that call a provider directly, as     *)
(* store.ts runs them in one browser tab: the tasks in memory, their rows  *)
(* and the images in IndexedDB, and the asynchronous functions that share  *)
(* them (submitting, executing, recovering, storing a streamed partial     *)
(* image, removing, clearing, importing, starting up).                     *)
(*                                                                         *)
(* JavaScript runs to the next await, so an action is what a function does *)
(* between two awaits.  A write to IndexedDB takes effect when it is       *)
(* issued: transactions of one connection run in the order they are made.  *)
(* Images are named by the hash of their content, so the last partial      *)
(* image of a stream may be the output image itself.                       *)
(***************************************************************************)
EXTENDS Naturals, FiniteSets

CONSTANTS
    Tasks,          \* identifiers genId may return
    Kinds,          \* how the tasks' providers answer, a subset of Kind
    Backup,         \* those of the tasks of a backup, which genId does not return
    MaxAuto,        \* RECOVERY_MAX_AUTO_TASKS
    MaxReloads,     \* bound on the reloads of the page
    Imports,        \* the statuses the tasks of a backup may have
    Orderly         \* the user does nothing else while a removal, a clearing, an
                    \* import or a start-up is between two of its steps

\* single: one OpenAI or synchronous custom request, under the watchdog.
\* many:   concurrent OpenAI requests, without it.
\* fal, custom: a remote task that can be asked for again.
Kind == {"single", "many", "fal", "custom"}

ASSUME WebTasksAssumption ==
    /\ Kinds \subseteq Kind /\ Backup \subseteq Tasks
    /\ MaxAuto \in Nat /\ MaxReloads \in Nat
    /\ Imports \subseteq {"running", "done", "error"}
    /\ Orderly \in BOOLEAN

VARIABLES
    tasks,      \* state.tasks
    rows,       \* the tasks in IndexedDB
    images,     \* the images in IndexedDB
    attached,   \* the composer (state.inputImages) holds the input image
    submit,     \* submitTask, between storing the input and creating the task
    exec,       \* executeTask, per task
    watchdog,   \* tasks with an openAIWatchdogTimer
    partial,    \* persistTaskStreamPartialImage, per task
    recovery,   \* recoverFalTask or recoverCustomTask and its timer, per task
    cleanup,    \* images deleteUnreferencedImageIds found unused and deletes
    removal,    \* removeTask, removeMultipleTasks, clearData or importData
    start,      \* runInitStore
    reloads,
    crossed     \* tasks that changed between the step of one of the former
                \* that read them and the step that acts on it, and their
                \* retries: history

vars == <<tasks, rows, images, attached, submit, exec, watchdog, partial,
          recovery, cleanup, removal, start, reloads, crossed>>
async == <<exec, watchdog, partial, recovery, cleanup, crossed>>

-----------------------------------------------------------------------------
In      == <<"in">>
Out(t)  == <<"out", t>>
Part(t) == <<"part", t>>
Images  == {In} \cup {Out(t) : t \in Tasks} \cup {Part(t) : t \in Tasks}

\* request: falRequestId or customTaskId is known.
TaskRecord == [status: {"none", "running", "done", "error"}, kind: Kind,
               input: BOOLEAN, outs: SUBSET Images, parts: SUBSET Images,
               request: BOOLEAN, recoverable: BOOLEAN]

NewTask(kind, input) ==
    [status |-> "running", kind |-> kind, input |-> input, outs |-> {},
     parts |-> {}, request |-> FALSE, recoverable |-> FALSE]
NoTask  == [NewTask("single", FALSE) EXCEPT !.status = "none"]
NoTasks == [t \in Tasks |-> NoTask]

Exists(ts, t) == ts[t].status # "none"
ImagesOf(r)   == (IF r.input THEN {In} ELSE {}) \cup r.outs \cup r.parts

\* addTaskReferencedImageIds of all tasks, and the images of the composer.
Referenced(ts, composer) ==
    (UNION {ImagesOf(ts[t]) : t \in Tasks}) \cup (IF composer THEN {In} ELSE {})

Failed(r)      == [r EXCEPT !.status = "error", !.recoverable = FALSE]
Lost(r)        == [r EXCEPT !.status = "error", !.request = TRUE, !.recoverable = TRUE]
Delivered(r, t) == [r EXCEPT !.status = "done", !.outs = {Out(t)}, !.recoverable = FALSE]

\* A network or disconnection error of a task whose remote task is known.
Recoverable(r) == r.kind \in {"fal", "custom"} /\ r.request

NoPartial == [pc |-> "none", image |-> In]
IdleRemoval == [pc |-> "idle", dead |-> {}, snapshot |-> NoTasks,
                attached |-> FALSE, images |-> {}]
Started == [pc |-> "ready", snapshot |-> NoTasks, todo |-> {}]

Quiet    == start.pc = "ready" /\ removal.pc = "idle"
UserFree == Orderly => (Quiet /\ submit = "idle")

Init ==
    /\ tasks = NoTasks /\ rows = NoTasks /\ images = {}
    /\ attached = FALSE /\ submit = "idle"
    /\ exec = [t \in Tasks |-> "idle"]
    /\ watchdog = {}
    /\ partial = [t \in Tasks |-> NoPartial]
    /\ recovery = [t \in Tasks |-> "idle"]
    /\ cleanup = {}
    /\ removal = IdleRemoval
    /\ start = Started
    /\ reloads = 0
    /\ crossed = {}

\* The list will be replaced by an older or an empty one.
Outdated == removal.pc \in {"scrub", "import", "clear images", "clear list"}

Cross(t, now) == crossed' = IF now THEN crossed \cup {t} ELSE crossed

\* updateTaskInStore: the row is written only if the task is in the list.
UpdateTask(t, r) ==
    IF Exists(tasks, t)
    THEN /\ tasks' = [tasks EXCEPT ![t] = r]
         /\ rows' = [rows EXCEPT ![t] = r]
         /\ Cross(t, Outdated)
    ELSE UNCHANGED <<tasks, rows, crossed>>

-----------------------------------------------------------------------------
(* The composer and submitTask. *)

Attach ==
    /\ UserFree /\ ~attached
    /\ attached' = TRUE
    /\ images' = images \cup {In}
    /\ UNCHANGED <<tasks, rows, submit, async, removal, start, reloads>>

\* reuseConfig: the input image of a task comes back to the composer.
ReuseConfig(t) ==
    /\ UserFree /\ Exists(tasks, t)
    /\ attached' = (tasks[t].input /\ In \in images)
    /\ UNCHANGED <<tasks, rows, images, submit, async, removal, start, reloads>>

Detach ==
    /\ UserFree /\ attached
    /\ attached' = FALSE
    /\ UNCHANGED <<tasks, rows, images, submit, async, removal, start, reloads>>

\* The images of the composer are stored before the task exists.
SubmitStore ==
    /\ UserFree /\ submit = "idle"
    /\ submit' = IF attached THEN "input" ELSE "plain"
    /\ images' = IF attached THEN images \cup {In} ELSE images
    /\ UNCHANGED <<tasks, rows, attached, async, removal, start, reloads>>

\* The task is listed and its row written; executeTask follows the await of
\* the row.  The composer may be cleared (clearInputAfterSubmit).
AddTask(t, kind, input) ==
    /\ t \notin Backup /\ ~Exists(tasks, t) /\ ~Exists(rows, t)
    /\ exec[t] = "idle" /\ partial[t].pc = "none" /\ recovery[t] = "idle"
    /\ tasks' = [tasks EXCEPT ![t] = NewTask(kind, input)]
    /\ rows' = [rows EXCEPT ![t] = NewTask(kind, input)]
    /\ exec' = [exec EXCEPT ![t] = "submitted"]

SubmitCreate(t, kind) ==
    /\ submit # "idle"
    /\ AddTask(t, kind, submit = "input")
    /\ submit' = "idle"
    /\ attached' \in {attached, FALSE}
    /\ UNCHANGED <<images, watchdog, partial, recovery, cleanup, removal, start,
                   reloads, crossed>>

\* retryTask: a new task with the input images of an old one, lost or not.
RetryTask(old, t, kind) ==
    /\ UserFree /\ Exists(tasks, old)
    /\ AddTask(t, kind, tasks[old].input)
    /\ Cross(t, old \in crossed)
    /\ UNCHANGED <<images, attached, submit, watchdog, partial, recovery,
                   cleanup, removal, start, reloads>>

-----------------------------------------------------------------------------
(* executeTask. *)

Step(t, pc) == exec' = [exec EXCEPT ![t] = pc]
Elsewhere   == UNCHANGED <<attached, submit, removal, start, reloads>>

\* A task removed meanwhile is not run; one whose API profile is gone fails.
\* The watchdog is set for a single request only.
Execute(t) ==
    /\ exec[t] = "submitted"
    /\ \/ /\ Exists(tasks, t)
          /\ Step(t, "inputs")
          /\ watchdog' = IF tasks[t].kind = "single" /\ tasks[t].status = "running"
                         THEN watchdog \cup {t} ELSE watchdog
          /\ UNCHANGED <<tasks, rows, crossed>>
       \/ /\ UpdateTask(t, Failed(tasks[t]))
          /\ Step(t, "gone")
          /\ UNCHANGED watchdog
    /\ UNCHANGED <<images, partial, recovery, cleanup>> /\ Elsewhere

\* An image that is no longer stored may still be in the memory cache.
ReadInputs(t) ==
    /\ exec[t] = "inputs"
    /\ Step(t, "call")
    /\ UNCHANGED <<tasks, rows, images, watchdog, partial, recovery, cleanup, crossed>>
    /\ Elsewhere

\* onFalRequestEnqueued, onCustomTaskEnqueued.
Enqueued(t) ==
    /\ exec[t] = "call"
    /\ tasks[t].kind \in {"fal", "custom"} /\ ~tasks[t].request
    /\ UpdateTask(t, [tasks[t] EXCEPT !.request = TRUE, !.recoverable = FALSE])
    /\ UNCHANGED <<images, exec, watchdog, partial, recovery, cleanup>> /\ Elsewhere

\* The answer of callImageApi, looked at only if the task still runs.
Answered(t) ==
    /\ exec[t] = "call"
    /\ Step(t, IF tasks[t].status = "running" THEN "store" ELSE "gone")
    /\ UNCHANGED <<tasks, rows, images, watchdog, partial, recovery, cleanup, crossed>>
    /\ Elsewhere

\* storeTaskOutputImages; Out(t) stands for the outputs of the task.
StoreOutputs(t) ==
    /\ exec[t] = "store"
    /\ images' = images \cup {Out(t)}
    /\ Step(t, "settle")
    /\ UNCHANGED <<tasks, rows, watchdog, partial, recovery, cleanup, crossed>> /\ Elsewhere

\* deleteUnreferencedImageIds decides once, and CleanUp deletes one by one.
Unused(S, ts) == S \ Referenced(ts, attached)

\* An output is stored and another cannot be: what was stored is deleted if
\* unused.  It may be the partial image that is just being kept, or one the row
\* of a removed task still names.
Discards(t) ==
    /\ cleanup' = cleanup \cup Unused({Out(t)}, tasks)
    /\ Cross(t, \/ t \in removal.dead
                \/ partial[t].pc \in {"store", "record"} /\ partial[t].image = Out(t))

DiscardOutputs(t) ==
    /\ exec[t] = "settle"
    /\ Step(t, "discard")
    /\ Discards(t)
    /\ UNCHANGED <<tasks, rows, images, watchdog, partial, recovery>> /\ Elsewhere

\* Mutant: the status is not read again after the outputs are stored.
SettleUnchecked(t) ==
    /\ exec[t] = "settle"
    /\ Step(t, "gone")
    /\ UpdateTask(t, [Delivered(tasks[t], t) EXCEPT !.parts = {}])
    /\ watchdog' = watchdog \ {t}
    /\ cleanup' = cleanup \cup Unused(tasks[t].parts, tasks')
    /\ UNCHANGED <<images, partial, recovery>> /\ Elsewhere

\* The status is checked again; the partial images are to go if unused.
Settle(t) ==
    /\ exec[t] = "settle"
    /\ Step(t, "gone")
    /\ IF tasks[t].status = "running"
       THEN /\ UpdateTask(t, [Delivered(tasks[t], t) EXCEPT !.parts = {}])
            /\ watchdog' = watchdog \ {t}
            /\ cleanup' = cleanup \cup Unused(tasks[t].parts, tasks')
       ELSE UNCHANGED <<tasks, rows, watchdog, cleanup, crossed>>
    /\ UNCHANGED <<images, partial, recovery>> /\ Elsewhere

\* One of the images decided on.
CleanUp(image) ==
    /\ image \in cleanup
    /\ images' = images \ {image} /\ cleanup' = cleanup \ {image}
    /\ UNCHANGED <<tasks, rows, exec, watchdog, partial, recovery, crossed>> /\ Elsewhere

\* The catch block: an input image is gone, the call fails or the outputs
\* cannot be stored, with those already stored deleted first.  A lost
\* connection to a known remote task, or an aborted write, is recovered.
Fails(t, lost) ==
    /\ exec[t] \in {"inputs", "call", "store", "discard"}
    /\ exec[t] = "inputs" => tasks[t].input /\ In \notin images /\ ~lost
    /\ exec[t] = "discard" => Out(t) \notin cleanup
    /\ Step(t, "gone")
    /\ watchdog' = watchdog \ {t}
    /\ IF tasks[t].status # "running"
       THEN UNCHANGED <<tasks, rows, recovery, crossed>>
       ELSE IF lost /\ Recoverable(tasks[t])
       THEN /\ UpdateTask(t, Lost(tasks[t]))
            /\ recovery' = [recovery EXCEPT ![t] = "timer"]
       ELSE UpdateTask(t, Failed(tasks[t])) /\ UNCHANGED recovery
    /\ UNCHANGED <<images, partial, cleanup>> /\ Elsewhere

\* failOpenAITaskIfStillRunning.
WatchdogFires(t) ==
    /\ t \in watchdog
    /\ watchdog' = watchdog \ {t}
    /\ IF tasks[t].status = "running"
       THEN UpdateTask(t, Failed(tasks[t]))
       ELSE UNCHANGED <<tasks, rows, crossed>>
    /\ UNCHANGED <<images, exec, partial, recovery, cleanup>> /\ Elsewhere

\* onPartialImage; one per task.
PartialArrives(t, image) ==
    /\ exec[t] = "call" /\ tasks[t].kind \in {"single", "many"}
    /\ partial[t].pc = "none"
    /\ partial' = [partial EXCEPT ![t] = [pc |-> "store", image |-> image]]
    /\ UNCHANGED <<tasks, rows, images, exec, watchdog, recovery, cleanup, crossed>>
    /\ Elsewhere

PartialStored(t) ==
    /\ partial[t].pc = "store"
    /\ partial' = [partial EXCEPT ![t].pc = "record"]
    /\ images' = images \cup {partial[t].image}
    /\ UNCHANGED <<tasks, rows, exec, watchdog, recovery, cleanup, crossed>> /\ Elsewhere

\* A finished or removed task does not take it: it is to go if unused, even if
\* the row of the removed task still names it.
PartialRecorded(t) ==
    LET image == partial[t].image
    IN  /\ partial[t].pc = "record"
        /\ partial' = [partial EXCEPT ![t] = [NoPartial EXCEPT !.pc = "over"]]
        /\ IF tasks[t].status \in {"none", "done"}
           THEN /\ cleanup' = cleanup \cup Unused({image}, tasks)
                /\ Cross(t, t \in removal.dead)
                /\ UNCHANGED <<tasks, rows>>
           ELSE /\ UpdateTask(t, [tasks[t] EXCEPT !.parts = @ \cup {image}])
                /\ UNCHANGED cleanup
        /\ UNCHANGED <<images, exec, watchdog, recovery>> /\ Elsewhere

-----------------------------------------------------------------------------
(* recoverFalTask and recoverCustomTask. *)

Recovery(t, pc) == recovery' = [recovery EXCEPT ![t] = pc]

\* The timer fires: without a profile it is set again, a finished or removed
\* task is left alone, else the remote task is asked.
Recover(t) ==
    /\ recovery[t] = "timer"
    /\ IF tasks[t].status \in {"running", "error"} /\ Recoverable(tasks[t])
       THEN \/ Recovery(t, "ask")
            \/ UNCHANGED recovery
       ELSE Recovery(t, "idle")
    /\ UNCHANGED <<tasks, rows, images, exec, watchdog, partial, cleanup, crossed>> /\ Elsewhere

\* Outputs stored before one that cannot be have been deleted.
RecoveryBreaks(t) ==
    /\ recovery[t] \in {"ask", "store", "discard"}
    /\ recovery[t] = "discard" => Out(t) \notin cleanup

\* A fal query or write that is aborted is tried again later; polling a custom
\* provider retries by itself, and its recovery never ends this way.
RecoverLost(t) ==
    /\ RecoveryBreaks(t) /\ tasks[t].kind = "fal"
    /\ Recovery(t, "timer")
    /\ UNCHANGED <<tasks, rows, images, exec, watchdog, partial, cleanup, crossed>> /\ Elsewhere

RecoverFails(t) ==
    /\ RecoveryBreaks(t)
    /\ Recovery(t, "idle")
    /\ UpdateTask(t, Failed(tasks[t]))
    /\ UNCHANGED <<images, exec, watchdog, partial, cleanup>> /\ Elsewhere

RecoverAnswered(t) ==
    /\ recovery[t] = "ask"
    /\ Recovery(t, IF tasks[t].status \in {"none", "done"} THEN "idle" ELSE "store")
    /\ UNCHANGED <<tasks, rows, images, exec, watchdog, partial, cleanup, crossed>> /\ Elsewhere

\* A start-up that has not read the keys of the images yet may delete it.
RecoverStores(t) ==
    /\ recovery[t] = "store"
    /\ images' = images \cup {Out(t)}
    /\ Recovery(t, "settle")
    /\ Cross(t, start.pc # "ready")
    /\ UNCHANGED <<tasks, rows, exec, watchdog, partial, cleanup>> /\ Elsewhere

RecoverDiscards(t) ==
    /\ recovery[t] = "settle"
    /\ Recovery(t, "discard")
    /\ Discards(t)
    /\ UNCHANGED <<tasks, rows, images, exec, watchdog, partial>> /\ Elsewhere

RecoverSettles(t) ==
    /\ recovery[t] = "settle"
    /\ Recovery(t, "idle")
    /\ UpdateTask(t, Delivered(tasks[t], t))
    /\ UNCHANGED <<images, exec, watchdog, partial, cleanup>> /\ Elsewhere

-----------------------------------------------------------------------------
(* removeTask and removeMultipleTasks. *)

\* The list, the composer and the dead tasks' images are read here, before
\* the payloads of sibling tasks of an agent round are rewritten.
RemoveStart(dead) ==
    /\ UserFree /\ removal.pc = "idle"
    /\ dead # {} /\ \A t \in dead : Exists(tasks, t)
    /\ removal' = [pc |-> "scrub", dead |-> dead,
                   snapshot |-> [t \in Tasks |-> IF t \in dead THEN NoTask ELSE tasks[t]],
                   attached |-> attached,
                   images |-> UNION {ImagesOf(tasks[t]) : t \in dead}]
    /\ UNCHANGED <<tasks, rows, images, attached, submit, async, start, reloads>>

\* Rewritten siblings are written back as they were read.
RemoveScrub(t) ==
    /\ removal.pc = "scrub" /\ Exists(removal.snapshot, t)
    /\ rows' = [rows EXCEPT ![t] = removal.snapshot[t]]
    /\ UNCHANGED <<tasks, images, attached, submit, async, removal, start, reloads>>

RemoveFromList ==
    /\ removal.pc = "scrub"
    /\ tasks' = removal.snapshot
    /\ removal' = [removal EXCEPT !.pc = "rows"]
    /\ UNCHANGED <<rows, images, attached, submit, async, start, reloads>>

RemoveRow(t) ==
    /\ removal.pc = "rows" /\ t \in removal.dead
    /\ rows' = [rows EXCEPT ![t] = NoTask]
    /\ removal' = [removal EXCEPT !.dead = @ \ {t}]
    /\ UNCHANGED <<tasks, images, attached, submit, async, start, reloads>>

\* Mutant: every image of the removed tasks is deleted.
RemoveUnusedAll ==
    /\ removal.pc = "rows" /\ removal.dead = {}
    /\ removal' = [removal EXCEPT !.pc = "images"]
    /\ UNCHANGED <<tasks, rows, images, attached, submit, async, start, reloads>>

\* stillUsed: the remaining tasks and the composer, as they were read.
RemoveUnused ==
    /\ removal.pc = "rows" /\ removal.dead = {}
    /\ removal' = [removal EXCEPT !.pc = "images",
                       !.images = @ \ Referenced(removal.snapshot, removal.attached)]
    /\ UNCHANGED <<tasks, rows, images, attached, submit, async, start, reloads>>

RemoveImage ==
    /\ removal.pc = "images"
    /\ \/ \E image \in removal.images :
            /\ images' = images \ {image}
            /\ removal' = [removal EXCEPT !.images = @ \ {image}]
       \/ /\ removal.images = {}
          /\ removal' = IdleRemoval
          /\ UNCHANGED images
    /\ UNCHANGED <<tasks, rows, attached, submit, async, start, reloads>>

(* clearData: rows, then images, then the list and the composer. *)

ClearRows ==
    /\ UserFree /\ removal.pc = "idle"
    /\ rows' = NoTasks
    /\ removal' = [IdleRemoval EXCEPT !.pc = "clear images"]
    /\ UNCHANGED <<tasks, images, attached, submit, async, start, reloads>>

ClearImages ==
    /\ removal.pc = "clear images"
    /\ images' = {}
    /\ removal' = [removal EXCEPT !.pc = "clear list"]
    /\ UNCHANGED <<tasks, rows, attached, submit, async, start, reloads>>

ClearList ==
    /\ removal.pc = "clear list"
    /\ tasks' = NoTasks /\ attached' = FALSE
    /\ removal' = IdleRemoval
    /\ UNCHANGED <<rows, images, submit, async, start, reloads>>

\* importData: images, then rows, from which the list is read.  The task comes
\* as it was exported, even when it was running.
ImportData(t, kind, input, status) ==
    LET r == [NewTask(kind, input) EXCEPT !.status = status,
                  !.outs = IF status = "done" THEN {Out(t)} ELSE {}]
    IN  /\ UserFree /\ removal.pc = "idle"
        /\ t \in Backup /\ ~Exists(tasks, t) /\ ~Exists(rows, t) /\ exec[t] = "idle"
        /\ images' = images \cup ImagesOf(r)
        /\ rows' = [rows EXCEPT ![t] = r]
        /\ removal' = [IdleRemoval EXCEPT !.pc = "import", !.snapshot = rows']
        /\ exec' = [exec EXCEPT ![t] = "gone"]
        /\ UNCHANGED <<tasks, attached, submit, watchdog, partial, recovery, cleanup,
                       start, reloads, crossed>>

ImportList ==
    /\ removal.pc = "import"
    /\ tasks' = removal.snapshot
    /\ removal' = IdleRemoval
    /\ UNCHANGED <<rows, images, attached, submit, async, start, reloads>>

-----------------------------------------------------------------------------
(* A reload of the page, and runInitStore. *)

\* Memory, timers and functions under way are lost; the composer persists.
Reload ==
    /\ reloads < MaxReloads
    /\ reloads' = reloads + 1
    /\ tasks' = NoTasks
    /\ submit' = "idle"
    /\ exec' = [t \in Tasks |-> IF Exists(rows, t) THEN "gone" ELSE "idle"]
    /\ watchdog' = {}
    /\ partial' = [t \in Tasks |-> NoPartial]
    /\ recovery' = [t \in Tasks |-> "idle"]
    /\ cleanup' = {}
    /\ removal' = IdleRemoval
    /\ start' = [Started EXCEPT !.pc = "read"]
    /\ UNCHANGED <<rows, images, attached, crossed>>

StartRead ==
    /\ start.pc = "read"
    /\ start' = [start EXCEPT !.pc = "mark", !.snapshot = rows]
    /\ UNCHANGED <<tasks, rows, images, attached, submit, async, removal, reloads>>

\* markInterruptedOpenAIRunningTasks: all but fal tasks and custom tasks with
\* a known remote task.
Interrupted(r) ==
    r.status = "running" /\ r.kind # "fal" /\ ~(r.kind = "custom" /\ r.request)

Mark(ts) == [t \in Tasks |-> IF Interrupted(ts[t]) THEN Failed(ts[t]) ELSE ts[t]]

\* Mutant: the marked tasks are not written back.
StartMarkUnsaved ==
    /\ start.pc = "mark"
    /\ start' = [start EXCEPT !.pc = "list", !.snapshot = Mark(start.snapshot)]
    /\ UNCHANGED <<tasks, rows, images, attached, submit, async, removal, reloads>>

StartMark ==
    /\ start.pc = "mark"
    /\ LET marked == Mark(start.snapshot)
       IN  /\ rows' = [t \in Tasks |->
                          IF Interrupted(start.snapshot[t]) THEN marked[t] ELSE rows[t]]
           /\ start' = [start EXCEPT !.pc = "list", !.snapshot = marked]
    /\ UNCHANGED <<tasks, images, attached, submit, async, removal, reloads>>

\* setTasks; recoveries of at most MaxAuto tasks, the young ones; the
\* referenced images are collected.
StartList ==
    LET ts == start.snapshot
        eligible == {t \in Tasks : Recoverable(ts[t])
                         /\ (ts[t].status = "running" \/ ts[t].recoverable)}
    IN  /\ start.pc = "list"
        /\ tasks' = ts
        /\ \E auto \in SUBSET eligible :
             /\ Cardinality(auto) <= MaxAuto
             /\ recovery' = [t \in Tasks |-> IF t \in auto THEN "timer" ELSE recovery[t]]
        /\ start' = [start EXCEPT !.pc = "keys", !.todo = Referenced(ts, attached)]
        /\ UNCHANGED <<rows, images, attached, submit, exec, watchdog, partial,
                       cleanup, removal, reloads, crossed>>

\* getAllImageIds: what was not referenced is to be deleted.
StartKeys ==
    /\ start.pc = "keys"
    /\ start' = [start EXCEPT !.pc = "sweep", !.todo = images \ @]
    /\ UNCHANGED <<tasks, rows, images, attached, submit, async, removal, reloads>>

\* The images of the composer are restored last; missing ones are dropped.
StartSweep ==
    /\ start.pc = "sweep"
    /\ \/ \E image \in start.todo :
            /\ images' = images \ {image}
            /\ start' = [start EXCEPT !.todo = @ \ {image}]
            /\ UNCHANGED attached
       \/ /\ start.todo = {}
          /\ start' = Started
          /\ attached' = (attached /\ In \in images)
          /\ UNCHANGED images
    /\ UNCHANGED <<tasks, rows, submit, async, removal, reloads>>

-----------------------------------------------------------------------------
User ==
    \/ Attach \/ Detach \/ SubmitStore
    \/ \E t \in Tasks : ReuseConfig(t)
    \/ \E t \in Tasks, kind \in Kinds : SubmitCreate(t, kind)
    \/ \E old, t \in Tasks, kind \in Kinds : RetryTask(old, t, kind)
    \/ \E dead \in SUBSET Tasks : RemoveStart(dead)
    \/ ClearRows
    \/ \E t \in Tasks, kind \in Kinds, input \in BOOLEAN, status \in Imports :
         ImportData(t, kind, input, status)
    \/ Reload

Executing(t) ==
    \/ Execute(t) \/ ReadInputs(t) \/ Enqueued(t) \/ Answered(t)
    \/ StoreOutputs(t) \/ DiscardOutputs(t) \/ Settle(t) \/ WatchdogFires(t)
    \/ \E lost \in BOOLEAN : Fails(t, lost)
    \/ \E image \in {Part(t), Out(t)} : PartialArrives(t, image)
    \/ PartialStored(t) \/ PartialRecorded(t)

Recovering(t) ==
    \/ Recover(t) \/ RecoverLost(t) \/ RecoverFails(t)
    \/ RecoverAnswered(t) \/ RecoverStores(t) \/ RecoverDiscards(t) \/ RecoverSettles(t)

Removing ==
    \/ \E t \in Tasks : RemoveScrub(t) \/ RemoveRow(t)
    \/ RemoveFromList \/ RemoveUnused \/ RemoveImage
    \/ ClearImages \/ ClearList \/ ImportList

Starting == StartRead \/ StartMark \/ StartList \/ StartKeys \/ StartSweep

Next ==
    \/ User \/ Removing \/ Starting
    \/ \E t \in Tasks : Executing(t) \/ Recovering(t)
    \/ \E image \in Images : CleanUp(image)

Spec == Init /\ [][Next]_vars

\* The page goes on with what it has begun: a promise that is resolved and a
\* timer that is due are served in the end.
Fairness ==
    /\ WF_vars(Removing) /\ WF_vars(Starting)
    /\ \A t \in Tasks : WF_vars(Execute(t)) /\ WF_vars(WatchdogFires(t))

FairSpec == Spec /\ Fairness

-----------------------------------------------------------------------------
(* Properties *)

Stage == [pc: {"none", "store", "record", "over"}, image: Images]

\* The variables keep their types: statuses, timers and the steps the
\* functions of store.ts are at.
TypeOK ==
    /\ tasks \in [Tasks -> TaskRecord]
    /\ rows \in [Tasks -> TaskRecord]
    /\ images \subseteq Images
    /\ attached \in BOOLEAN
    /\ submit \in {"idle", "plain", "input"}
    /\ exec \in [Tasks -> {"idle", "submitted", "inputs", "call", "store", "settle", "discard",
                        "gone"}]
    /\ watchdog \subseteq Tasks
    /\ partial \in [Tasks -> Stage]
    /\ recovery \in [Tasks -> {"idle", "timer", "ask", "store", "settle", "discard"}]
    /\ cleanup \subseteq Images /\ crossed \subseteq Tasks
    /\ removal \in [pc: {"idle", "scrub", "rows", "images", "clear images", "clear list",
                         "import"},
                    dead: SUBSET Tasks, snapshot: [Tasks -> TaskRecord],
                    attached: BOOLEAN, images: SUBSET Images]
    /\ start \in [pc: {"read", "mark", "list", "keys", "sweep", "ready"},
                  snapshot: [Tasks -> TaskRecord], todo: SUBSET Images]
    /\ reloads \in 0..MaxReloads

\* Every image a listed task refers to (its input, outputs and partial images)
\* is in IndexedDB: no removal, clean-up or start-up sweep deletes an image a
\* task still uses, while the executions and recoveries of all tasks go on.
\* Crossed tasks are excepted: the code loses images of theirs.
ReferencedImagesStored ==
    removal.pc # "clear list" =>
        \A t \in Tasks \ crossed : ImagesOf(tasks[t]) \subseteq images

\* Between removals, imports and start-ups the rows are the list: a late answer
\* for a removed task brings no row back, one that comes while rows and images
\* are deleted is in both, and what start-up decided is persisted.
RowsFollowList == Quiet => \A t \in Tasks \ crossed : rows[t] = tasks[t]

\* A finished task keeps its status and outputs whatever answer, timer or
\* partial image comes late, between whatever steps of a removal, an import or
\* a start-up; a failed one becomes done only by its recovery, and a removed
\* one does not return.
SettledStays ==
    [][\A t \in Tasks \ crossed :
         /\ tasks[t].status = "done" => tasks'[t] \in {tasks[t], NoTask}
         /\ tasks[t].status = "error" =>
               tasks'[t].status \in {"error", "none"}
                   \cup (IF recovery[t] = "settle" THEN {"done"} ELSE {})
         /\ (start.pc = "ready" /\ removal.pc # "import" /\ ~Exists(tasks, t)
                /\ exec[t] # "idle") => ~Exists(tasks', t)]_vars

\* A task with a single request ends: by its answer, its failure, the watchdog,
\* or, after a reload, by being marked as interrupted.  A crossed one may be put
\* back as running with nothing left to end it.
WatchedTaskEnds ==
    \A t \in Tasks :
        (rows[t].status = "running" /\ rows[t].kind = "single")
            ~> (rows[t].status # "running" \/ t \in crossed)

=============================================================================
