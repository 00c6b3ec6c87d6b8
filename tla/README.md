# Agent ImageFlow: a TLA+ model of the backend and the web client

Agent ImageFlow is a Go backend (`src/internal`, `src/cmd`) with a web client
(`src/web`). Agents and people ask it for images; a worker process calls image
providers, stores the files, registers them as assets, and people or an automatic
scorer select among them. The backend keeps its state in PostgreSQL, in Redis (queue,
delayed queue, task locks, rate counters) and on a local file system. Several API
processes, worker goroutines and command-line invocations act on that state at once, and
the only things between them are single SQL statements, a few transactions, Redis
commands and file renames.

The web client is more than a view of the backend. It can call image providers by
itself, and then runs its own tasks, conversations of an agent and a store of images in
IndexedDB; or it follows tasks of the backend and reviews their assets. Its code is
single-threaded, but every `await` lets other handlers, timers and late answers in, and a
reload may come anywhere.

The project models both: what two actors can do to each other between two statements of
the backend, and what a user, a request and a timer can do between two awaits of the page.

## Inventory

### Backend

| Component | State | Operations | What is hard about it |
|---|---|---|---|
| Task creation (`app/service.go` `CreateTask`, `RegenerateSceneTask`) | `generation_task` row | idempotency lookup, insert, enqueue, mark `enqueue_failed` | row and queue entry are written to two stores; two creators with one key |
| Queue (`queue/redis.go`) | list, delayed zset, lock keys with TTL | RPUSH, ZADD, promotion script, BLPOP, SETNX, DEL | a pop is destructive; a lock has no owner and no renewal |
| Worker loop (`cmd/worker/main.go`) | one popped id per goroutine | promote, pop, lock, process, unlock | a popped id is dropped on a lock conflict or a crash |
| Task execution (`ProcessTask`, `app/retry.go`) | `generation_task.status`, `task_attempt`, `asset` | number and insert attempt, start, generate, register, close, conclude, schedule retry | a dozen statements without a transaction; retries; partial results |
| Repair command (`app/repair.go`) | none of its own | scan, requeue, verify | acts on a status that may be stale |
| Asset review (`store/postgres.go` `ReviewAsset`, `LifecycleAsset`, `ApplyBestOfSelection`) | `asset.status`, `review_event` | approve, reject, archive, restore, best-of | read outside the transaction that writes |
| Asset files and cleanup (`storage/local.go`, `storage/governance.go`, `app/storage_governance.go`) | files and the rows that name them | store, dry run, execute, delete | two stores again; orphan detection races with storing |
| Provider requests (`generateWithProviderLimit`, `provider/*`) | limiter channel | split, acquire, request, release, combine | slots shared by tasks; partial failure |
| Scope administration (`store/postgres.go` `UpdateProject`, `Delete*`, profile updates) | `metadata_json` | rename, archive, set key, cascade delete | read-modify-write next to in-place updates |
| Final delivery mirror, rate limiter | directories; counters per window | stage, remove, rename; allow | not atomic; window boundary |
| HTTP API, MCP server, CLI, input files, thumbnails, audit log, migrations | | | front ends, I/O and projections |

### Web client (`src/web/src`)

| Component | State | Operations | What is hard about it |
|---|---|---|---|
| Tasks of the page (`store.ts`) | task list, its rows and the images in IndexedDB, timers | submit, execute, recover, remove, clear, import, start up | answers after a watchdog, removal or reload; images shared by tasks |
| Hosted tasks (`store.ts`, `lib/agentImageflowApi.ts`) | local record, shown asset statuses, poll timer | create, poll, review, reload | the server moves on; a list is patched from an old copy |
| Agent conversations (`store.ts`, `AgentWorkspace.tsx`, `lib/agentApi.ts`) | tree of rounds, executions, image cards | send, edit, regenerate, stop, delete, switch branch | executions run on over what the user changed |
| Drafts and stored conversations (`store.ts`) | composer, drafts, localStorage, IndexedDB | type, switch, persist, restore | one composer for many places; two stores read at different times |
| Thumbnails (`store.ts`, `TaskCard.tsx`, `lib/db.ts`) | queue, jobs, cache, subscribers | mount, pick, make, announce | lost wakeups |
| Provider calls (`lib/api.ts`, `lib/openaiCompatibleImageApi.ts`, `lib/falAiImageApi.ts`) | requests of a call | fan out, stream, poll, download, join | partial failure; position of results |
| Asset library, reviews (`ServerAssetLibrary.tsx`, `ProductionViewModal.tsx`, `lib/reviewFeedback.ts`) | lists, pending marks | filter, page, review | optimistic marks and answers in any order |
| Scope manager (`ScopeManagerModal.tsx`), project context (`ProjectContextModal.tsx`) | trees and documents of the server | choose, rename, delete, clean up; bind, archive, save | readings that overtake edits; whole-document saves |
| Favourites (`FavoriteCollections.tsx`) | collections, their tasks | create, delete, move, pick | deletions over awaits |
| Input bar, mask editor (`InputBar.tsx`, `MaskEditorModal.tsx`) | images, mentions, mask, canvas history | add, move, replace, draw, undo | positions as names; two pointers |
| Settings (`SettingsModal.tsx`, `lib/apiProfiles.ts`) | profiles, managed scope | edit a draft, commit it whole | what else changed meanwhile; incomplete drafts |
| Detail view, lightbox, header, history, login, sizes, downloads | | | presentation |

`PROJECT.json` lists the components with their status and, under `hazards`, each place
where the code can go wrong in a way a test would hardly reach.

## Modules

| Module | Subject | Checked by |
|---|---|---|
| `TaskPipeline`, `TaskLifecycle` | creation to final status; the abstract lifecycle it implements | `pipeline_*`, `repair_duplicates` |
| `AssetReview` | rows and review events | `review_rows`, `reviews_finish` |
| `AssetStorage` | files against rows | `storage_files` |
| `WebTasks`, `WebThumbs` | tasks the page runs, thumbnails | `web_tasks`, `web_ends` |
| `WebHosted`, `WebAgent`, `WebDrafts`, `WebCalls` | tasks on the server, the agent, drafts, one provider call | `web_client`, `web_ends` |
| `WebLibrary`, `WebReviews`, `WebScopes`, `WebContext`, `WebFavorites`, `WebInput`, `WebMask`, `WebProfiles`, `WebManaged` | one panel or window each | `web_panels`, `scope_of_defaults` |
| `TaskPipelineProofs`, `TaskPipelineCopyProofs` | theorems about the pipeline | |
| `AssetReviewProofs`, `AssetStorageProofs` | theorems about assets and files | |
| `WebTasksProofs`, `WebClientProofs`, `WebPanelsProofs`, `WebProfilesProofs` | theorems about the web client, one module per run, and one for the profiles | |

The MC modules give the constants their values and, for the web client, put several
modules into one run. What could follow: idempotent task creation as an implementation
of "one task per key".

## TaskPipeline

One action is one effect another process can observe: one SQL statement or transaction,
or one Redis command. What a process has read and not used yet is in its record.

### State

| Variable | In the system |
|---|---|
| `status` | `generation_task.status`, `"none"` before the row exists |
| `attempts` | `task_attempt` rows of a task in insertion order: number, status, whether `retry_after` is set |
| `assets` | assets of a task, each named by the attempt row and the index of the file it came from |
| `list` | the Redis list `queue:image_generation` |
| `scheduled` | the zset of delayed ids; a score is only *waiting* or *due* |
| `lock` | which worker set `task:{id}:lock`. The key holds `"1"`, so the owner is a history variable: no guard reads more than whether the key exists |
| `pc`, `job` | where each worker is in `runWorker`/`ProcessTask`, and its locals |
| `client` | each API handler or repair command between its effects |
| `repairs` | how many repair requeues there have been (bounded) |

### Actions

Producers: `InsertTask`, `Enqueue`, `EnqueueFails`, `MarkTaskEnqueueFailed` are
`CreateTask` (scene regeneration inserts through it); `RepairLoad`, `RepairReset` and
the same enqueue are `RepairRequeueTask`; `ClientStops` is a crash or an error return.
Redis alone: `BecomeDue`, `ExpireLock`. Worker loop: `PromoteScheduled`, `Dequeue`,
`DequeueTimesOut`, `LockTask`, `SkipTask`, `UnlockTask`, `WorkerCrashes`. A promotion
whose reply is lost needs no action of its own: the worker polls again and promotes
nothing. `ProcessTask`: `LoadTask`, `NumberAttempt`, `InsertAttempt`, `StartTask`,
`Generate`, `RegisterFile`, `CloseAttempt`, `ConcludeTask`, `FailAttempt`, `FailTask`,
`StatementFails`. `scheduleRetry`: `RetryAttempt`, `RetryStatus`, `RetryEnqueue`,
`RetryEnqueueFails`, `RetryMark`.

The status updates have no condition on the old status, as in the code. The provider is
a choice: any number of files up to `MaxFiles` with no error, an error that
`isRetryableProviderError` accepts, or another one, together in any combination since a
split request can return both. Storing a file and inserting its rows is one action; the
files are the subject of AssetStorage. `status = "enqueue_failed"` is processed like
`queued`, as in the code, which only refuses terminal states.

### Faults

`Faults` says what the environment may do: `crash`, `redis_error` (not applied),
`lost_reply` (applied, but reported as an error), `store_error` (a failing statement,
also a context cancelled by SIGTERM), `overrun` (a run outlives the lock's TTL) and
`slow_unlock` (a delayed retry comes due before its worker has unlocked). The last two
are timing assumptions: TTL and retry delay are minutes and seconds, so the passing runs
exclude them; "What the code leaves open" says what happens when they occur.

### Runs

| Run | Instance | Shows |
|---|---|---|
| `pipeline_faults` | 2 tasks, 2 workers, 2 handlers, 2 images asked, up to 2 returned, 1 retry, promotion batch 1; crash, redis_error, store_error | `TypeOK`, `AtMostOneCopy`, `OneAttemptDelivers`, `ImplementsLifecycle` |
| `pipeline_clean` | the same without faults, `FairSpec` | `NeverForgotten`, `SettledClosesAttempts`, `EveryTaskSettles` |
| `pipeline_repair` | 1 task, 2 workers, 2 handlers, 2 repairs, every fault but the two timing ones | `ExclusiveProcessing` |
| `repair_duplicates` | 1 repair, no fault | violates `OneAttemptDelivers` |

`ImplementsLifecycle` is a refinement: `TaskLifecycle` knows only the status of a task,
how often it was tried and how many images it has, and TLC checks that every step of the
pipeline is one of its steps or leaves those three alone.

**Bounds.** Two tasks are enough for a promotion batch of 1 to leave something behind and
for a worker to be busy while another id waits. Two workers and a repair are enough for
every conflict on one lock. One retry distinguishes the first, the last allowed and the
attempt after it. Up to two files of two requested give none, some and all. In
`pipeline_faults` an id has one copy, so the lock is never contended; `pipeline_repair`
gives up a second task to have the same id several times. Two repairs give three copies.

**Fairness.** `FairSpec` is weakly fair to each worker's loop, to the rest of a handler
that has begun, and to time (`BecomeDue`, `ExpireLock`). Goroutines are scheduled by the
Go runtime, handlers run to their end, and Redis moves on with the clock. There is none
for creating or repairing a task. A worker that is at `generate` returns: adapters use HTTP
clients with timeouts. A fair worker never blocks on a lock, because a conflict drops the id.

### What the violation means

`RepairRequeueTask` reads the status and later sets `queued` unconditionally. A task that
was `running` at the read and has completed since is reopened and processed again; the
terminal check at the start of `ProcessTask` cannot help, because the status is no longer
terminal. The scan only proposes stale tasks, but the requeue does not check the age.

### What the code leaves open

* With `overrun`, a run that outlives the lock's TTL shares its task with the next worker:
  nothing renews the lock, and the first worker's DEL removes the second one's.
* With `slow_unlock`, `scheduleRetry` publishes the delayed id before the lock is released;
  the popped id finds the lock, is skipped, and the retry is gone.

## AssetReview

The rows of the assets that one run of the worker registers, and everybody who changes
their status. PostgreSQL is used at READ COMMITTED with no `SELECT ... FOR UPDATE` except
in cleanup.

### State and actions

| Variable | In the system |
|---|---|
| `status` | `asset.status`; `"none"` before registration, `"deleted"` after cleanup |
| `events` | committed `review_event` rows: the action, and whether `auto-best-of` wrote it |
| `request` | what a reviewer or administrator has validated and not written yet |
| `worker` | registration, then `ApplyBestOfSelection`: the asset it has read, the siblings to do, the rows it has updated and still locks |
| `cleaner` | the statuses a cleanup was asked for and the candidates it has left |

`ReviewRead`/`ReviewWrite` are `ReviewAsset` and `LifecycleAsset` (approve, reject, archive,
restore). The update is by id alone, so it waits for the row's lock and then overwrites
whatever is there; if the row is gone the foreign key of the event fails the request.
`Register` is `InsertAssetWithVersion`; `Score` the choice of the best candidate, which only
reads; `BestOfRead`, `BestOfWrite`, `BestOfCommit`, `BestOfFails` are
`ApplyBestOfSelection`. With no siblings to reject they are also the plain `ReviewAsset`
the worker calls when it only approves. `CleanupList` is the dry run that `CleanupExecute` repeats,
`CleanupCandidate` is `DeleteCleanupAssetCandidate`. Requests, the worker and a cleanup may
stop at any step.

Abstracted: nothing in the code sets `published`, so it is no status here. The filters and
the limit of a cleanup only shorten its list. A worker that runs a task again registers
other assets, so one selection suffices. The dry-run token decides whether a cleanup
starts, not what it does; `--confirm` starts it without one. Cascading deletes of scopes are
not in this module.

### Runs

| Run | Instance | Shows |
|---|---|---|
| `review_rows` | 2 assets, 2 reviewers, 1 cleanup at a time | `TypeOK`, `EventsMatchRow`, `BestOfAllOrNothing`, `ApprovedIsKept`, `ArchivedIsKept` |
| `reviews_finish` | 2 assets, 1 reviewer, 1 cleanup, `FairSpec` | `EveryoneFinishes` |

**Bounds.** `MaxEvents` stops new requests on an asset with so many events; requests under
way and the selection can still add theirs. Two events are needed to archive and restore.
Two reviewers give a stale writer and one that made it stale. A selected asset and one
sibling are enough for a selection that is half done; the theorems hold for any number.

**Fairness.** `FairSpec` lets begun requests, the selection and begun cleanups go on, as
goroutines and the command do; nobody must begin anything. The waiting ends because
every path of `ApplyBestOfSelection` ends in a commit or the deferred rollback.

### What the code leaves open

* `LifecycleAsset` validates a row it read before its transaction, so an approval in between
  is overwritten by the archive. `EventsMatchRow` still holds: the log then shows an archive
  after an approval, which the transition rules forbid.
* The selection locks only rows it updates. A candidate that already has its target status
  is left unlocked, and a reviewer who changes it before the commit leaves no selected
  asset, or two. Both are steps of the model, and no invariant excludes them.

## AssetStorage

Where the files of an asset and its rows meet: `StoreGeneratedFile` and the insert that
follows it, the cleanup command, and the deletion of a campaign. A file system and a
database share no transaction, and none of the three asks whether another is running.

### State and actions

| Variable | In the system |
|---|---|
| `row` | `asset` with its `asset_version`: `"unselected"` stands for every status a cleanup may delete, `"selected"` for the protected one (AssetReview has the statuses themselves) |
| `final`, `tmp`, `tmpDirs` | which of the three files of an asset exist in their final place and under `tmp/`, and whether its directory under `tmp/` does |
| `writer` | where the storing of an asset is and at which of its files |
| `cleaner` | the options of a cleanup, the paths it has read, the candidates it has left |
| `campaign` | `"live"`, rows deleted, directory deleted |
| `taken` | history: final files a cleanup of orphans removed that had not seen their asset |

`WriteTmp`, `Rename`, `InsertAssetWithVersion`, `WriterStops` are `StoreGeneratedFile` and the
insert; the thumbnail encoder is external and only needs its input. `Review` is a reviewer or
the automatic selection. `CleanupBegin`, `ListKnownAssetFilePaths`, `WalkDirectory` are
`CleanupDryRun`, in the code's order: asset rows, known paths, then `metadata`, `originals`,
`thumbnails`, `tmp`. `CleanupAsset`, `CleanupAssetFile`, `CleanupFile` are the deletions of
`CleanupExecute`, assets before files; `CleanupEnds` is also a dry run that is not followed by
an execution. `DeleteCampaignRows` is the cascading transaction (a worker's insert that slips
between its statements makes it fail, which changes nothing), `DeleteCampaignScopeData` the
removal of the directory.

Abstracted: the walk of one directory is one step, and so is the removal of the campaign's
directory. Limits and filters shorten a candidate list. Asset ids are fresh, so two workers
never write the same files and one writer per asset stands for any number of workers.

### Runs

| Run | Instance | Shows |
|---|---|---|
| `storage_files` | 1 asset, 2 cleanups | `TypeOK`, `RowHasFiles` |

**Bounds.** Assets meet only in the candidate list of a cleanup, which handles them one after
the other; what can go wrong is between one asset and several processes, so the instance
spends its states on two cleanups. The theorem has any number of both. All counters are the
code's own (three files).

### What the code leaves open

A cleanup of orphans reads the known paths, then walks the directories. An asset that is
renamed into place before the walk and registered after the read is taken for an orphan,
and its files are deleted without asking the database again, although it may have been
selected since. `taken` records such files, and `RowHasFiles` says that this is the only
way to lose one.

## Web client

JavaScript runs to the next `await`, so an action of these modules is what one function
does between two of them, or one handler, or one timer. A request to a server is an action
of the page that sends it, an action of the server where its state matters, and one that
reads the answer. A write to IndexedDB takes effect when it is issued: the transactions of
one connection run in the order they are made. A reload drops everything but
localStorage, IndexedDB and the server, and may come between any two actions.

Most modules have state of their own and meet only in what they store, so their runs put
several of them side by side: `focus` chooses one at the start, and a behaviour follows
that one while the rest keep their initial state. As they share no variable, this loses no
behaviour of any of them.

### The page's own tasks: `WebTasks`, `WebThumbs`

`tasks` and `rows` are the list in memory and the store `tasks` of IndexedDB, `images` the
store of images, named by the hash of their content, so that a streamed partial image can
be the output itself. `exec`, `watchdog`, `partial`, `recovery`, `cleanup`, `removal` and
`start` are the places of the asynchronous functions: `executeTask`, its watchdog,
`persistTaskStreamPartialImage`, the recoveries of fal and of custom jobs,
`deleteUnreferencedImageIds`, which decides once and deletes one image after the other,
`removeMultipleTasks`, `removeTask`, `clearData` and `importData`, `runInitStore`. The code
has no transaction and no lock over the list, the rows and the images; each function looks
again at the list after an await, or not, exactly as the actions do. A failure of storing
is a step as well: outputs stored before it are deleted, and the task fails or, when a fal
write was aborted, is asked for again.

`crossed` records the tasks the code itself mistreats. `removeMultipleTasks`, `importData`
and `clearData` read the list or its rows, await, and put back what they read, or nothing;
a task that was settled, recovered or changed in between gets its old state back, while
its images may be gone. The same holds of an output that fails to be stored while the
same image is just being kept as a partial one, or while a removal has still to delete
the row that names it, of a late partial image of such a task, and of a recovery that
stores during the sweep of a start-up.
Such a task, and a retry of it, is excepted from the properties; every other task is not.

* `ReferencedImagesStored`: no removal, clean-up or sweep deletes an image a listed task
  uses. `RowsFollowList`: a late answer brings no removed row back.
* `SettledStays`: no late answer, timer or partial image changes a finished task, also
  between the steps of a removal or a start-up.
* `WatchedTaskEnds`: a task with one request ends.

`WebThumbs` follows a card that asks for a thumbnail through the queue, the idle tick and
the jobs to the cache. `QueueIsServed` says that no wakeup is lost, although a tick may
pick nothing, a job may fail and pictures are deleted meanwhile.

### Tasks on the server: `WebHosted`

One task from upload through creation to polling, with the server's worker and other
reviewers as the environment. `shown` is the list of assets on the page, which reviews
patch from a copy that may be old. `ShownWasServers`: a status on the page is one the row
has had. `HostedTaskEnds`: polling ends, by an answer or by `MaxPolls`.

### Agent conversations: `WebAgent`

`rounds` is the tree, `runs` the executions of `executeAgentRound`, `controller` the abort
controllers by round, `cards` the image tasks of a run. The user sends, regenerates,
stops, deletes and switches branch between any two awaits of the executions; the model
answers with text, an image call or a batch, and a reload fails what was running. An image
may be impossible to store: the callback rejects and the call fails, or the card of a batch
does. `seen` says whether the start of the image tool was streamed: an image completes the
card of that call, or gets a new card at the end when none was seen (`store.ts:4489`).

* `RunningIsExecuted`: nothing spins without an execution that will settle it.
* `RoundsAreATree`: parents are listed and older, and the active round is listed.
* `StoppedRunEnds`: a stopped execution ends, unless it waits for the model itself: the
  abort then reaches it only if the provider's stream does.

### Drafts: `WebDrafts`

One composer serves the gallery and every conversation. `saved` is localStorage, written
on every `set`; `stored` the conversations in IndexedDB, written by a loop (`flush`) that
restarts when they changed meanwhile. `typed` is a history variable: what the user typed
where. `TypedIsKept` compares it with the composer, the drafts and localStorage;
`ConversationsAreStored` is what the loop promises when it rests.

### Provider calls: `WebCalls`

A call is one of six kinds and becomes one request or several, each with a timer, a
reply, a stream, or a job to poll, and downloads. Which image belongs to which request is
kept as a pair. `ImagesKeepTheirPrompts`: whatever fails and in whatever order, images and
their details stay beside each other and in the order of the requests, and exactly the
requests without an image are blamed.

### Panels and windows

| Module | State | What it promises |
|---|---|---|
| `WebLibrary` | query, debounce timer, requests, list | `ListedIsAsked`: a settled list belongs to the query above it |
| `WebReviews` | server rows, two panels, optimistic marks, requests | `PendingIsAwaited`: every mark has a request under way |
| `WebScopes` | server scopes, settings, trees of two readers, clean-up | `CleanupIsPreviewed`: a clean-up runs for the scope that was previewed |
| `WebContext` | documents of the projects, one page, requests | `OneBindingPerUse`: no project binds an asset twice for one use |
| `WebFavorites` | collections, cards, rows, a drag, deletions over awaits that may fail | `FavoritesRefer`: default and opened collection exist, and selected ones but for those named below |
| `WebInput` | images, prompt in the store and in the page, mask | `MentionsFollowImages`: a mention names the image that was meant |
| `WebMask` | canvas, undo and redo, pointers | `HistoryIsOneLine`: undo and redo walk one line of canvases |
| `WebProfiles` | settings, draft, imports, prompts | `ProfilesAreKept`: no profile or entered connection is lost, but for two commits named below |
| `WebManaged` | draft and settings scope, readings, creations | `OnlyCommitsFill`: only a commit of another setting breaks `ScopeWasWhole`, that the settings only get a complete scope |

In three of them the code loses something, the model takes the step, and the property says
that it is the only way:

* `FavoritesRefer`: a deletion that fails skips the line that unselects its collection and
  the rest of its batch (`store.ts:5153`, `5169`, `InputBar.tsx:660`), and a drag rebuilds
  the selection from the one it began with (`useDragSelect.ts:42`), deleted ids
  included. `stray` records what was left selected in these two ways.
* `ProfilesAreKept`: every commit writes the draft of the window. One after the configured
  import came into an open window takes the import out again, and the answer of a browser
  prompt commits the draft of its click, so what was done since to the profiles it changes
  is undone (`SettingsModal.tsx:686`). `entered` follows what these commits say.
* `MentionsFollowImages`: a replacement whose image was removed while its file was read
  takes the image that has the position by then (`InputBar.tsx:1344`), and the mentions of
  that image follow it. The user chose neither; the property does not call it wrong.

`typed`, `origin`, `entered`, `stray`, `crossed`, `wholes` and the `of` of a mention are
history variables: the code has no counterpart of them. A list is the set of what is in it unless
its order matters; texts, names and connections are members of small sets.

### Runs

| Run | Instance | Properties |
|---|---|---|
| `web_tasks` | 2 tasks, of kinds `single` and `fal`, one of them only to come from a backup, running or done (`Backup`), 1 automatic recovery, 1 reload; 2 pictures, 1 card, 2 jobs at once, cache, queue and background budget of 1 | `ReferencedImagesStored`, `RowsFollowList`, `QueueIsServed`, `SettledStays` |
| `web_client` | 2 assets, 1 upload, 2 polls, 2 reviews; 3 rounds, 2 executions, 2 turns, 1 tool call; 2 conversations, 1 text, 1 reload; 1 or 2 images asked for, 2 items, 1 repeated poll | `ShownWasServers`, `RunningIsExecuted`, `RoundsAreATree`, `TypedIsKept`, `ConversationsAreStored`, `ImagesKeepTheirPrompts` |
| `web_panels` | each panel with 1 to 3 of its objects and 1 to 6 actions of the user; two files and two replacements read at once; two deletions at once, from no collections or two that an earlier session left (`Saved`) | the nine of the table above |
| `web_ends` | 1 task of each sort, 2 rounds, 1 execution, fairness | `TasksEnd`, `StoppedRunEnds` |
| `scope_of_defaults` | the settings window alone | violates `ScopeWasWhole` |

**Bounds.** Two tasks are needed for an image that one removes and the other uses, and two
are enough: the code treats the rest one by one. One reload shows every state a start-up
can find; a second finds no other. Three rounds and two executions give a branch, its
sibling and an execution that outlives a deletion. A queue, a cache and a budget of one
are full at once, so that their limits are reached. Two requests under way can be
answered in either order, which is all the guards against old answers distinguish. Two deletions of collections with a task in common overlap in every order, which three clicks
(`MaxClicks`) allow because the collections are there from the start.
The remaining bounds (`MaxActs`, `MaxClicks`, `MaxInputActs`, `MaxStrokes`, `MaxEdits`,
`MaxManaged`) limit the user; each mutant of a panel's code is found well within them.
`CHECK_DEADLOCK FALSE` is set because these bounds stop the user while the program only
waits. The runs of the web client use no symmetry: the
tasks of `web_tasks` differ (`Backup`), and `web_ends` checks liveness.

**Fairness.** `WebTasks.Fairness` is weak: for what the page does by itself (removals,
start-up), for the first step of an execution, and for the watchdog of a task. A promise
that is resolved and a timer that is due are served in the end, and no step of another
function disables them for good. `WF(Page)` of `WebHosted` covers its timers and
requests, since `fetch` settles by an answer or an error. `Awaited` of `WebAgent` covers
every step but the model's answer: a stream that stays open has no time limit.

### What the constants exclude

Some properties hold only of users or servers that leave a window alone. A constant says
so in each case, and giving it the other value makes TLC find the violation.

* `Orderly` (`WebTasks`): the user starts nothing else during a removal, a clearing, an
  import or the start-up; executions, partial images, recoveries and clean-ups go on.
  `removeMultipleTasks` and `clearData` compute what is still referenced, await, and then
  delete by what they computed (`store.ts:5322`, `5375`, `5428`); `runInitStore` replaces
  the list by what it read before (`store.ts:2577`). An image attached or a task submitted
  in between loses its image or its place in the list.
* `OneAtATime` (`WebAgent`): a message is sent for the active round as it was before the
  mask was stored (`store.ts:3833`); a round deleted meanwhile leaves the new one without
  its parent.
* `QuietStart` (`WebDrafts`): the drafts read at the start of the restoration are put back
  at its end over what was typed (`store.ts:2727`).
* `Hasty` (`WebLibrary`): "load more" while the list is read again takes the place of that
  reading and appends a page of the new query to the list of the old one
  (`ServerAssetLibrary.tsx:600`).
* `InMemory`, `Retyped` (`WebInput`): `reuseConfig` reads images and mask over awaits, and
  an event of the user between them meets inputs that are half those of the task
  (`store.ts:5233`); an input event that leaves the text as it was is still marked as the
  user's, and the next change of the store is not drawn into the page.
* `LostPictures` is empty (`WebInput`): `reuseConfig` leaves out an image that cannot be read
  any more, and puts back the prompt with the numbers the images had (`store.ts:5238`).
* `OneHand` (`WebMask`): undo or clear while a stroke is drawn.
* `EveryItemHasImage` (`WebCalls`): a completed event of an image stream without an image
  shifts the prompts listed beside the images (`openaiCompatibleImageApi.ts:397`).

### What the violation means

`scope_of_defaults`: the window keeps an incomplete scope in its draft and commits it only
when it is complete (`commitManagedScopeIfComplete`). A commit of any other setting while
it is incomplete writes the whole draft, and `normalizeSettings` fills the empty ids with
those of the sample scope (`SettingsModal.tsx:948`): the page then works in a scope nobody chose, while
`slice-031-web-ux-atomic-scope-switching.md:63` in `docs/project/stories` says that an
incomplete scope never enters the store. `preservePersistedManagedScopeIfIncomplete` guards
against this only when the window closes. `OnlyCommitsFill`, which `web_panels` checks and
`OnlyThatCommitFills` proves, says that there is no other way: no reading, choice, typing,
creation or closing fills a scope.

### Steps taken together

`ImportFile` of `WebProfiles` is the end of `importData`: the settings are read, merged and
put into the draft there without an await, and what comes before touches no settings; an
import that ends after its window was closed is left out. Writes of one row of IndexedDB
under way are taken together in `WebFavorites`, and a task is removed in one step there;
how, is in `WebTasks`. The deletion of a scope in `WebScopes` acts on the settings captured
when its dialog was opened, and `normalizeSettings` fills the ids that were cut off with
those of the sample (`NormalScope`).
## What is proved

`TaskPipelineProofs` proves, for any finite set of tasks, any workers and handlers, any
bounds and any set of faults, under `PipelineAssumption`:

* `TypesAreCorrect`: `Spec => []TypeOK`. The inductive invariant is `TypeInv`, which adds
  that the attempt numbers of a task have a maximum: without it the `MAX` that
  `NumberAttempt` reads would have no value and the number no type.
* `ExclusionHolds`: `Spec => []ExclusiveProcessing`. The invariant is inductive given
  `TypeInv`: a worker enters `Processing` only through SETNX on a free key; another
  worker's DEL is of a key that worker owns; without `overrun` the TTL removes only keys
  whose owner has left.
* `NumberingHolds`: `Spec => []AttemptsNumbered`. The invariant is `NumberInv`: the numbers
  are the positions of the rows, and a worker between the two statements of
  `CreateAttempt` holds the number of the next row. It is inductive only with
  `ExclusiveProcessing`: without the lock another worker could insert in between.

One lemma per action carries each conjunct; `SameDb`, `SameRedis`, `SameWorkers` and
`SameClients` dispose of what an action leaves alone.

`TaskPipelineCopyProofs` goes on from there. A state with
`repairs = 0` is one in which the repair command has not been used; what it breaks is shown by
`repair_duplicates`.

* `OneCopyHolds`: `Spec => [](repairs = 0 => AtMostOneCopy)`, and from it
  `OneAttemptHolds`: `Spec => [](repairs = 0 => OneAttemptDelivers)`, both under any faults.
  Each step moves the copy of an id from one place to another, or drops it; none makes
  one. Whoever has the only copy is alone at the task, with or without its lock, so a
  task that has images gets no further attempt that could deliver.
* `NumberingNeedsNoLock`: attempts are numbered 1, 2, 3, ... while `repairs = 0`, also when runs
  outlive their locks: the single copy does what the lock is for.
* `SettledHolds`: `"store_error" \notin Faults => (Spec => [](repairs = 0 => SettledClosesAttempts))`.
  A worker closes its attempt before it concludes the task, and the invariant names the
  two statements between which an attempt may be open.
* `NeverForgottenHolds`: `Faults \subseteq {"overrun"} => (Spec => [](repairs = 0 => NeverForgotten))`:
  an id is dropped on a lock conflict, and with a single copy there is none.
* `LifecycleHolds`: the refinement, `Spec => ImplementsLifecycle`, without lost replies and
  repair. Every statement maps to one step of `TaskLifecycle` or to none: tries are the
  attempts inserted, images the rows of `asset`. The invariant is that of the copies
  together with what each step of a worker has already written.

`AssetReviewProofs` proves for any sets of assets, reviewers and cleanups and without the
bound on events mattering:

* `ReviewTypesAreCorrect`: `Spec => []TypeOK`, with the invariant that a best-of
  transaction about to write has read an asset.
* `EventsExplainStatus`: `Spec => []EventsMatchRow`. Inductive given the types: each action
  that sets a status appends the event that explains it (`LogExtended`), or leaves both.
* `BestOfIsAtomic`: `Spec => []BestOfAllOrNothing`. Inductive: only the commit adds an
  automatic event, and it also ends the worker's part for good.
* `ApprovedIsNeverCleaned`, `ArchivedIsNeverCleanedUnasked`: `Spec => ApprovedIsKept` and
  `Spec => ArchivedIsKept`. `DeletedByCleanup` says the only step that deletes is a cleanup
  that has found an allowed status under the lock; for archived assets the invariant
  `QueueAsWanted` adds that a candidate was listed with a status that was asked for.

`AssetStorageProofs` proves for any sets of assets and cleanups:

* `StorageTypesAreCorrect`: `Spec => []TypeOK`, inductive by itself.
* `RowsHaveFiles`: `Spec => []RowHasFiles`. `FileInv` adds what each process is about to do:
  a writer that inserts has placed all three files (`FilesPlaced`) and its asset has no row
  yet; a cleanup removes an asset's files only with the row deleted (`DeletedBeforeFiles`) and
  an orphan only if it has not seen its row (`OrphansAreUnknown`); and no row is left, nor can
  one be inserted, once the campaign's rows are deleted (`GoneWithCampaign`).

### The web client

Nothing below assumes fairness, and nothing bounds the sets of tasks, images, rounds,
conversations, assets or requests. Some theorems have a hypothesis on a constant that
says how the user behaves; it is the value the constant has in the runs, and the comment
of the constant says what the code assumes there.

`WebTasksProofs`, about the tasks of the page and their thumbnails:

* `TasksType`, and `TasksTypesHold` for the run: `TasksSpec => []TasksTypeOK`.
* `ImagesHold`, `RowsHold`: `Orderly => (Spec => []ReferencedImagesStored)` and the same of
  `RowsFollowList`. Both follow from `PageInv` (`PageHolds`), which ties the task, its row,
  its execution, its partial image and its recovery together, and says of a removal, an
  import, a start-up and a clean-up what it has still to delete or to put back, for every
  task that is not `crossed`. It is needed because a late answer stores an image first and
  updates its task later, so that in between only the execution refers to the image, and
  because images decided on are deleted one by one: an image in `cleanup` is not one that a
  function under way will refer to. `Orderly` restrains the user alone.
* `SettledHolds`: `Orderly => (Spec => SettledStays)`, an action property, from `PageInv`:
  every handler that may come late looks at the status of its task, and the one that does
  not, the recovery, has a failed task before it, whichever step a removal, an import or a
  start-up is at.
* `ThumbsHold`: `ThumbsSpec => [](ThumbsTypeOK /\ QueueIsServed)`. The invariant adds why a
  card may wait: its picture is queued or in a job; a picture that is being made has a
  job; what is cached is stored.
* `TasksRunHolds`: all of these properties of `TasksSpec`, the specification that the run
  checks, when `Orderly` holds. A step of the run is one of the page or of the thumbnails
  and leaves the other alone, so a behaviour of the run is one of both specifications.

`WebClientProofs`, about hosted tasks, drafts, the agent and the calls of providers:

* `ShownWasOnceTrue`: `HostedSpec => []ShownWasServers`. The invariant says of every list
  under way (the server's rows, the answer of a poll, the copies that reviews took before
  their requests) what the property says of the page. A step of the server only adds to
  the history of a row, so lists may be arbitrarily old.
* `ConversationsWereStored`: `DraftsSpec => []ConversationsAreStored`. The property speaks
  of a loop that rests; the invariant adds what the loop remembers: at rest its last batch
  is what is stored and what is shown, and a page that is starting remembers nothing. The
  second is needed for a start-up that finds no conversation: it lets the loop rest
  without a write, and only an empty store makes that right.
* `TypedHolds`: `QuietStart => (DraftsSpec => []TypedIsKept)`. The invariant says the same of
  every place the user is not at: its draft, in memory and in localStorage, is what was
  typed there, and an unknown conversation has none. While the page starts it says it of
  what has been read so far.
* `RunningHolds`: `AgentSpec => []RunningIsExecuted`. The invariant names, for a round or
  card that runs, the execution that will settle it, and lets a card of a batch run only
  in the two steps of that batch.
* `TreeHolds`: `OneAtATime => (AgentSpec => []RoundsAreATree)`. Parents are listed and
  older, so `getLatestAgentLeafId`, which walks to the newest child again and again, ends
  at a listed round; its recursion is handled by a least counterexample (`LeastExists`),
  the one form of induction the provers can take.
* `PromptsHold`: `EveryItemHasImage => (CallSpec => []ImagesKeepTheirPrompts)`. A request
  that succeeded has an image, and the items of a stream under way all have one; lemmas
  say that the joined lists have exactly the items of their pieces, in order, which
  carries position into prompt and parameters.
* `ClientTypesHold`: `ClientSpec => []ClientTypeOK`, the types of all four parts as the run
  composes them: a step is one part's and leaves the others alone. A part needs more than
  its types where something is counted: a poll is under way only while its attempt is
  within `MaxPolls`; an execution of the agent has one image and one batch in a turn, and
  a turn more only if the last answer asked for one before the last turn (`Budget`); a
  stream grows only while there is room. It is why `MaxTurns` may not be 0.
* `ClientRunHolds`: the six properties above of `ClientSpec`, the specification that the
  run checks, when `OneAtATime`, `QuietStart` and `EveryItemHasImage` hold
  (`RunFollowsParts`).

`WebPanelsProofs`, about the panels and windows:

* `OnlyThatCommitFills`: `ManagedSpec => OnlyCommitsFill`, an action property with no
  premise. `ScopeInv` says that what is recorded is complete, a complete draft is recorded,
  and what a reading or a creation will put into the draft is a scope: answers write the
  draft long after it was looked at. So every commit of the scope itself, and the closing of
  the window, stores a recorded scope, and only the commit of another setting can store one
  that is not, which is what `scope_of_defaults` shows.
* `MarksAreAwaited`: `ReviewsSpec => []PendingIsAwaited`. The argument is the code's
  `finally` blocks: whatever ends a request takes both marks of its asset with it, so a
  mark that remains is of another asset or panel, and its request is another one.
* `CleanupWasPreviewed`: `ScopesSpec => []CleanupIsPreviewed`. Every step that changes the
  selection, also a reading of the tree that returns late, drops the preview or finds a
  clean-up that is over; a selection the buttons take for complete is the selection.
* `LineHolds`: `OneHand => (MaskSpec => [](MaskTypeOK /\ HistoryIsOneLine))`. Undo stack,
  canvas and redo stack are one line of canvases, and the snapshot of a stroke that a
  pinch may take back is the last of the undo stack.
* `BindingsHold`: `ContextSpec => [](ContextTypeOK /\ OneBindingPerUse)` when the documents
  of earlier visits bind once per use. Every document anywhere does so: on the server,
  on the page, in an answer, in a save.
* `ListHolds`: `~Hasty => (LibrarySpec => []ListedIsAsked)`. The newest request is for the
  query of its moment, and older answers are not taken; `Hasty` users ask for more pages
  while the list is read again, and mix two queries.
* `FavoritesHold`: `FavoritesSpec => []FavoritesRefer`, for any number of deletions at once,
  any failures and any drag. A collection is listed once; what is selected is listed, is
  what a deletion under way is at, or was left by a failed one or by a drag (`stray`); and the
  selection a drag began with may be any.
* `KeptHolds`: `GoodImports => (ProfilesSpec => []ProfilesAreKept)`, in
  `WebProfilesProofs`. `DraftInv` is about the draft: its profiles have ids of their own
  and providers that exist, and each, once an empty field is completed, gives for every
  provider what was entered there (`AgreesWith`). `WindowInv` says that the settings, and the
  draft a prompt of the browser was opened with, are settings anything may start from
  (`Ready`), though they may be older than the draft, and that they are the draft while
  the window is closed. A commit of such an older draft makes it what counts as entered
  (`RecordedAgrees`): it is one of the two losses that the property allows. `GoodImports` says
  that an import carries a connection and a provider that exists or comes with it.
* `MentionsHold`: `Tidy => (InputSpec => []MentionsFollowImages)`. The text in the element
  of the page names the images as well as the prompt does, since every input event makes
  it the prompt; a change of the images remaps the mentions (`RemapFollows`) and is drawn
  into the element; and while the inputs of a task are read there is no mask that would
  come before its images. `Tidy` is what the run assumes (`InMemory`, not `Retyped`), with
  tasks whose mentions are of their own images and whose images are all still stored.
* `PanelsTypesHold`: `Fair => (PanelsSpec => []PanelsTypeOK)`, the types of all nine
  panels as the run composes them. Most of it are the invariants above with the counters
  and the shapes of what is under way; three parts needed an argument of their own. An
  answer has at most a page of rows and is cut off where the list is full
  (`WithPageTyped`), which is why the rows must be a finite set. The bar lists each
  image once, which every way of adding, moving, replacing and masking has to keep, also
  when the answer is late (`OnceListed`). The settings, the draft and the draft that a
  prompt of the browser has seen have an active profile and one connection per provider
  (`ProfilesTyped`, given `ProfilesInv`).
* `PanelsRunHolds`: of `PanelsSpec`, the five properties that need no restriction of the
  user: `PendingIsAwaited`, `CleanupIsPreviewed`, `OneBindingPerUse`, `FavoritesRefer` and
  `OnlyCommitsFill`, when earlier documents bind once per use. Each step of the run is a step of one panel and leaves the others'
  variables alone (`PanelsMove`), so the run follows each specification
  (`RunFollowsPanels`).

`Fair` collects the restrictions of the single theorems: earlier documents bind once per
use, `Tidy`, `OneHand` and `GoodImports`. It adds `ImagesOnce`: a task that is reused lists
each of its images once, as `addInputImage` (`store.ts:1317`) sees to when the task is
made. The constants of `WebPanels.cfg` satisfy all of it. Two assumptions on constants
came with these proofs: the rows of the library are a finite set, and a scene has at
least one image.

**Only model-checked.** Liveness (`EveryTaskSettles`, `EveryoneFinishes`, `TasksEnd`,
`StoppedRunEnds`): fairness and `ENABLED` are beyond the prover. Every other property of
the passing runs is stated by a theorem.
The violations are counterexamples and have nothing to prove.
The theorems about copies of an id in Redis push it as often as the code calls RPUSH: the
client library may itself send a command again after a lost reply (go-redis,
`MaxRetries`), which is a second copy that no module has.
`AttemptsNumbered` is proved, and was checked, but no run of this project states it.

## What is not modelled

* **HTTP API, MCP server, command line**: they decode a request, call an operation that is
  modelled and encode its result. Sessions and authentication keep no state the
  operations share.
* **Scene regeneration, idempotent creation**: the counting of regenerations and the
  lookup of a key before an insert are listed as hazards; the unique index settles both,
  and what remains is the error the loser sees.
* **Provider limiter and split requests, final delivery mirror, rate limiter**: local to
  one process or one directory; listed as hazards where they can go wrong.
* **`metadata_json`** of a project is read, changed and written as a whole by several
  handlers: listed as a hazard; `WebContext` models the same loss one level up, where the
  page writes a whole document.
* **Adapters, thumbnails of the server, input files, audit files**: input and output.
* **Batch summaries, story continuity**: read-only projections.
* **Migrations** run once; which pooled connection gets the unlock of the advisory lock is
  outside this code.
* **Presentation of the web client** (detail view, lightbox, header, history, login, size
  picker, downloads, exports): components that show state and call the operations above.
* **A second tab** of the web client shares IndexedDB and localStorage with the first. The
  code does not coordinate tabs at all, so every property about the two stores is one of a
  single tab.
