----------------------------- MODULE WebHosted -----------------------------
(***************************************************************************)
(* One task of the web client's managed mode: the browser stores a local   *)
(* record, uploads the inputs, creates the task on the server, polls it    *)
(* and lets the user select and reject its assets (store.ts).              *)
(*                                                                         *)
(* The server is external: its task runs by itself and its asset rows      *)
(* change by the requests of this page and of other reviewers.  A request  *)
(* is two actions, the server's and the page's, so that an answer may be   *)
(* old when it is read.                                                    *)
(***************************************************************************)
EXTENDS Naturals

CONSTANTS
    Assets,         \* the assets the server's worker produces
    Uploads,        \* input files and mask sent before the task is created
    MaxPolls,       \* IMAGEFLOW_MAX_POLL_ATTEMPTS
    MaxReviews      \* bound on the reviews of this page

ASSUME WebHostedAssumption ==
    MaxPolls \in Nat /\ Uploads \in Nat /\ MaxReviews \in Nat

VARIABLES
    local,      \* the TaskRecord: status, server's task id and status
    shown,      \* imageflowAssets: the status the page shows of each asset
    create,     \* submitManagedImageflowTask
    poll,       \* pollImageflowTask and its timer
    reviews,    \* selectImageflowAsset and rejectImageflowAsset under way
    server,     \* the server's task and asset rows
    seen,       \* the statuses each asset row has had
    reviewed    \* reviews begun by this page

hostedVars == <<local, shown, create, poll, reviews, server, seen, reviewed>>

-----------------------------------------------------------------------------
(* What the server tells, with normalizeAgentImageflowAssetStatus applied. *)

Verdicts    == {"completed", "failed"}
ServerTask  == {"none", "queued"} \cup Verdicts
AssetStatus == {"generated", "selected", "rejected"}
Shown       == [Assets -> AssetStatus \cup {"absent"}]
NothingShown == [a \in Assets |-> "absent"]

Local == [status: {"none", "running", "done", "error"}, known: BOOLEAN,
          server: ServerTask \cup {"creating"}]
Idle  == [pc |-> "idle", attempt |-> 0, answer |-> "none", assets |-> NothingShown]
NoReview == [pc |-> "idle", base |-> NothingShown, result |-> "generated"]

HostedInit ==
    /\ local = [status |-> "none", known |-> FALSE, server |-> "none"]
    /\ shown = NothingShown
    /\ create = [pc |-> "idle", left |-> Uploads]
    /\ poll = Idle
    /\ reviews = [a \in Assets |-> NoReview]
    /\ server = [task |-> "none", assets |-> NothingShown]
    /\ seen = [a \in Assets |-> {}]
    /\ reviewed = 0

SetAssets(rows) ==
    /\ server' = [server EXCEPT !.assets = rows]
    /\ seen' = [a \in Assets |-> seen[a] \cup ({rows[a]} \ {"absent"})]

-----------------------------------------------------------------------------
(* The server: external. *)

\* The worker registers an asset while its task is queued.
Produce(a) ==
    /\ server.task = "queued" /\ server.assets[a] = "absent"
    /\ SetAssets([server.assets EXCEPT ![a] = "generated"])
    /\ UNCHANGED <<local, shown, create, poll, reviews, reviewed>>

ServerSettles(verdict) ==
    /\ server.task = "queued"
    /\ server' = [server EXCEPT !.task = verdict]
    /\ UNCHANGED <<local, shown, create, poll, reviews, seen, reviewed>>

-----------------------------------------------------------------------------
(* submitManagedImageflowTask. *)

\* updateTaskInStore: nothing happens to a removed task.
Update(r) == local' = IF local.status = "none" THEN local ELSE r

Submit ==
    /\ create.pc = "idle" /\ local.status = "none"
    /\ local' = [status |-> "running", known |-> FALSE, server |-> "creating"]
    /\ create' = [create EXCEPT !.pc = "upload"]
    /\ UNCHANGED <<shown, poll, reviews, server, seen, reviewed>>

Upload ==
    /\ create.pc = "upload"
    /\ create' = IF create.left = 0 THEN [create EXCEPT !.pc = "post"]
                 ELSE [create EXCEPT !.left = @ - 1]
    /\ UNCHANGED <<local, shown, poll, reviews, server, seen, reviewed>>

\* The POST reaches the server; its answer may still be lost.
Post ==
    /\ create.pc = "post" /\ server.task = "none"
    /\ server' = [server EXCEPT !.task = "queued"]
    /\ UNCHANGED <<local, shown, create, poll, reviews, seen, reviewed>>

\* The response and the attempts, which are allowed to fail, are read.
Created ==
    /\ create.pc = "post" /\ server.task # "none"
    /\ create' = [create EXCEPT !.pc = "done"]
    /\ Update([local EXCEPT !.known = TRUE, !.server = "queued"])
    /\ poll' = [Idle EXCEPT !.pc = "timer", !.attempt = 1]
    /\ UNCHANGED <<shown, reviews, server, seen, reviewed>>

CreateFails ==
    /\ create.pc \in {"upload", "post"}
    /\ create' = [create EXCEPT !.pc = "done"]
    /\ Update([local EXCEPT !.status = "error"])
    /\ UNCHANGED <<shown, poll, reviews, server, seen, reviewed>>

-----------------------------------------------------------------------------
(* pollImageflowTask. *)

\* Mutant: at the limit the count starts again.
PollWithoutLimit ==
    /\ poll.pc = "timer"
    /\ IF local.status # "running"
       THEN poll' = Idle /\ UNCHANGED local
       ELSE /\ poll' = [poll EXCEPT !.pc = "ask", !.attempt = IF @ > MaxPolls THEN 0 ELSE @]
            /\ UNCHANGED local
    /\ UNCHANGED <<shown, create, reviews, server, seen, reviewed>>

\* The timer fires: a task that no longer runs is not asked for, and after
\* MaxPolls questions the task fails.
Poll ==
    /\ poll.pc = "timer"
    /\ IF local.status # "running"
       THEN poll' = Idle /\ UNCHANGED local
       ELSE IF poll.attempt > MaxPolls
       THEN poll' = Idle /\ local' = [local EXCEPT !.status = "error"]
       ELSE poll' = [poll EXCEPT !.pc = "ask"] /\ UNCHANGED local
    /\ UNCHANGED <<shown, create, reviews, server, seen, reviewed>>

\* The task and its attempts are read, then every asset by itself.
PollAnswered ==
    /\ poll.pc = "ask"
    /\ poll' = [poll EXCEPT !.pc = "read", !.answer = server.task,
                            !.assets = server.assets]
    /\ UNCHANGED <<local, shown, create, reviews, server, seen, reviewed>>

HasAssets(assets) == assets # NothingShown

\* A task that is removed meanwhile is polled once more and then left.
PollRead ==
    LET over(status) == /\ Update([local EXCEPT !.status = status, !.server = poll.answer])
                        /\ poll' = Idle
    IN  /\ poll.pc = "read"
        /\ CASE poll.answer = "completed" ->
                   over(IF HasAssets(poll.assets) THEN "done" ELSE "error")
             [] poll.answer = "failed" -> over("error")
             [] OTHER ->
                   /\ Update([local EXCEPT !.server = poll.answer])
                   /\ poll' = [Idle EXCEPT !.pc = "timer", !.attempt = poll.attempt + 1]
        /\ shown' = IF local.status = "none" THEN shown ELSE poll.assets
        /\ UNCHANGED <<create, reviews, server, seen, reviewed>>

\* Any failed request ends the task here, whatever the server goes on doing.
PollFails ==
    /\ poll.pc \in {"ask", "read"}
    /\ poll' = Idle
    /\ Update([local EXCEPT !.status = "error"])
    /\ UNCHANGED <<shown, create, reviews, server, seen, reviewed>>

-----------------------------------------------------------------------------
(* selectImageflowAsset, rejectImageflowAsset, patchImageflowAsset. *)

\* The task is read before the request.
Review(a, result) ==
    /\ reviews[a].pc = "idle" /\ reviewed < MaxReviews
    /\ local.status # "none" /\ shown[a] # "absent" /\ shown[a] # result
    /\ reviews' = [reviews EXCEPT ![a] = [pc |-> "sent", base |-> shown, result |-> result]]
    /\ reviewed' = reviewed + 1
    /\ UNCHANGED <<local, shown, create, poll, server, seen>>

ReviewServed(a) ==
    /\ reviews[a].pc = "sent"
    /\ SetAssets([server.assets EXCEPT ![a] = reviews[a].result])
    /\ reviews' = [reviews EXCEPT ![a].pc = "served"]
    /\ UNCHANGED <<local, shown, create, poll, reviewed>>

\* Mutant: the answer is applied to the asset's neighbour.
PatchAll(base, a, status) == [b \in Assets |-> status]

Patch(base, a, status) == [base EXCEPT ![a] = status]

\* The answer is put into the assets that were read before the request.
Reviewed(a) ==
    /\ reviews[a].pc = "served"
    /\ shown' = IF local.status = "none" THEN shown
                ELSE Patch(reviews[a].base, a, reviews[a].result)
    /\ reviews' = [reviews EXCEPT ![a] = NoReview]
    /\ UNCHANGED <<local, create, poll, server, seen, reviewed>>

ReviewFails(a) ==
    /\ reviews[a].pc \in {"sent", "served"}
    /\ reviews' = [reviews EXCEPT ![a] = NoReview]
    /\ UNCHANGED <<local, shown, create, poll, server, seen, reviewed>>

-----------------------------------------------------------------------------
\* removeTask: the record goes, with the poll timer but not a poll under way.
RemoveHosted ==
    /\ local.status # "none"
    /\ local' = [local EXCEPT !.status = "none"]
    /\ shown' = NothingShown
    /\ poll' = IF poll.pc = "timer" THEN Idle ELSE poll
    /\ UNCHANGED <<create, reviews, server, seen, reviewed>>

\* A reload: functions and timers are lost, and a running record is marked as
\* interrupted when the store starts; nobody polls it again.
HostedReload ==
    /\ local.status # "none"
    /\ local' = IF local.status = "running" THEN [local EXCEPT !.status = "error"] ELSE local
    /\ create' = [create EXCEPT !.pc = "done"]
    /\ poll' = Idle
    /\ reviews' = [a \in Assets |-> NoReview]
    /\ UNCHANGED <<shown, server, seen, reviewed>>

Page ==
    \/ Upload \/ Post \/ Created \/ CreateFails
    \/ Poll \/ PollAnswered \/ PollRead \/ PollFails

HostedNext ==
    \/ Submit \/ Page \/ RemoveHosted \/ HostedReload
    \/ \E verdict \in Verdicts : ServerSettles(verdict)
    \/ \E a \in Assets :
         \/ Produce(a) \/ ReviewServed(a) \/ Reviewed(a) \/ ReviewFails(a)
         \/ \E result \in {"selected", "rejected"} : Review(a, result)

HostedSpec == HostedInit /\ [][HostedNext]_hostedVars

\* A request is answered or fails in the end, and a due timer fires.
HostedFairSpec == HostedSpec /\ WF_hostedVars(Page)

-----------------------------------------------------------------------------
(* Properties *)

\* The variables keep their types.
HostedTypeOK ==
    /\ local \in Local /\ shown \in Shown
    /\ create \in [pc: {"idle", "upload", "post", "done"}, left: 0..Uploads]
    /\ poll \in [pc: {"idle", "timer", "ask", "read"}, attempt: 0..(MaxPolls + 1),
                 answer: ServerTask, assets: Shown]
    /\ reviews \in [Assets -> [pc: {"idle", "sent", "served"}, base: Shown,
                               result: AssetStatus]]
    /\ server \in [task: ServerTask, assets: Shown]
    /\ seen \in [Assets -> SUBSET AssetStatus]
    /\ reviewed \in 0..MaxReviews

\* The page shows of an asset only a status its row has had: an old answer or
\* an old copy of the list may bring back a status, never invent one.
ShownWasServers == \A a \in Assets : shown[a] \in seen[a] \cup {"absent"}

\* Polling ends: however long the server takes, a running record settles.
HostedTaskEnds == local.status = "running" ~> local.status # "running"
=============================================================================
