---------------------------- MODULE AssetReview ----------------------------
(***************************************************************************)
(* The rows of the assets one worker registers for one task, and everybody *)
(* who changes their status: reviewers (approve, reject), administrators   *)
(* (archive, restore), the worker's automatic best-of selection, and the   *)
(* storage cleanup that deletes rows.                                      *)
(*                                                                         *)
(* PostgreSQL runs at READ COMMITTED.  Every request reads the row in a    *)
(* statement of its own, decides, and then updates by id alone, so what it *)
(* read may be stale.  The update and the review_event row are committed   *)
(* together, and a transaction that changes one row is one action, enabled *)
(* when nobody holds that row.  Only the best-of selection holds rows over *)
(* several steps.  A request that is refused, or finds its target status   *)
(* already there, changes nothing and has no action.                       *)
(***************************************************************************)
EXTENDS Naturals, Sequences

CONSTANTS
    Assets,         \* assets the worker may register, each at most once
    Reviewers,      \* review and lifecycle requests in progress
    Cleaners,       \* cleanup commands in progress
    NoAsset,
    MaxEvents       \* bound: no review of an asset with so many events begins

ASSUME ReviewAssumption ==
    /\ NoAsset \notin Assets
    /\ MaxEvents \in Nat

VARIABLES
    status,     \* asset.status, "none" before the row exists
    events,     \* committed review_event rows of an asset, oldest first
    request,    \* the update each reviewer has decided on
    worker,     \* the worker, from registering assets to the best-of's commit
    cleaner     \* the rest of each cleaner's candidate list

vars == <<status, events, request, worker, cleaner>>

-----------------------------------------------------------------------------
RowStatus == {"draft", "approved", "rejected", "deprecated"}
Action    == {"approve", "reject", "archive", "restore"}
Event     == [action: Action, auto: BOOLEAN]

\* The statuses an action may start from, and the one it sets.
From(action) ==
    CASE action = "approve" -> {"draft", "rejected"}
      [] action = "reject"  -> {"draft", "approved"}
      [] action = "archive" -> {"draft", "rejected"}
      [] action = "restore" -> {"deprecated"}

Target(action) ==
    CASE action = "approve" -> "approved"
      [] action = "reject"  -> "rejected"
      [] action = "archive" -> "deprecated"
      [] action = "restore" -> "draft"

NoRequest == [asset |-> NoAsset, action |-> "approve"]
Request   == [asset: Assets, action: Action] \cup {NoRequest}

\* locked are the rows the best-of transaction has updated and not committed.
Worker == [pc: {"register", "select", "next", "write", "done"},
           selected: Assets \cup {NoAsset}, at: Assets \cup {NoAsset},
           todo: SUBSET Assets, locked: SUBSET Assets]

Candidate == [asset: Assets, status: {"draft", "rejected", "deprecated"}]
Cleaner   == [want: SUBSET {"draft", "rejected", "deprecated"}, queue: SUBSET Candidate]

Exists(a)      == status[a] \in RowStatus
BestOfAction(a) == IF a = worker.selected THEN "approve" ELSE "reject"

Init ==
    /\ status  = [a \in Assets |-> "none"]
    /\ events  = [a \in Assets |-> <<>>]
    /\ request = [r \in Reviewers |-> NoRequest]
    /\ worker  = [pc |-> "register", selected |-> NoAsset, at |-> NoAsset,
                  todo |-> {}, locked |-> {}]
    /\ cleaner = [c \in Cleaners |-> [want |-> {}, queue |-> {}]]

-----------------------------------------------------------------------------
(* Reviewers: approve, reject, archive, restore. *)

ReviewRead(r, a, action) ==
    /\ request[r] = NoRequest
    /\ status[a] \in From(action)
    /\ Len(events[a]) < MaxEvents
    /\ request' = [request EXCEPT ![r] = [asset |-> a, action |-> action]]
    /\ UNCHANGED <<status, events, worker, cleaner>>

\* Mutant: the event is committed although the row is gone.
ReviewWriteLeavesEvent(r) ==
    LET a == request[r].asset
        e == [action |-> request[r].action, auto |-> FALSE]
    IN  /\ request[r] # NoRequest
        /\ a \notin worker.locked
        /\ request' = [request EXCEPT ![r] = NoRequest]
        /\ status' = IF Exists(a) THEN [status EXCEPT ![a] = Target(e.action)] ELSE status
        /\ events' = [events EXCEPT ![a] = Append(@, e)]
        /\ UNCHANGED <<worker, cleaner>>

\* If the row is gone, the UPDATE matches nothing and the foreign key of
\* review_event refuses the INSERT, so the transaction is rolled back.
ReviewWrite(r) ==
    LET a == request[r].asset
        e == [action |-> request[r].action, auto |-> FALSE]
    IN  /\ request[r] # NoRequest
        /\ a \notin worker.locked
        /\ request' = [request EXCEPT ![r] = NoRequest]
        /\ IF Exists(a)
           THEN /\ status' = [status EXCEPT ![a] = Target(e.action)]
                /\ events' = [events EXCEPT ![a] = Append(@, e)]
           ELSE UNCHANGED <<status, events>>
        /\ UNCHANGED <<worker, cleaner>>

\* The process dies, or the request is cancelled or fails.
ReviewStops(r) ==
    /\ request[r] # NoRequest
    /\ request' = [request EXCEPT ![r] = NoRequest]
    /\ UNCHANGED <<status, events, worker, cleaner>>

-----------------------------------------------------------------------------
(* The worker: registration of assets and best-of selection. *)

\* Mutant: the public name of the status is stored.
RegisterPublicName(a) ==
    /\ worker.pc = "register"
    /\ status[a] = "none"
    /\ status' = [status EXCEPT ![a] = "generated"]
    /\ UNCHANGED <<events, request, worker, cleaner>>

Register(a) ==
    /\ worker.pc = "register"
    /\ status[a] = "none"
    /\ status' = [status EXCEPT ![a] = "draft"]
    /\ UNCHANGED <<events, request, worker, cleaner>>

\* The scorer picks one of the registered assets; the others are to be
\* rejected only if the task asks for it.
Score(best, others) ==
    LET batch == {a \in Assets : status[a] # "none"}
    IN  /\ worker.pc = "register"
        /\ best \in batch
        /\ others \in {{}, batch \ {best}}
        /\ worker' = [worker EXCEPT !.pc = "select", !.selected = best, !.todo = others]
        /\ UNCHANGED <<status, events, request, cleaner>>

\* Mutant: the transaction is left open.
RollbackForgotten ==
    /\ worker' = [worker EXCEPT !.pc = "done", !.at = NoAsset]
    /\ UNCHANGED <<status, events, request, cleaner>>

Rollback ==
    /\ worker' = [worker EXCEPT !.pc = "done", !.at = NoAsset, !.locked = {}]
    /\ UNCHANGED <<status, events, request, cleaner>>

\* One asset is read: it already has its status, or it is to be updated, or
\* the selection fails, because the row is gone or was archived.
BestOfRead(a) ==
    /\ \/ worker.pc = "select" /\ a = worker.selected
       \/ worker.pc = "next"   /\ a \in worker.todo
    /\ \/ /\ status[a] = Target(BestOfAction(a))
          /\ worker' = [worker EXCEPT !.pc = "next", !.todo = @ \ {a}]
          /\ UNCHANGED <<status, events, request, cleaner>>
       \/ /\ status[a] \in From(BestOfAction(a))
          /\ worker' = [worker EXCEPT !.pc = "write", !.at = a]
          /\ UNCHANGED <<status, events, request, cleaner>>
       \/ /\ status[a] \notin From(BestOfAction(a)) \cup {Target(BestOfAction(a))}
          /\ Rollback

\* Mutant: the update and its event are committed at once.
BestOfWriteAutocommit ==
    /\ worker.pc = "write"
    /\ Exists(worker.at)
    /\ status' = [status EXCEPT ![worker.at] = Target(BestOfAction(worker.at))]
    /\ events' = [events EXCEPT ![worker.at] =
                     Append(@, [action |-> BestOfAction(worker.at), auto |-> TRUE])]
    /\ worker' = [worker EXCEPT !.pc = "next", !.at = NoAsset, !.todo = @ \ {worker.at}]
    /\ UNCHANGED <<request, cleaner>>

BestOfWrite ==
    /\ worker.pc = "write"
    /\ Exists(worker.at)
    /\ worker' = [worker EXCEPT !.pc = "next", !.at = NoAsset,
                                !.todo = @ \ {worker.at},
                                !.locked = @ \cup {worker.at}]
    /\ UNCHANGED <<status, events, request, cleaner>>

BestOfCommit ==
    /\ worker.pc = "next"
    /\ worker.todo = {}
    /\ status' = [a \in Assets |-> IF a \in worker.locked THEN Target(BestOfAction(a))
                                                          ELSE status[a]]
    /\ events' = [a \in Assets |->
                    IF a \in worker.locked
                    THEN Append(events[a], [action |-> BestOfAction(a), auto |-> TRUE])
                    ELSE events[a]]
    /\ worker' = [worker EXCEPT !.pc = "done", !.locked = {}]
    /\ UNCHANGED <<request, cleaner>>

\* A statement fails (so does the event of a row deleted since it was read),
\* or the worker dies and the server rolls its transaction back.
BestOfFails ==
    /\ worker.pc \in {"select", "next", "write"}
    /\ Rollback

-----------------------------------------------------------------------------
(* Cleanup.  The dry run is repeated on execution and lists the candidates; *)
(* a token or --confirm only decides whether the deletion starts.           *)

Candidates(want) ==
    {[asset |-> a, status |-> status[a]] : a \in {b \in Assets : status[b] \in want}}

CleanupList(c, want) ==
    /\ cleaner[c].queue = {}
    /\ Candidates(want) # {}
    /\ cleaner' = [cleaner EXCEPT ![c] = [want |-> want, queue |-> Candidates(want)]]
    /\ UNCHANGED <<status, events, request, worker>>

\* Mutant: archived assets are always allowed.
AllowedArchived(candidate) == {"rejected", "draft", "deprecated"}

\* What DeleteCleanupAssetCandidate may delete depends on the status listed.
Allowed(candidate) ==
    {"rejected", "draft"} \cup
    (IF candidate.status = "deprecated" THEN {"deprecated"} ELSE {})

\* Mutant: the status listed is checked, not the one under the lock.
CleanupCandidateAsListed(c, candidate) ==
    LET a    == candidate.asset
        rest == cleaner[c].queue \ {candidate}
    IN  /\ candidate \in cleaner[c].queue
        /\ a \notin worker.locked
        /\ IF Exists(a) /\ candidate.status \in Allowed(candidate)
           THEN /\ status' = [status EXCEPT ![a] = "deleted"]
                /\ events' = [events EXCEPT ![a] = <<>>]
           ELSE UNCHANGED <<status, events>>
        /\ cleaner' = [cleaner EXCEPT ![c] =
                         [want |-> IF rest = {} THEN {} ELSE @.want, queue |-> rest]]
        /\ UNCHANGED <<request, worker>>

\* The row is locked and checked again, and deleted with its events.
CleanupCandidate(c, candidate) ==
    LET a    == candidate.asset
        rest == cleaner[c].queue \ {candidate}
    IN  /\ candidate \in cleaner[c].queue
        /\ a \notin worker.locked
        /\ IF status[a] \in Allowed(candidate)
           THEN /\ status' = [status EXCEPT ![a] = "deleted"]
                /\ events' = [events EXCEPT ![a] = <<>>]
           ELSE UNCHANGED <<status, events>>
        /\ cleaner' = [cleaner EXCEPT ![c] =
                         [want |-> IF rest = {} THEN {} ELSE @.want, queue |-> rest]]
        /\ UNCHANGED <<request, worker>>

CleanupStops(c) ==
    /\ cleaner[c].queue # {}
    /\ cleaner' = [cleaner EXCEPT ![c] = [want |-> {}, queue |-> {}]]
    /\ UNCHANGED <<status, events, request, worker>>

-----------------------------------------------------------------------------
ReviewerNext(r) ==
    \/ \E a \in Assets, action \in Action : ReviewRead(r, a, action)
    \/ ReviewWrite(r)
    \/ ReviewStops(r)

BestOf ==
    \/ \E a \in Assets : BestOfRead(a)
    \/ BestOfWrite
    \/ BestOfCommit
    \/ BestOfFails

WorkerNext ==
    \/ \E a \in Assets : Register(a)
    \/ \E best \in Assets, others \in SUBSET Assets : Score(best, others)
    \/ BestOf

CleanerNext(c) ==
    \/ \E want \in SUBSET {"draft", "rejected", "deprecated"} : CleanupList(c, want)
    \/ \E candidate \in cleaner[c].queue : CleanupCandidate(c, candidate)
    \/ CleanupStops(c)

Next ==
    \/ \E r \in Reviewers : ReviewerNext(r)
    \/ WorkerNext
    \/ \E c \in Cleaners : CleanerNext(c)

Spec == Init /\ [][Next]_vars

\* What has begun goes on: handlers, the worker and the command run to their
\* end.  Nobody has to begin anything.
FairSpec ==
    /\ Spec
    /\ \A r \in Reviewers : WF_vars(ReviewWrite(r))
    /\ WF_vars(BestOf)
    /\ \A c \in Cleaners :
         WF_vars(\E candidate \in cleaner[c].queue : CleanupCandidate(c, candidate))

-----------------------------------------------------------------------------
(* What the asset rows promise. *)

\* Every variable has its type.
TypeOK ==
    /\ status \in [Assets -> RowStatus \cup {"none", "deleted"}]
    /\ events \in [Assets -> Seq(Event)]
    /\ request \in [Reviewers -> Request]
    /\ worker \in Worker
    /\ cleaner \in [Cleaners -> Cleaner]

StatusAfter(log) == IF log = <<>> THEN "draft" ELSE Target(log[Len(log)].action)

\* Whoever reads the review events of an asset learns its status, whatever
\* requests, best-of commits and failures were interleaved, and a deleted
\* asset has left no event behind (reviewAssetTx and lifecycleAssetTx write
\* row and event in one transaction; DeleteCleanupAssetCandidate).
EventsMatchRow ==
    \A a \in Assets : IF Exists(a) THEN status[a] = StatusAfter(events[a])
                                   ELSE events[a] = <<>>

\* No event of the automatic selection can be seen before the selection has
\* dealt with every candidate, nor after it has failed (ApplyBestOfSelection).
BestOfAllOrNothing ==
    (\E a \in Assets : \E i \in DOMAIN events[a] : events[a][i].auto)
        => worker.pc = "done" /\ worker.todo = {}

Deleted(a) == status[a] # "deleted" /\ status'[a] = "deleted"

\* Cleanup never deletes an approved asset, although it was no more than a
\* draft when listed (the check under the row lock).
ApprovedIsKept == [][\A a \in Assets : Deleted(a) => status[a] # "approved"]_vars

\* Cleanup deletes an archived asset only if the cleanup was asked to include
\* archived ones, also if the asset was archived after it had been listed.
ArchivedIsKept ==
    [][\A a \in Assets : Deleted(a) /\ status[a] = "deprecated"
          => \E c \in Cleaners : /\ cleaner'[c] # cleaner[c]
                                 /\ "deprecated" \in cleaner[c].want]_vars

\* A reviewer, a cleaner or a selection that waits for rows gets its turn.
EveryoneFinishes ==
    /\ \A r \in Reviewers : request[r] # NoRequest ~> request[r] = NoRequest
    /\ \A c \in Cleaners : cleaner[c].queue # {} ~> cleaner[c].queue = {}
    /\ worker.pc = "select" ~> worker.pc = "done"

=============================================================================
