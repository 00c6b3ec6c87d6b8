------------------------- MODULE AssetReviewProofs -------------------------
(***************************************************************************)
(* Theorems about AssetReview, for every set of assets, reviewers and      *)
(* cleanup commands and for any number of review events.                   *)
(***************************************************************************)
EXTENDS AssetReview, TLAPS

USE ReviewAssumption

LEMMA TargetIsStatus ==
    ASSUME NEW action \in Action
    PROVE  /\ Target(action) \in RowStatus
           /\ From(action) \subseteq RowStatus
  BY DEF Action, Target, From, RowStatus

\* What appending an event to a log does to what is read from the log.
LEMMA AppendEvent ==
    ASSUME NEW log \in Seq(Event), NEW e \in Event
    PROVE  /\ Append(log, e) \in Seq(Event)
           /\ StatusAfter(Append(log, e)) = Target(e.action)
           /\ \A i \in DOMAIN Append(log, e) :
                Append(log, e)[i].auto => e.auto \/ \E j \in DOMAIN log : log[j].auto
  <1> DEFINE longer == Append(log, e)
  <1>1. /\ longer \in Seq(Event)
        /\ Len(log) \in Nat
        /\ Len(longer) = Len(log) + 1
        /\ longer[Len(log) + 1] = e
        /\ DOMAIN longer = 1 .. Len(log) + 1
        /\ DOMAIN log = 1 .. Len(log)
        /\ \A i \in 1 .. Len(log) : longer[i] = log[i]
    OBVIOUS
  <1>2. longer # <<>>
    BY <1>1
  <1>3. StatusAfter(longer) = Target(e.action)
    BY <1>1, <1>2 DEF StatusAfter
  <1>4. ASSUME NEW i \in DOMAIN longer, longer[i].auto
        PROVE  e.auto \/ \E j \in DOMAIN log : log[j].auto
    <2>1. CASE i = Len(log) + 1
      BY <1>1, <1>4, <2>1
    <2>2. CASE i \in 1 .. Len(log)
      BY <1>1, <1>4, <2>2
    <2>3. QED
      BY <1>1, <2>1, <2>2
  <1>5. QED
    BY <1>1, <1>3, <1>4

\* A listing holds what was asked for.
LEMMA ListedAsAsked ==
    ASSUME NEW want \in SUBSET {"draft", "rejected", "deprecated"}
    PROVE  /\ Candidates(want) \subseteq Candidate
           /\ \A candidate \in Candidates(want) : candidate.status \in want
  <1> SUFFICES ASSUME NEW candidate \in Candidates(want)
               PROVE  candidate \in Candidate /\ candidate.status \in want
    OBVIOUS
  <1>1. PICK a \in Assets : /\ status[a] \in want
                           /\ candidate = [asset |-> a, status |-> status[a]]
    BY DEF Candidates
  <1>2. QED
    BY <1>1 DEF Candidate

-----------------------------------------------------------------------------
(***************************************************************************)
(* Type correctness.  The best-of transaction writes an asset it has read, *)
(* so the type invariant needs to know that there is one.                  *)
(***************************************************************************)
WriteHasAsset == worker.pc = "write" => worker.at \in Assets

TypeInv == TypeOK /\ WriteHasAsset

LEMMA TypeInit == Init => TypeInv
  <1> SUFFICES ASSUME Init PROVE TypeInv
    OBVIOUS
  <1>1. status \in [Assets -> RowStatus \cup {"none", "deleted"}]
    BY DEF Init
  <1>2. events \in [Assets -> Seq(Event)]
    BY DEF Init
  <1>3. request \in [Reviewers -> Request]
    BY DEF Init, Request
  <1>4. worker \in Worker /\ WriteHasAsset
    BY DEF Init, Worker, WriteHasAsset
  <1>5. cleaner \in [Cleaners -> Cleaner]
    BY DEF Init, Cleaner
  <1>6. QED
    BY <1>1, <1>2, <1>3, <1>4, <1>5 DEF TypeInv, TypeOK

LEMMA ReviewTypes ==
    ASSUME TypeInv, NEW r \in Reviewers, ReviewerNext(r)
    PROVE  TypeInv'
  <1> USE DEF TypeInv, TypeOK, WriteHasAsset
  <1>1. ASSUME NEW a \in Assets, NEW action \in Action, ReviewRead(r, a, action)
        PROVE  TypeInv'
    <2>1. [asset |-> a, action |-> action] \in Request
      BY DEF Request
    <2>2. request' \in [Reviewers -> Request]
      BY <1>1, <2>1 DEF ReviewRead
    <2>3. QED
      BY <1>1, <2>2 DEF ReviewRead
  <1>2. CASE ReviewWrite(r)
    <2> DEFINE a == request[r].asset
               e == [action |-> request[r].action, auto |-> FALSE]
    <2>1. a \in Assets /\ e \in Event /\ e.action \in Action
      BY <1>2 DEF ReviewWrite, Request, Event
    <2>2. request' \in [Reviewers -> Request]
      BY <1>2 DEF ReviewWrite, Request
    <2>3. status' \in [Assets -> RowStatus \cup {"none", "deleted"}]
      <3>1. Target(e.action) \in RowStatus
        BY <2>1, TargetIsStatus
      <3>2. QED
        BY <1>2, <2>1, <3>1 DEF ReviewWrite
    <2>4. events' \in [Assets -> Seq(Event)]
      <3>1. Append(events[a], e) \in Seq(Event)
        BY <2>1, AppendEvent
      <3>2. QED
        BY <1>2, <2>1, <3>1 DEF ReviewWrite
    <2>5. QED
      BY <1>2, <2>2, <2>3, <2>4 DEF ReviewWrite
  <1>3. CASE ReviewStops(r)
    BY <1>3 DEF ReviewStops, Request
  <1>4. QED
    BY <1>1, <1>2, <1>3 DEF ReviewerNext

LEMMA RollbackTypes ==
    ASSUME TypeInv, Rollback
    PROVE  TypeInv'
  <1>1. worker' \in Worker
    BY DEF TypeInv, TypeOK, Rollback, Worker
  <1>2. worker'.pc = "done"
    BY DEF TypeInv, TypeOK, Rollback, Worker
  <1>3. QED
    BY <1>1, <1>2 DEF TypeInv, TypeOK, WriteHasAsset, Rollback

LEMMA WorkerTypes ==
    ASSUME TypeInv, WorkerNext
    PROVE  TypeInv'
  <1> USE DEF TypeInv, TypeOK, WriteHasAsset
  <1>1. ASSUME NEW a \in Assets, Register(a)
        PROVE  TypeInv'
    BY <1>1 DEF Register, RowStatus
  <1>2. ASSUME NEW best \in Assets, NEW others \in SUBSET Assets, Score(best, others)
        PROVE  TypeInv'
    <2>1. worker' \in Worker /\ worker'.pc = "select"
      BY <1>2 DEF Score, Worker
    <2>2. QED
      BY <1>2, <2>1 DEF Score
  <1>3. ASSUME NEW a \in Assets, BestOfRead(a)
        PROVE  TypeInv'
    <2>1. CASE worker' = [worker EXCEPT !.pc = "next", !.todo = @ \ {a}]
               /\ UNCHANGED <<status, events, request, cleaner>>
      <3>1. worker' \in Worker /\ worker'.pc = "next"
        BY <2>1 DEF Worker
      <3>2. QED
        BY <2>1, <3>1
    <2>2. CASE worker' = [worker EXCEPT !.pc = "write", !.at = a]
               /\ UNCHANGED <<status, events, request, cleaner>>
      <3>1. worker' \in Worker /\ worker'.at = a
        BY <2>2 DEF Worker
      <3>2. QED
        BY <2>2, <3>1
    <2>3. CASE Rollback
      BY <2>3, RollbackTypes
    <2>4. QED
      BY <1>3, <2>1, <2>2, <2>3 DEF BestOfRead
  <1>4. CASE BestOfWrite
    <2>1. worker.at \in Assets
      BY <1>4 DEF BestOfWrite
    <2>2. worker' \in Worker /\ worker'.pc = "next"
      BY <1>4, <2>1 DEF BestOfWrite, Worker
    <2>3. QED
      BY <1>4, <2>2 DEF BestOfWrite
  <1>5. CASE BestOfCommit
    <2>1. \A a \in Assets : BestOfAction(a) \in Action
      BY DEF BestOfAction, Action
    <2>2. status' \in [Assets -> RowStatus \cup {"none", "deleted"}]
      BY <1>5, <2>1, TargetIsStatus DEF BestOfCommit
    <2>3. events' \in [Assets -> Seq(Event)]
      <3>1. ASSUME NEW a \in Assets
            PROVE  Append(events[a], [action |-> BestOfAction(a), auto |-> TRUE]) \in Seq(Event)
        BY <2>1, AppendEvent DEF Event
      <3>2. QED
        BY <1>5, <3>1 DEF BestOfCommit
    <2>4. worker' \in Worker /\ worker'.pc = "done"
      BY <1>5 DEF BestOfCommit, Worker
    <2>5. QED
      BY <1>5, <2>2, <2>3, <2>4 DEF BestOfCommit
  <1>6. CASE BestOfFails
    BY <1>6, RollbackTypes DEF BestOfFails
  <1>7. QED
    BY <1>1, <1>2, <1>3, <1>4, <1>5, <1>6 DEF WorkerNext, BestOf

LEMMA CleanerTypes ==
    ASSUME TypeInv, NEW c \in Cleaners, CleanerNext(c)
    PROVE  TypeInv'
  <1> USE DEF TypeInv, TypeOK, WriteHasAsset
  <1>1. ASSUME NEW want \in SUBSET {"draft", "rejected", "deprecated"}, CleanupList(c, want)
        PROVE  TypeInv'
    <2>1. Candidates(want) \subseteq Candidate
      BY ListedAsAsked
    <2>2. cleaner' \in [Cleaners -> Cleaner]
      BY <1>1, <2>1 DEF CleanupList, Cleaner
    <2>3. QED
      BY <1>1, <2>2 DEF CleanupList
  <1>2. ASSUME NEW candidate \in cleaner[c].queue, CleanupCandidate(c, candidate)
        PROVE  TypeInv'
    <2>1. candidate.asset \in Assets
      BY <1>2 DEF Cleaner, Candidate
    <2>2. cleaner' \in [Cleaners -> Cleaner]
      BY <1>2 DEF CleanupCandidate, Cleaner
    <2>3. status' \in [Assets -> RowStatus \cup {"none", "deleted"}]
      BY <1>2, <2>1 DEF CleanupCandidate
    <2>4. events' \in [Assets -> Seq(Event)]
      <3>1. <<>> \in Seq(Event)
        OBVIOUS
      <3>2. QED
        BY <1>2, <2>1, <3>1 DEF CleanupCandidate
    <2>5. QED
      BY <1>2, <2>2, <2>3, <2>4 DEF CleanupCandidate
  <1>3. CASE CleanupStops(c)
    BY <1>3 DEF CleanupStops, Cleaner
  <1>4. QED
    BY <1>1, <1>2, <1>3 DEF CleanerNext

LEMMA TypeStep == TypeInv /\ [Next]_vars => TypeInv'
  <1> SUFFICES ASSUME TypeInv, [Next]_vars PROVE TypeInv'
    OBVIOUS
  <1>1. CASE UNCHANGED vars
    BY <1>1 DEF vars, TypeInv, TypeOK, WriteHasAsset
  <1>2. CASE Next
    BY <1>2, ReviewTypes, WorkerTypes, CleanerTypes DEF Next
  <1>3. QED
    BY <1>1, <1>2

\* Every variable keeps its type.
THEOREM ReviewTypesAreCorrect == Spec => []TypeOK
  <1>1. TypeInv => TypeOK
    BY DEF TypeInv
  <1>2. QED
    BY <1>1, TypeInit, TypeStep, PTL DEF Spec

-----------------------------------------------------------------------------
(***************************************************************************)
(* The review events explain the status of every row.                      *)
(***************************************************************************)
LogOf(a) == IF Exists(a) THEN status[a] = StatusAfter(events[a]) ELSE events[a] = <<>>

LEMMA LogUnchanged ==
    ASSUME NEW a \in Assets, LogOf(a), status'[a] = status[a], events'[a] = events[a]
    PROVE  LogOf(a)'
  BY DEF LogOf, Exists, StatusAfter

\* One more event and the status it sets.
LEMMA LogExtended ==
    ASSUME TypeInv, NEW a \in Assets, NEW e \in Event,
           status'[a] = Target(e.action), events'[a] = Append(events[a], e)
    PROVE  LogOf(a)'
  <1>1. e.action \in Action
    BY DEF Event
  <1>2. status'[a] \in RowStatus
    BY <1>1, TargetIsStatus
  <1>3. StatusAfter(events'[a]) = Target(e.action)
    BY AppendEvent DEF TypeInv, TypeOK
  <1>4. QED
    BY <1>2, <1>3 DEF LogOf, Exists, StatusAfter

LEMMA LogStep ==
    ASSUME TypeInv, EventsMatchRow, [Next]_vars
    PROVE  EventsMatchRow'
  <1> SUFFICES ASSUME NEW b \in Assets PROVE LogOf(b)'
    BY DEF EventsMatchRow, LogOf
  <1>1. LogOf(b)
    BY DEF EventsMatchRow, LogOf
  <1>2. /\ status \in [Assets -> RowStatus \cup {"none", "deleted"}]
        /\ events \in [Assets -> Seq(Event)]
        /\ request \in [Reviewers -> Request]
        /\ cleaner \in [Cleaners -> Cleaner]
    BY DEF TypeInv, TypeOK
  <1>3. ASSUME UNCHANGED <<status, events>> PROVE LogOf(b)'
    BY <1>1, <1>3, LogUnchanged
  <1>4. ASSUME NEW r \in Reviewers, ReviewWrite(r) PROVE LogOf(b)'
    <2> DEFINE a == request[r].asset
               e == [action |-> request[r].action, auto |-> FALSE]
    <2>1. a \in Assets /\ e \in Event
      BY <1>2, <1>4 DEF ReviewWrite, Request, Event
    <2>2. CASE Exists(a) /\ a = b
      <3>1. status'[b] = Target(e.action) /\ events'[b] = Append(events[b], e)
        BY <1>2, <1>4, <2>2 DEF ReviewWrite
      <3>2. QED
        BY <2>1, <3>1, LogExtended
    <2>3. CASE ~ (Exists(a) /\ a = b)
      <3>1. status'[b] = status[b] /\ events'[b] = events[b]
        BY <1>2, <1>4, <2>3 DEF ReviewWrite
      <3>2. QED
        BY <1>1, <3>1, LogUnchanged
    <2>4. QED
      BY <2>2, <2>3
  <1>5. ASSUME NEW a \in Assets, Register(a) PROVE LogOf(b)'
    <2>1. CASE a = b
      <3>1. events[b] = <<>>
        BY <1>1, <1>5, <2>1 DEF Register, LogOf, Exists, RowStatus
      <3>2. status'[b] = "draft" /\ events'[b] = <<>>
        BY <1>2, <1>5, <2>1, <3>1 DEF Register
      <3>3. QED
        BY <3>2 DEF LogOf, Exists, RowStatus, StatusAfter
    <2>2. CASE a # b
      BY <1>1, <1>2, <1>5, <2>2, LogUnchanged DEF Register
    <2>3. QED
      BY <2>1, <2>2
  <1>6. CASE BestOfCommit
    <2> DEFINE e == [action |-> BestOfAction(b), auto |-> TRUE]
    <2>1. e \in Event
      BY DEF Event, BestOfAction, Action
    <2>2. CASE b \in worker.locked
      <3>1. status'[b] = Target(e.action) /\ events'[b] = Append(events[b], e)
        BY <1>6, <2>2 DEF BestOfCommit
      <3>2. QED
        BY <2>1, <3>1, LogExtended
    <2>3. CASE b \notin worker.locked
      <3>1. status'[b] = status[b] /\ events'[b] = events[b]
        BY <1>6, <2>3 DEF BestOfCommit
      <3>2. QED
        BY <1>1, <3>1, LogUnchanged
    <2>4. QED
      BY <2>2, <2>3
  <1>7. ASSUME NEW c \in Cleaners, NEW candidate \in cleaner[c].queue,
               CleanupCandidate(c, candidate)
        PROVE  LogOf(b)'
    <2>1. CASE status[candidate.asset] \in Allowed(candidate) /\ candidate.asset = b
      <3>1. status'[b] = "deleted" /\ events'[b] = <<>>
        BY <1>2, <1>7, <2>1 DEF CleanupCandidate
      <3>2. QED
        BY <3>1 DEF LogOf, Exists, RowStatus
    <2>2. CASE ~ (status[candidate.asset] \in Allowed(candidate) /\ candidate.asset = b)
      <3>1. status'[b] = status[b] /\ events'[b] = events[b]
        BY <1>2, <1>7, <2>2 DEF CleanupCandidate
      <3>2. QED
        BY <1>1, <3>1, LogUnchanged
    <2>3. QED
      BY <2>1, <2>2
  <1>8. QED
    BY <1>3, <1>4, <1>5, <1>6, <1>7
       DEF Next, ReviewerNext, WorkerNext, BestOf, CleanerNext, vars, ReviewRead, ReviewStops,
           Score, BestOfRead, BestOfWrite, BestOfFails, Rollback, CleanupList, CleanupStops

\* The review events of an asset explain its status, and none are left of a
\* deleted one, however requests, selections, cleanups and failures interleave.
THEOREM EventsExplainStatus == Spec => []EventsMatchRow
  <1>1. Init => EventsMatchRow
    BY DEF Init, EventsMatchRow, Exists, RowStatus
  <1>2. TypeInv /\ EventsMatchRow /\ [Next]_vars => EventsMatchRow'
    BY LogStep
  <1>3. QED
    BY <1>1, <1>2, TypeInit, TypeStep, PTL DEF Spec

-----------------------------------------------------------------------------
(***************************************************************************)
(* Nothing of a best-of selection shows before all of it does.  The        *)
(* invariant is inductive: once the worker is done it stays so, and its    *)
(* commit is the only step that adds an automatic event.                   *)
(***************************************************************************)
Automatic(a) == \E i \in DOMAIN events[a] : events[a][i].auto

LEMMA AutomaticKept ==
    ASSUME NEW a \in Assets, events'[a] = events[a]
    PROVE  Automatic(a)' <=> Automatic(a)
  BY DEF Automatic

LEMMA BestOfStep ==
    ASSUME TypeInv, BestOfAllOrNothing, [Next]_vars
    PROVE  BestOfAllOrNothing'
  <1> SUFFICES ASSUME NEW b \in Assets, Automatic(b)'
               PROVE  worker'.pc = "done" /\ worker'.todo = {}
    BY DEF BestOfAllOrNothing, Automatic
  <1>1. /\ events \in [Assets -> Seq(Event)]
        /\ request \in [Reviewers -> Request]
        /\ worker \in Worker
    BY DEF TypeInv, TypeOK
  <1>2. Automatic(b) => worker.pc = "done" /\ worker.todo = {}
    BY DEF BestOfAllOrNothing, Automatic
  <1>3. ASSUME events'[b] = events[b], worker' = worker
        PROVE  worker'.pc = "done" /\ worker'.todo = {}
    BY <1>2, <1>3, AutomaticKept
  <1>4. ASSUME NEW r \in Reviewers, ReviewWrite(r)
        PROVE  worker'.pc = "done" /\ worker'.todo = {}
    <2> DEFINE a == request[r].asset
               e == [action |-> request[r].action, auto |-> FALSE]
    <2>1. a \in Assets /\ e \in Event /\ worker' = worker
      BY <1>1, <1>4 DEF ReviewWrite, Request, Event
    <2>2. CASE events'[b] = events[b]
      BY <1>3, <2>1, <2>2
    <2>3. CASE events'[b] = Append(events[b], e)
      <3>1. PICK i \in DOMAIN events'[b] : events'[b][i].auto
        BY DEF Automatic
      <3>2. e.auto \/ \E j \in DOMAIN events[b] : events[b][j].auto
        BY <1>1, <2>1, <2>3, <3>1, AppendEvent
      <3>3. Automatic(b)
        BY <3>2 DEF Automatic
      <3>4. QED
        BY <1>2, <2>1, <3>3
    <2>4. QED
      BY <1>1, <1>4, <2>1, <2>2, <2>3 DEF ReviewWrite
  <1>5. ASSUME NEW c \in Cleaners, NEW candidate \in cleaner[c].queue,
               CleanupCandidate(c, candidate)
        PROVE  worker'.pc = "done" /\ worker'.todo = {}
    <2>1. events'[b] = events[b] \/ events'[b] = <<>>
      BY <1>1, <1>5 DEF CleanupCandidate
    <2>2. events'[b] # <<>>
      BY DEF Automatic
    <2>3. QED
      BY <1>3, <1>5, <2>1, <2>2 DEF CleanupCandidate
  <1>6. CASE BestOfCommit
    BY <1>1, <1>6 DEF BestOfCommit, Worker
  <1>7. ASSUME worker.pc # "done", events' = events
        PROVE  worker'.pc = "done" /\ worker'.todo = {}
    BY <1>2, <1>7, AutomaticKept
  <1>8. CASE WorkerNext
    <2>1. CASE BestOfCommit
      BY <1>6, <2>1
    <2>2. ASSUME NEW a \in Assets, Register(a) PROVE worker.pc # "done" /\ events' = events
      BY <2>2 DEF Register
    <2>3. ASSUME NEW best \in Assets, NEW others \in SUBSET Assets, Score(best, others)
          PROVE  worker.pc # "done" /\ events' = events
      BY <2>3 DEF Score
    <2>4. ASSUME NEW a \in Assets, BestOfRead(a) PROVE worker.pc # "done" /\ events' = events
      BY <2>4 DEF BestOfRead, Rollback
    <2>5. ASSUME BestOfWrite \/ BestOfFails PROVE worker.pc # "done" /\ events' = events
      BY <2>5 DEF BestOfWrite, BestOfFails, Rollback
    <2>6. QED
      BY <1>7, <1>8, <2>1, <2>2, <2>3, <2>4, <2>5 DEF WorkerNext, BestOf
  <1>9. ASSUME UNCHANGED <<events, worker>>
        PROVE  worker'.pc = "done" /\ worker'.todo = {}
    BY <1>3, <1>9
  <1>10. QED
    BY <1>4, <1>5, <1>8, <1>9
       DEF Next, ReviewerNext, CleanerNext, vars, ReviewRead, ReviewStops,
           CleanupList, CleanupStops

\* The automatic selection is all or nothing, for any number of candidates.
THEOREM BestOfIsAtomic == Spec => []BestOfAllOrNothing
  <1>1. Init => BestOfAllOrNothing
    BY DEF Init, BestOfAllOrNothing
  <1>2. TypeInv /\ BestOfAllOrNothing /\ [Next]_vars => BestOfAllOrNothing'
    BY BestOfStep
  <1>3. QED
    BY <1>1, <1>2, TypeInit, TypeStep, PTL DEF Spec

-----------------------------------------------------------------------------
(***************************************************************************)
(* What cleanup may delete.  Only one action deletes, and what it has in   *)
(* its list was asked for when it was listed.                              *)
(***************************************************************************)
QueueAsWanted ==
    \A c \in Cleaners : \A candidate \in cleaner[c].queue : candidate.status \in cleaner[c].want

LEMMA QueueStep ==
    ASSUME TypeInv, QueueAsWanted, [Next]_vars
    PROVE  QueueAsWanted'
  <1>1. cleaner \in [Cleaners -> Cleaner]
    BY DEF TypeInv, TypeOK
  <1>2. ASSUME UNCHANGED cleaner PROVE QueueAsWanted'
    BY <1>2 DEF QueueAsWanted
  <1>3. ASSUME NEW c \in Cleaners, CleanerNext(c) PROVE QueueAsWanted'
    <2> SUFFICES ASSUME NEW d \in Cleaners, NEW x \in cleaner'[d].queue
                 PROVE  x.status \in cleaner'[d].want
      BY DEF QueueAsWanted
    <2>1. ASSUME NEW want \in SUBSET {"draft", "rejected", "deprecated"}, CleanupList(c, want)
          PROVE  x.status \in cleaner'[d].want
      <3>1. CASE d = c
        <4>1. cleaner'[c] = [want |-> want, queue |-> Candidates(want)]
          BY <1>1, <2>1 DEF CleanupList
        <4>2. QED
          BY <3>1, <4>1, ListedAsAsked
      <3>2. CASE d # c
        BY <1>1, <2>1, <3>2 DEF CleanupList, QueueAsWanted
      <3>3. QED
        BY <3>1, <3>2
    <2>2. ASSUME NEW candidate \in cleaner[c].queue, CleanupCandidate(c, candidate)
          PROVE  x.status \in cleaner'[d].want
      <3> DEFINE rest == cleaner[c].queue \ {candidate}
      <3>1. CASE d = c
        <4>1. cleaner'[c] = [want |-> IF rest = {} THEN {} ELSE cleaner[c].want, queue |-> rest]
          BY <1>1, <2>2 DEF CleanupCandidate
        <4>2. x \in rest /\ rest # {}
          BY <3>1, <4>1
        <4>3. QED
          BY <3>1, <4>1, <4>2 DEF QueueAsWanted
      <3>2. CASE d # c
        BY <1>1, <2>2, <3>2 DEF CleanupCandidate, QueueAsWanted
      <3>3. QED
        BY <3>1, <3>2
    <2>3. CASE CleanupStops(c)
      BY <1>1, <2>3 DEF CleanupStops, QueueAsWanted
    <2>4. QED
      BY <1>3, <2>1, <2>2, <2>3 DEF CleanerNext
  <1>4. QED
    BY <1>2, <1>3
       DEF Next, ReviewerNext, WorkerNext, BestOf, vars, ReviewRead, ReviewWrite, ReviewStops,
           Register, Score, BestOfRead, BestOfWrite, BestOfCommit, BestOfFails, Rollback

\* A row disappears only by a cleanup that finds a status it allows.
LEMMA DeletedByCleanup ==
    ASSUME TypeInv, [Next]_vars, NEW b \in Assets, Deleted(b)
    PROVE  \E c \in Cleaners : \E candidate \in cleaner[c].queue :
              /\ CleanupCandidate(c, candidate)
              /\ candidate.asset = b
              /\ status[b] \in Allowed(candidate)
  <1>1. /\ status \in [Assets -> RowStatus \cup {"none", "deleted"}]
        /\ request \in [Reviewers -> Request]
    BY DEF TypeInv, TypeOK
  <1>2. status'[b] # status[b] /\ status'[b] = "deleted" /\ status'[b] \notin RowStatus
    BY DEF Deleted, RowStatus
  <1>3. ASSUME NEW r \in Reviewers, ReviewWrite(r) PROVE FALSE
    <2>1. request[r].action \in Action
      BY <1>1, <1>3 DEF ReviewWrite, Request
    <2>2. status'[b] = status[b] \/ status'[b] = Target(request[r].action)
      BY <1>1, <1>3 DEF ReviewWrite
    <2>3. QED
      BY <1>2, <2>1, <2>2, TargetIsStatus
  <1>4. ASSUME NEW a \in Assets, Register(a) PROVE FALSE
    BY <1>1, <1>2, <1>4 DEF Register
  <1>5. ASSUME BestOfCommit PROVE FALSE
    <2>1. BestOfAction(b) \in Action
      BY DEF BestOfAction, Action
    <2>2. QED
      BY <1>2, <1>5, <2>1, TargetIsStatus DEF BestOfCommit
  <1>6. ASSUME UNCHANGED status PROVE FALSE
    BY <1>2, <1>6
  <1>7. PICK c \in Cleaners : \E candidate \in cleaner[c].queue : CleanupCandidate(c, candidate)
    BY <1>3, <1>4, <1>5, <1>6
       DEF Next, ReviewerNext, WorkerNext, BestOf, CleanerNext, vars, ReviewRead, ReviewStops,
           Score, BestOfRead, BestOfWrite, BestOfFails, Rollback, CleanupList, CleanupStops
  <1>8. PICK candidate \in cleaner[c].queue : CleanupCandidate(c, candidate)
    BY <1>7
  <1>9. candidate.asset = b /\ status[b] \in Allowed(candidate)
    BY <1>1, <1>2, <1>8 DEF CleanupCandidate
  <1>10. QED
    BY <1>8, <1>9

\* Cleanup never deletes an approved asset, whatever it was when listed.
THEOREM ApprovedIsNeverCleaned == Spec => ApprovedIsKept
  <1>1. ASSUME TypeInv, [Next]_vars, NEW a \in Assets, Deleted(a)
        PROVE  status[a] # "approved"
    BY <1>1, DeletedByCleanup DEF Allowed
  <1>2. TypeInv /\ [Next]_vars => [\A a \in Assets : Deleted(a) => status[a] # "approved"]_vars
    BY <1>1
  <1>3. QED
    BY <1>2, TypeInit, TypeStep, PTL DEF Spec, ApprovedIsKept

\* Cleanup deletes an archived asset only when it was asked to.
THEOREM ArchivedIsNeverCleanedUnasked == Spec => ArchivedIsKept
  <1> DEFINE Asked(a) == \E c \in Cleaners : /\ cleaner'[c] # cleaner[c]
                                             /\ "deprecated" \in cleaner[c].want
             Kept == \A a \in Assets : Deleted(a) /\ status[a] = "deprecated" => Asked(a)
  <1>1. Init => QueueAsWanted
    BY DEF Init, QueueAsWanted
  <1>2. TypeInv /\ QueueAsWanted /\ [Next]_vars => QueueAsWanted'
    BY QueueStep
  <1>3. ASSUME TypeInv, QueueAsWanted, [Next]_vars,
               NEW a \in Assets, Deleted(a), status[a] = "deprecated"
        PROVE  Asked(a)
    <2>1. PICK c \in Cleaners :
            \E candidate \in cleaner[c].queue :
               CleanupCandidate(c, candidate) /\ status[a] \in Allowed(candidate)
      BY <1>3, DeletedByCleanup
    <2>2. PICK candidate \in cleaner[c].queue :
            CleanupCandidate(c, candidate) /\ status[a] \in Allowed(candidate)
      BY <2>1
    <2>3. candidate.status = "deprecated"
      BY <1>3, <2>2 DEF Allowed
    <2>4. "deprecated" \in cleaner[c].want
      BY <1>3, <2>3 DEF QueueAsWanted
    <2>5. candidate \notin cleaner'[c].queue
      BY <1>3, <2>2 DEF CleanupCandidate, TypeInv, TypeOK
    <2>6. QED
      BY <2>4, <2>5
  <1>4. TypeInv /\ QueueAsWanted /\ [Next]_vars => [Kept]_vars
    BY <1>3
  <1>5. QED
    BY <1>1, <1>2, <1>4, TypeInit, TypeStep, PTL DEF Spec, ArchivedIsKept
=============================================================================
