-------------------------- MODULE WebClientProofs ---------------------------
(***************************************************************************)
(* What parts of the web client promise, one component after the other:    *)
(* each theorem is about the component's own specification, and the last   *)
(* about the four of them together.                                        *)
(***************************************************************************)
EXTENDS MCWebClient, FiniteSetTheorems, SequenceTheorems, TLAPS

-----------------------------------------------------------------------------
\* Any numbers have a least one: of the intervals up to them one contains no other.
LEMMA LeastExists ==
    ASSUME NEW S, S \subseteq Nat, S # {}
    PROVE  \E c \in S : \A b \in S : c <= b
<1> DEFINE R == StrictSubsetOrdering(Nat)
           F == FiniteSubsetsOf(Nat)
           T == {0..n : n \in S}
<1>1. IsWellFoundedOn(R, F)
  BY FS_StrictSubsetOrderingWellFounded
<1>2. T \subseteq F
  <2>1. \A n \in S : 0..n \subseteq Nat /\ IsFiniteSet(0..n)
    BY FS_Interval
  <2> QED
    BY <2>1 DEF FiniteSubsetsOf
<1>3. T # {}
  OBVIOUS
<1>4. PICK x \in T : \A y \in T : ~(<<y, x>> \in R)
  <2> HIDE DEF R, F, T
  <2> QED
    BY <1>1, <1>2, <1>3, WFMin
<1>5. PICK c \in S : x = 0..c
  BY <1>4
<1>6. ASSUME NEW b \in S, b < c
      PROVE  FALSE
  <2>1. 0..b \subseteq 0..c /\ 0..b \in SUBSET Nat /\ 0..c \in SUBSET Nat
    BY <1>6
  <2>2. c \in 0..c /\ c \notin 0..b
    BY <1>6
  <2>3. 0..b # 0..c
    BY <2>2
  <2>4. <<0..b, 0..c>> \in R
    BY <2>1, <2>3 DEF StrictSubsetOrdering
  <2> QED
    BY <1>4, <1>5, <2>4
<1>7. ASSUME NEW b \in S
      PROVE  c <= b
  BY <1>6, <1>7
<1> QED
  BY <1>7

-----------------------------------------------------------------------------
(***************************************************************************)
(* The page invents no status of an asset: proved for any assets, any      *)
(* number of polls and reviews, and a server that changes its rows at any  *)
(* time.                                                                   *)
(***************************************************************************)

\* Every status of a list of assets is one its row has had.
HadIn(rows, had) ==
    /\ rows \in Shown
    /\ \A a \in Assets : rows[a] \in had[a] \cup {"absent"}

\* The lists under way are as old as they are: what they tell was so once.
PollInv(had) ==
    /\ poll = [pc |-> poll.pc, attempt |-> poll.attempt, answer |-> poll.answer,
               assets |-> poll.assets]
    /\ HadIn(poll.assets, had)

ReviewFields(r) == r = [pc |-> r.pc, base |-> r.base, result |-> r.result]

ReviewOK(r, a, had) ==
    /\ ReviewFields(r)
    /\ HadIn(r.base, had)
    /\ r.result \in AssetStatus
    /\ r.pc = "served" => r.result \in had[a]

ReviewsInv(had) ==
    /\ reviews = [a \in Assets |-> reviews[a]]
    /\ \A a \in Assets : ReviewOK(reviews[a], a, had)

ServerInv(had) ==
    /\ server = [task |-> server.task, assets |-> server.assets]
    /\ HadIn(server.assets, had)

SeenOK == seen = [a \in Assets |-> seen[a]]

HadInv == SeenOK /\ HadIn(shown, seen) /\ PollInv(seen) /\ ReviewsInv(seen) /\ ServerInv(seen)

Grows == \A a \in Assets : seen[a] \subseteq seen'[a]

-----------------------------------------------------------------------------
(* Lists of statuses. *)

LEMMA NothingHad == \A had : HadIn(NothingShown, had)
BY DEF HadIn, NothingShown, Shown

LEMMA HadGrows ==
    ASSUME Grows, NEW rows, HadIn(rows, seen)
    PROVE  HadIn(rows, seen')
BY DEF Grows, HadIn

LEMMA HadPut ==
    ASSUME NEW rows, NEW had, HadIn(rows, had), NEW a \in Assets,
           NEW status \in AssetStatus, status \in had[a]
    PROVE  HadIn([rows EXCEPT ![a] = status], had)
<1> DEFINE new == [rows EXCEPT ![a] = status]
<1>1. new \in Shown
  BY DEF HadIn, Shown
<1>2. ASSUME NEW b \in Assets
      PROVE  new[b] \in had[b] \cup {"absent"}
  <2>1. CASE b = a
    <3>1. new[b] = status
      BY <2>1 DEF HadIn, Shown
    <3> QED
      BY <2>1, <3>1
  <2>2. CASE b # a
    <3>1. new[b] = rows[b]
      BY <2>2 DEF HadIn, Shown
    <3> QED
      BY <3>1 DEF HadIn
  <2> QED
    BY <2>1, <2>2
<1> QED
  BY <1>1, <1>2 DEF HadIn

-----------------------------------------------------------------------------
(* Parts of the state that a step leaves alone only gain from the rows'     *)
(* further history.                                                         *)

LEMMA ReviewsGrow ==
    ASSUME HadInv, Grows
    PROVE  ReviewsInv(seen')
<1>1. ASSUME NEW a \in Assets
      PROVE  ReviewOK(reviews[a], a, seen')
  <2>1. ReviewOK(reviews[a], a, seen)
    BY DEF HadInv, ReviewsInv
  <2>2. HadIn(reviews[a].base, seen')
    BY <2>1, HadGrows DEF ReviewOK
  <2>3. reviews[a].pc = "served" => reviews[a].result \in seen'[a]
    BY <2>1 DEF ReviewOK, Grows
  <2> QED
    BY <2>1, <2>2, <2>3 DEF ReviewOK
<1> QED
  BY <1>1 DEF ReviewsInv, HadInv

LEMMA PartsGrow ==
    ASSUME HadInv, Grows
    PROVE  HadIn(shown, seen') /\ PollInv(seen')
BY HadGrows DEF HadInv, PollInv

\* A row changes: what it becomes is part of what it has been.
LEMMA RowsChange ==
    ASSUME HadInv, NEW a \in Assets, NEW status \in AssetStatus,
           SetAssets([server.assets EXCEPT ![a] = status])
    PROVE  Grows /\ SeenOK' /\ ServerInv(seen)' /\ status \in seen'[a]
<1> DEFINE rows == [server.assets EXCEPT ![a] = status]
<1>1. /\ server' = [server EXCEPT !.assets = rows]
      /\ seen' = [b \in Assets |-> seen[b] \cup ({rows[b]} \ {"absent"})]
  BY DEF SetAssets
<1>2. Grows /\ SeenOK'
  BY <1>1 DEF Grows, SeenOK
<1>3. rows[a] = status /\ status # "absent"
  BY DEF HadInv, ServerInv, HadIn, Shown, AssetStatus
<1>4. status \in seen'[a]
  BY <1>1, <1>3
<1>5. HadIn(server.assets, seen')
  BY <1>2, HadGrows DEF HadInv, ServerInv
<1>6. HadIn(rows, seen')
  BY <1>4, <1>5, HadPut
<1> HIDE DEF rows
<1>7. server' = [task |-> server.task, assets |-> rows]
  BY <1>1 DEF HadInv, ServerInv
<1>8. ServerInv(seen)'
  BY <1>6, <1>7 DEF ServerInv
<1> QED
  BY <1>2, <1>4, <1>8

-----------------------------------------------------------------------------
(* The steps. *)

LEMMA ReviewsStay ==
    ASSUME HadInv, UNCHANGED <<reviews, seen>>
    PROVE  ReviewsInv(seen)'
BY DEF HadInv, ReviewsInv, ReviewOK, ReviewFields

LEMMA ServerStays ==
    ASSUME HadInv, seen' = seen, server'.assets = server.assets,
           server' = [task |-> server'.task, assets |-> server'.assets]
    PROVE  ServerInv(seen)'
BY DEF HadInv, ServerInv

LEMMA PollStays ==
    ASSUME HadInv, seen' = seen, poll' = Idle \/ poll' = poll
    PROVE  PollInv(seen)'
<1>1. CASE poll' = Idle
  BY <1>1, NothingHad DEF PollInv, Idle
<1>2. CASE poll' = poll
  BY <1>2 DEF HadInv, PollInv
<1> QED
  BY <1>1, <1>2

LEMMA AllStays ==
    ASSUME HadInv, UNCHANGED <<shown, reviews, server, seen>>, poll' = Idle \/ poll' = poll
    PROVE  HadInv'
<1>1. ReviewsInv(seen)' /\ PollInv(seen)'
  BY ReviewsStay, PollStays
<1>2. ServerInv(seen)'
  BY DEF HadInv, ServerInv
<1>3. SeenOK' /\ HadIn(shown, seen)'
  BY DEF HadInv, SeenOK
<1> QED
  BY <1>1, <1>2, <1>3 DEF HadInv

LEMMA ProduceKeeps ==
    ASSUME HadInv, NEW a \in Assets, Produce(a)
    PROVE  HadInv'
<1>1. /\ SetAssets([server.assets EXCEPT ![a] = "generated"])
      /\ UNCHANGED <<shown, poll, reviews>>
  BY DEF Produce
<1>2. "generated" \in AssetStatus
  BY DEF AssetStatus
<1>3. Grows /\ SeenOK' /\ ServerInv(seen)'
  BY <1>1, <1>2, RowsChange
<1>4. HadIn(shown, seen)' /\ PollInv(seen)'
  BY <1>1, <1>3, PartsGrow DEF PollInv
<1>5. ReviewsInv(seen)'
  BY <1>1, <1>3, ReviewsGrow DEF ReviewsInv, ReviewOK, ReviewFields
<1> QED
  BY <1>3, <1>4, <1>5 DEF HadInv

LEMMA SettlesKeeps ==
    ASSUME HadInv, NEW verdict, ServerSettles(verdict)
    PROVE  HadInv'
<1>1. /\ server' = [server EXCEPT !.task = verdict]
      /\ UNCHANGED <<shown, poll, reviews, seen>>
  BY DEF ServerSettles
<1>2. server' = [task |-> verdict, assets |-> server.assets]
  BY <1>1 DEF HadInv, ServerInv
<1>3. ServerInv(seen)'
  BY <1>1, <1>2 DEF HadInv, ServerInv
<1>4. PollInv(seen)' /\ ReviewsInv(seen)'
  BY <1>1, PollStays, ReviewsStay
<1> QED
  BY <1>1, <1>3, <1>4 DEF HadInv, SeenOK

LEMMA CreateKeeps ==
    ASSUME HadInv, Submit \/ Upload \/ Post \/ Created \/ CreateFails
    PROVE  HadInv'
<1>1. CASE Submit \/ Upload \/ CreateFails
  BY <1>1, AllStays DEF Submit, Upload, CreateFails
<1>2. CASE Post
  <2>1. server' = [server EXCEPT !.task = "queued"] /\ UNCHANGED <<shown, poll, reviews, seen>>
    BY <1>2 DEF Post
  <2>2. server' = [task |-> "queued", assets |-> server.assets]
    BY <2>1 DEF HadInv, ServerInv
  <2>3. ServerInv(seen)'
    BY <2>1, <2>2 DEF HadInv, ServerInv
  <2>4. PollInv(seen)' /\ ReviewsInv(seen)'
    BY <2>1, PollStays, ReviewsStay
  <2> QED
    BY <2>1, <2>3, <2>4 DEF HadInv, SeenOK
<1>3. CASE Created
  <2>1. /\ poll' = [Idle EXCEPT !.pc = "timer", !.attempt = 1]
        /\ UNCHANGED <<shown, reviews, server, seen>>
    BY <1>3 DEF Created
  <2>2. poll' = [pc |-> "timer", attempt |-> 1, answer |-> "none", assets |-> NothingShown]
    BY <2>1 DEF Idle
  <2>3. PollInv(seen)'
    BY <2>2, NothingHad DEF PollInv
  <2>4. ReviewsInv(seen)'
    BY <2>1, ReviewsStay
  <2> QED
    BY <2>1, <2>3, <2>4 DEF HadInv, SeenOK, ServerInv
<1> QED
  BY <1>1, <1>2, <1>3

LEMMA PollKeeps ==
    ASSUME HadInv, Poll \/ PollAnswered \/ PollRead \/ PollFails
    PROVE  HadInv'
<1>1. UNCHANGED <<reviews, server, seen>>
  BY DEF Poll, PollAnswered, PollRead, PollFails
<1>2. ReviewsInv(seen)' /\ ServerInv(seen)' /\ SeenOK'
  BY <1>1, ReviewsStay DEF HadInv, ServerInv, SeenOK
<1>3. CASE Poll
  <2>1. shown' = shown /\ (poll' = Idle \/ poll' = [poll EXCEPT !.pc = "ask"])
    BY <1>3 DEF Poll
  <2>2. CASE poll' = [poll EXCEPT !.pc = "ask"]
    <3>1. PollInv(seen)'
      BY <1>1, <2>2 DEF HadInv, PollInv
    <3> QED
      BY <1>1, <1>2, <2>1, <3>1 DEF HadInv
  <2> QED
    BY <1>1, <2>1, <2>2, AllStays
<1>4. CASE PollAnswered
  <2>1. /\ poll' = [poll EXCEPT !.pc = "read", !.answer = server.task, !.assets = server.assets]
        /\ shown' = shown
    BY <1>4 DEF PollAnswered
  <2>2. poll' = [pc |-> "read", attempt |-> poll.attempt, answer |-> server.task,
                 assets |-> server.assets]
    BY <2>1 DEF HadInv, PollInv
  <2>3. PollInv(seen)'
    BY <1>1, <2>2 DEF HadInv, PollInv, ServerInv
  <2> QED
    BY <1>1, <1>2, <2>1, <2>3 DEF HadInv
<1>5. CASE PollRead
  <2>1. poll' = Idle \/ poll' = [Idle EXCEPT !.pc = "timer", !.attempt = poll.attempt + 1]
    BY <1>5 DEF PollRead
  <2>2. ASSUME poll' = [Idle EXCEPT !.pc = "timer", !.attempt = poll.attempt + 1]
        PROVE  PollInv(seen)'
    <3>1. poll' = [pc |-> "timer", attempt |-> poll.attempt + 1, answer |-> "none",
                   assets |-> NothingShown]
      BY <2>2 DEF Idle
    <3> QED
      BY <3>1, NothingHad DEF PollInv
  <2>3. PollInv(seen)'
    BY <1>1, <2>1, <2>2, PollStays
  <2>4. shown' = shown \/ shown' = poll.assets
    BY <1>5 DEF PollRead
  <2>5. HadIn(shown, seen)'
    BY <1>1, <2>4 DEF HadInv, PollInv
  <2> QED
    BY <1>2, <2>3, <2>5 DEF HadInv
<1>6. CASE PollFails
  BY <1>6, AllStays DEF PollFails
<1> QED
  BY <1>3, <1>4, <1>5, <1>6

\* A review under way keeps the list that was shown when it began.
LEMMA ReviewsChange ==
    ASSUME HadInv, seen' = seen, NEW a \in Assets, NEW r, ReviewOK(r, a, seen),
           reviews' = [reviews EXCEPT ![a] = r]
    PROVE  ReviewsInv(seen)'
<1>1. reviews' = [b \in Assets |-> IF b = a THEN r ELSE reviews[b]]
  BY DEF HadInv, ReviewsInv
<1>2. ASSUME NEW b \in Assets
      PROVE  ReviewOK(reviews'[b], b, seen)
  BY <1>1 DEF HadInv, ReviewsInv
<1>3. ASSUME NEW b \in Assets
      PROVE  ReviewOK(reviews[b], b, seen)'
  BY <1>2 DEF ReviewOK, ReviewFields
<1>4. reviews' = [b \in Assets |-> reviews'[b]]
  BY <1>1
<1> QED
  BY <1>3, <1>4 DEF ReviewsInv

LEMMA NoReviewOK == \A a \in Assets : ReviewOK(NoReview, a, seen)
BY NothingHad DEF ReviewOK, ReviewFields, NoReview, AssetStatus

LEMMA ReviewKeeps ==
    ASSUME HadInv, NEW a \in Assets, NEW result \in {"selected", "rejected"}, Review(a, result)
    PROVE  HadInv'
<1> DEFINE r == [pc |-> "sent", base |-> shown, result |-> result]
<1>1. reviews' = [reviews EXCEPT ![a] = r] /\ UNCHANGED <<shown, poll, server, seen>>
  BY DEF Review
<1>2. ReviewOK(r, a, seen)
  BY DEF ReviewOK, ReviewFields, HadInv, AssetStatus
<1> HIDE DEF r
<1>3. ReviewsInv(seen)'
  BY <1>1, <1>2, ReviewsChange
<1> QED
  BY <1>1, <1>3, PollStays DEF HadInv, SeenOK, ServerInv

LEMMA ServedKeeps ==
    ASSUME HadInv, NEW a \in Assets, ReviewServed(a)
    PROVE  HadInv'
<1> DEFINE r == reviews[a]
<1>1. /\ SetAssets([server.assets EXCEPT ![a] = r.result])
      /\ reviews' = [reviews EXCEPT ![a].pc = "served"]
      /\ UNCHANGED <<shown, poll>>
  BY DEF ReviewServed
<1>2. ReviewOK(r, a, seen)
  BY DEF HadInv, ReviewsInv
<1>3. r.result \in AssetStatus
  BY <1>2 DEF ReviewOK
<1>4. Grows /\ SeenOK' /\ ServerInv(seen)' /\ r.result \in seen'[a]
  BY <1>1, <1>3, RowsChange
<1>5. HadIn(shown, seen)' /\ PollInv(seen)'
  BY <1>1, <1>4, PartsGrow DEF PollInv
<1>6. reviews' = [b \in Assets |-> IF b = a THEN [r EXCEPT !.pc = "served"] ELSE reviews[b]]
  BY <1>1 DEF HadInv, ReviewsInv
<1>7. ReviewsInv(seen')
  BY <1>4, ReviewsGrow
<1>8. ReviewOK([r EXCEPT !.pc = "served"], a, seen')
  <2>1. ReviewOK(r, a, seen')
    BY <1>7 DEF ReviewsInv
  <2> HIDE DEF r
  <2>2. [r EXCEPT !.pc = "served"] = [pc |-> "served", base |-> r.base, result |-> r.result]
    BY <1>2 DEF ReviewOK, ReviewFields
  <2> QED
    BY <1>4, <2>1, <2>2 DEF ReviewOK, ReviewFields
<1>9. ReviewsInv(seen)'
  <2>1. ASSUME NEW b \in Assets
        PROVE  ReviewOK(reviews'[b], b, seen')
    BY <1>6, <1>7, <1>8 DEF ReviewsInv
  <2>2. reviews' = [b \in Assets |-> reviews'[b]]
    BY <1>6
  <2> QED
    BY <2>1, <2>2 DEF ReviewsInv, ReviewOK, ReviewFields
<1> QED
  BY <1>4, <1>5, <1>9 DEF HadInv

LEMMA ReviewEndKeeps ==
    ASSUME HadInv, NEW a \in Assets, Reviewed(a) \/ ReviewFails(a)
    PROVE  HadInv'
<1>1. reviews' = [reviews EXCEPT ![a] = NoReview] /\ UNCHANGED <<poll, server, seen>>
  BY DEF Reviewed, ReviewFails
<1>2. ReviewsInv(seen)'
  BY <1>1, NoReviewOK, ReviewsChange
<1>3. HadIn(shown, seen)'
  <2>1. ReviewOK(reviews[a], a, seen)
    BY DEF HadInv, ReviewsInv
  <2>2. CASE Reviewed(a)
    <3>1. reviews[a].pc = "served" /\ \/ shown' = shown
                                      \/ shown' = [reviews[a].base EXCEPT ![a] = reviews[a].result]
      BY <2>2 DEF Reviewed, Patch
    <3>2. HadIn([reviews[a].base EXCEPT ![a] = reviews[a].result], seen)
      BY <2>1, <3>1, HadPut DEF ReviewOK
    <3> QED
      BY <1>1, <3>1, <3>2 DEF HadInv
  <2>3. CASE ReviewFails(a)
    BY <1>1, <2>3 DEF ReviewFails, HadInv
  <2> QED
    BY <2>2, <2>3
<1> QED
  BY <1>1, <1>2, <1>3, PollStays DEF HadInv, SeenOK, ServerInv

LEMMA PageEndKeeps ==
    ASSUME HadInv, RemoveHosted \/ HostedReload
    PROVE  HadInv'
<1>1. UNCHANGED <<server, seen>> /\ (poll' = Idle \/ poll' = poll)
  BY DEF RemoveHosted, HostedReload
<1>2. shown' = shown \/ shown' = NothingShown
  BY DEF RemoveHosted, HostedReload
<1>3. HadIn(shown, seen)'
  BY <1>1, <1>2, NothingHad DEF HadInv
<1>4. reviews' = reviews \/ reviews' = [a \in Assets |-> NoReview]
  BY DEF RemoveHosted, HostedReload
<1>5. ASSUME reviews' = reviews
      PROVE  ReviewsInv(seen)'
  BY <1>1, <1>5, ReviewsStay
<1>6. ASSUME reviews' = [a \in Assets |-> NoReview]
      PROVE  ReviewsInv(seen)'
  <2>1. \A a \in Assets : ReviewOK(reviews[a], a, seen)'
    BY <1>1, <1>6, NoReviewOK DEF ReviewOK, ReviewFields
  <2> QED
    BY <1>6, <2>1 DEF ReviewsInv
<1> QED
  BY <1>1, <1>3, <1>4, <1>5, <1>6, PollStays DEF HadInv, SeenOK, ServerInv

-----------------------------------------------------------------------------
LEMMA InitHadInv == HostedInit => HadInv
<1> SUFFICES ASSUME HostedInit
             PROVE  HadInv
  OBVIOUS
<1>1. HadIn(shown, seen) /\ PollInv(seen) /\ ServerInv(seen) /\ SeenOK
  BY NothingHad DEF HostedInit, PollInv, ServerInv, SeenOK, Idle
<1>2. ReviewsInv(seen)
  BY NoReviewOK DEF HostedInit, ReviewsInv
<1> QED
  BY <1>1, <1>2 DEF HadInv

LEMMA NextHadInv == HadInv /\ [HostedNext]_hostedVars => HadInv'
<1> SUFFICES ASSUME HadInv, [HostedNext]_hostedVars
             PROVE  HadInv'
  OBVIOUS
<1>1. CASE Submit \/ Page
  BY <1>1, CreateKeeps, PollKeeps DEF Page
<1>2. CASE RemoveHosted \/ HostedReload
  BY <1>2, PageEndKeeps
<1>3. ASSUME NEW verdict \in Verdicts, ServerSettles(verdict)
      PROVE  HadInv'
  BY <1>3, SettlesKeeps
<1>4. ASSUME NEW a \in Assets,
             Produce(a) \/ ReviewServed(a) \/ Reviewed(a) \/ ReviewFails(a)
      PROVE  HadInv'
  BY <1>4, ProduceKeeps, ServedKeeps, ReviewEndKeeps
<1>5. ASSUME NEW a \in Assets, NEW result \in {"selected", "rejected"}, Review(a, result)
      PROVE  HadInv'
  BY <1>5, ReviewKeeps
<1>6. CASE UNCHANGED hostedVars
  BY <1>6, AllStays DEF hostedVars
<1> QED
  BY <1>1, <1>2, <1>3, <1>4, <1>5, <1>6 DEF HostedNext

\* However old the answers of polls and reviews are when they are read, the
\* page shows of an asset only what its row has been (pollImageflowTask,
\* patchImageflowAsset and the handlers of the server's asset rows).
THEOREM ShownWasOnceTrue == HostedSpec => []ShownWasServers
<1>1. HadInv => ShownWasServers
  BY DEF HadInv, HadIn, ShownWasServers
<1> QED
  BY InitHadInv, NextHadInv, <1>1, PTL DEF HostedSpec

-----------------------------------------------------------------------------
(***************************************************************************)
(* A loop that rests has written the conversations: proved for any         *)
(* conversations and texts and any number of reloads and failed writes.    *)
(***************************************************************************)

Stages == [Convs -> {"absent", "empty", "used"}]

\* What the loop last wrote is what is stored and what the page shows as long
\* as it rests; a page that is starting has written nothing.
LoopInv ==
    /\ convs \in Stages /\ stored \in Stages
    /\ flush = [pc |-> flush.pc, queued |-> flush.queued, batch |-> flush.batch,
                last |-> flush.last]
    /\ flush.batch \in Stages
    /\ flush.pc = "idle" => stored = flush.last /\ convs = flush.last
    /\ flush.pc = "closed" => flush.last = NoConvs

-----------------------------------------------------------------------------
LEMMA InitLoop == DraftsInit => LoopInv
BY DEF DraftsInit, LoopInv, Stages, NoConvs

LEMMA LoopStays ==
    ASSUME LoopInv, UNCHANGED <<convs, stored, flush>>
    PROVE  LoopInv'
BY DEF LoopInv, Stages, NoConvs

\* The subscription wakes a loop that rests whenever the conversations change.
LEMMA NotifyKeeps ==
    ASSUME LoopInv, convs' \in Stages, stored' = stored, Notify
    PROVE  LoopInv'
<1>1. CASE convs' = flush.last
  BY <1>1 DEF LoopInv, Notify, Stages, NoConvs
<1>2. CASE convs' # flush.last /\ flush.pc \in {"writing", "closed"}
  BY <1>2 DEF LoopInv, Notify, Stages, NoConvs
<1>3. CASE convs' # flush.last /\ flush.pc \notin {"writing", "closed"}
  BY <1>3 DEF LoopInv, Notify, Stages, NoConvs
<1> QED
  BY <1>1, <1>2, <1>3

\* Steps of the composer and of the mode leave the conversations alone.
LEMMA SetKeeps ==
    ASSUME LoopInv, UNCHANGED <<convs, stored>>, Set
    PROVE  LoopInv'
BY NotifyKeeps DEF LoopInv, Set

LEMMA ComposeKeeps ==
    ASSUME LoopInv, NEW d, Compose(d)
    PROVE  LoopInv'
BY SetKeeps DEF Compose

\* One conversation is created, used or deleted.
LEMMA ConversationKeeps ==
    ASSUME LoopInv, NEW c, NEW stage \in {"absent", "empty", "used"},
           convs' = [convs EXCEPT ![c] = stage], stored' = stored, Set
    PROVE  LoopInv'
<1>1. convs' \in Stages
  BY DEF LoopInv, Stages
<1> QED
  BY <1>1, NotifyKeeps DEF Set

\* The loop rests only when the conversations are still those it wrote.
LEMMA FlushWrittenKeeps ==
    ASSUME LoopInv, FlushWritten
    PROVE  LoopInv'
<1>1. CASE flush.queued \/ convs # flush.batch
  BY <1>1 DEF LoopInv, FlushWritten, Stages, NoConvs
<1>2. CASE ~(flush.queued \/ convs # flush.batch)
  BY <1>2 DEF LoopInv, FlushWritten, Stages, NoConvs
<1> QED
  BY <1>1, <1>2

\* A start-up that finds nothing stored and nothing created has nothing to write.
LEMMA LoadKeeps ==
    ASSUME LoopInv, LoadConversations, flush.pc = "closed"
    PROVE  LoopInv'
<1>1. convs' = [c \in Convs |-> IF stored[c] # "absent" THEN stored[c] ELSE convs[c]]
  BY DEF LoadConversations
<1>2. convs' \in Stages
  BY <1>1 DEF LoopInv, Stages
<1>3. CASE KnownIn(convs') = {}
  <2>1. \A c \in Convs : convs'[c] = "absent"
    BY <1>3 DEF KnownIn
  <2>2. convs' = NoConvs
    BY <1>1, <2>1 DEF NoConvs
  <2>3. \A c \in Convs : stored[c] = "absent"
    BY <1>1, <2>1
  <2>4. stored = NoConvs
    BY <2>3 DEF LoopInv, Stages, NoConvs
  <2>5. flush' = [flush EXCEPT !.pc = "idle"] /\ stored' = stored
    BY <1>3 DEF LoadConversations
  <2> QED
    BY <1>2, <2>2, <2>4, <2>5 DEF LoopInv, Stages, NoConvs
<1>4. CASE KnownIn(convs') # {}
  <2>1. flush' = [flush EXCEPT !.pc = "writing", !.batch = convs'] /\ stored' = stored
    BY <1>4 DEF LoadConversations
  <2> QED
    BY <1>2, <2>1 DEF LoopInv, Stages, NoConvs
<1> QED
  BY <1>3, <1>4

-----------------------------------------------------------------------------
(* That only a page that is starting loads conversations, and that the      *)
(* subscription waits for it, is part of the invariant.                     *)

Starting == load.pc = "conversations" => flush.pc = "closed"

LoadFields == load = [pc |-> load.pc, loads |-> load.loads, gallery |-> load.gallery,
                      drafts |-> load.drafts]

StoreInv == LoopInv /\ Starting /\ LoadFields

LEMMA NotifyStarting ==
    ASSUME LoopInv, Starting, LoadFields, load' = load, Notify
    PROVE  Starting' /\ LoadFields'
BY DEF Starting, Notify, LoopInv, LoadFields

LEMMA UserKeeps ==
    ASSUME StoreInv, load' = load, stored' = stored, convs' = convs, Set
    PROVE  StoreInv'
BY SetKeeps, NotifyStarting DEF StoreInv, Set

LEMMA ChangeKeeps ==
    ASSUME StoreInv, NEW c, NEW stage \in {"absent", "empty", "used"},
           convs' = [convs EXCEPT ![c] = stage], stored' = stored, load' = load, Set
    PROVE  StoreInv'
BY ConversationKeeps, NotifyStarting DEF StoreInv, Set

LEMMA ComposerKeeps ==
    ASSUME StoreInv,
           \/ \E text \in Texts \cup {""} : SetPrompt(text)
           \/ AddInputImage \/ RemoveInputImage \/ SetMaskDraft \/ ClearMaskDraft
    PROVE  StoreInv'
<1>1. ASSUME NEW d, Compose(d)
      PROVE  StoreInv'
  BY <1>1, UserKeeps DEF Compose
<1> QED
  BY <1>1 DEF SetPrompt, AddInputImage, RemoveInputImage, SetMaskDraft, ClearMaskDraft

LEMMA ConversationsKeep ==
    ASSUME StoreInv, NEW c \in Convs,
           CreateConversation(c) \/ OpenConversation(c) \/ DeleteConversation(c)
    PROVE  StoreInv'
<1>1. CASE CreateConversation(c)
  <2>1. convs' = [convs EXCEPT ![c] = "empty"] /\ stored' = stored /\ load' = load /\ Set
    BY <1>1 DEF CreateConversation
  <2> QED
    BY <2>1, ChangeKeeps
<1>2. CASE OpenConversation(c)
  BY <1>2, UserKeeps DEF OpenConversation
<1>3. CASE DeleteConversation(c)
  <2>1. convs' = [convs EXCEPT ![c] = "absent"] /\ stored' = stored /\ load' = load /\ Set
    BY <1>3 DEF DeleteConversation
  <2> QED
    BY <2>1, ChangeKeeps
<1> QED
  BY <1>1, <1>2, <1>3

LEMMA SendKeeps ==
    ASSUME StoreInv, SendMessage
    PROVE  StoreInv'
<1>1. convs' = [convs EXCEPT ![place] = "used"] /\ stored' = stored /\ load' = load /\ Set
  BY DEF SendMessage
<1> QED
  BY <1>1, ChangeKeeps

LEMMA FlushKeeps ==
    ASSUME StoreInv, FlushWritten \/ FlushFails
    PROVE  StoreInv'
<1>1. load' = load /\ flush.pc = "writing"
  BY DEF FlushWritten, FlushFails
<1>2. Starting' /\ LoadFields'
  BY <1>1 DEF StoreInv, Starting, LoadFields
<1>3. CASE FlushWritten
  BY <1>2, <1>3, FlushWrittenKeeps DEF StoreInv
<1>4. CASE FlushFails
  BY <1>2, <1>4 DEF StoreInv, LoopInv, FlushFails, Stages, NoConvs
<1> QED
  BY <1>3, <1>4

LEMMA ReloadKeeps ==
    ASSUME StoreInv, PageReload
    PROVE  StoreInv'
<1>1. /\ convs' = NoConvs /\ stored' = stored
      /\ flush' = [pc |-> "closed", queued |-> FALSE, batch |-> NoConvs, last |-> NoConvs]
      /\ load' = [pc |-> "conversations", loads |-> load.loads + 1,
                  gallery |-> Empty, drafts |-> NoDrafts]
  BY DEF PageReload
<1> QED
  BY <1>1 DEF StoreInv, LoopInv, Starting, LoadFields, Stages, NoConvs

LEMMA StartKeeps ==
    ASSUME StoreInv, LoadConversations \/ ReadDrafts \/ RestoreDrafts
    PROVE  StoreInv'
<1>1. CASE LoadConversations
  <2>1. LoopInv'
    BY <1>1, LoadKeeps DEF StoreInv, Starting, LoadConversations
  <2>2. load' = [load EXCEPT !.pc = "tasks"]
    BY <1>1 DEF LoadConversations
  <2> QED
    BY <2>1, <2>2 DEF StoreInv, Starting, LoadFields
<1>2. CASE ReadDrafts
  <2>1. /\ load' = [load EXCEPT !.pc = "images", !.gallery = gallery, !.drafts = drafts]
        /\ UNCHANGED <<convs, stored, flush>>
    BY <1>2 DEF ReadDrafts
  <2> QED
    BY <2>1, LoopStays DEF StoreInv, Starting, LoadFields
<1>3. CASE RestoreDrafts
  <2>1. /\ load' = [load EXCEPT !.pc = "done", !.gallery = Empty, !.drafts = NoDrafts]
        /\ UNCHANGED <<convs, stored>> /\ Set
    BY <1>3 DEF RestoreDrafts
  <2> QED
    BY <2>1, SetKeeps DEF StoreInv, Starting, LoadFields
<1> QED
  BY <1>1, <1>2, <1>3

-----------------------------------------------------------------------------
LEMMA InitStoreInv == DraftsInit => StoreInv
BY InitLoop DEF DraftsInit, StoreInv, Starting, LoadFields

LEMMA NextStoreInv == StoreInv /\ [DraftsNext]_draftVars => StoreInv'
<1> SUFFICES ASSUME StoreInv, [DraftsNext]_draftVars
             PROVE  StoreInv'
  OBVIOUS
<1>1. CASE SetGalleryMode \/ SetAgentMode
  BY <1>1, UserKeeps DEF SetGalleryMode, SetAgentMode
<1>2. CASE UNCHANGED draftVars
  BY <1>2, LoopStays DEF draftVars, StoreInv, Starting, LoadFields
<1>3. CASE DraftsNext
  BY <1>1, <1>3, ComposerKeeps, ConversationsKeep, SendKeeps, FlushKeeps, ReloadKeeps,
     StartKeeps DEF DraftsNext
<1> QED
  BY <1>2, <1>3

\* However the conversations change while they are written, and whichever
\* write fails or page ends, a loop that rests has stored what the page shows
\* (flushAgentConversationsToIndexedDB and the subscription that calls it).
THEOREM ConversationsWereStored == DraftsSpec => []ConversationsAreStored
<1>1. StoreInv => ConversationsAreStored
  BY DEF StoreInv, LoopInv, ConversationsAreStored
<1> QED
  BY InitStoreInv, NextStoreInv, <1>1, PTL DEF DraftsSpec

-----------------------------------------------------------------------------
(***************************************************************************)
(* Nothing typed is lost or mixed up: proved for any conversations and     *)
(* texts, any reloads and failed writes, with or without the persistence   *)
(* of the gallery's draft, as long as the user waits for a start-up.       *)
(***************************************************************************)

\* What the page holds: the draft of every place is what was typed there, and
\* the composer shows the draft of the place the user is at.
HeldShape ==
    /\ mode \in {"gallery", "agent"} /\ place \in Convs \cup {Nowhere}
    /\ drafts = [c \in Convs |-> drafts[c]]
    /\ typed = [p \in Places |-> typed[p]]

GalleryHeld == gallery = typed[Gallery] /\ (mode = "gallery" => composer = gallery)

ConvsHeld ==
    /\ \A c \in Known : drafts[c] = typed[c]
    /\ mode = "agent" /\ place \in Known => composer = drafts[place]

\* What localStorage holds.  Drafts of conversations that are not known are
\* dropped by the next write, which a start-up without any leaves out.
SavedShape ==
    /\ saved.mode \in {"gallery", "agent"} /\ saved.place \in Convs \cup {Nowhere}
    /\ saved.drafts = [c \in Convs |-> saved.drafts[c]]

GallerySaved == saved.gallery = IF PersistInput THEN gallery ELSE Empty

ConvsSaved == \A c \in Known : saved.drafts[c] = typed[c]

NothingFound ==
    /\ load.pc \in {"tasks", "images"} /\ Known = {} /\ KnownIn(stored) = {}
    /\ flush.pc # "writing"

OthersDropped == NothingFound \/ \A c \in Convs \ Known : saved.drafts[c] = Empty

\* Before the conversations are loaded, the drafts are those of localStorage.
StartHeld ==
    /\ convs = NoConvs /\ drafts = saved.drafts
    /\ \A c \in KnownIn(stored) : saved.drafts[c] = typed[c]

\* The drafts whose images are being read are still those of the page.
ReadHeld == load.gallery = gallery /\ load.drafts = drafts

TypedInv ==
    /\ HeldShape /\ GalleryHeld /\ SavedShape /\ GallerySaved
    /\ load.pc = "conversations" => StartHeld
    /\ load.pc # "conversations" => ConvsHeld /\ ConvsSaved /\ OthersDropped
    /\ load.pc = "images" => ReadHeld

-----------------------------------------------------------------------------
(* The draft that is left, and the one that is written. *)

LEMMA PlacesDiffer == Gallery \notin Convs /\ Nowhere \notin Convs /\ Convs \subseteq Nat
BY WebDraftsAssumption DEF Gallery, Nowhere

LEMMA DraftLeft ==
    ASSUME HeldShape, NEW d
    PROVE  SavedDrafts(mode, place, d, drafts)
              = [c \in Convs |-> IF mode = "agent" /\ c = place THEN d ELSE drafts[c]]
BY PlacesDiffer DEF HeldShape, SavedDrafts

\* Every write ends with localStorage holding what the page holds.
LEMMA PersistHolds ==
    ASSUME HeldShape', GalleryHeld', ConvsHeld', Persist,
           load'.pc \notin {"conversations", "images"}
    PROVE  TypedInv'
<1> DEFINE left == SavedDrafts(mode', place', composer', drafts')
<1>1. left = [c \in Convs |-> IF mode' = "agent" /\ c = place' THEN composer' ELSE drafts'[c]]
  BY PlacesDiffer DEF HeldShape, SavedDrafts
<1>2. \A c \in KnownIn(convs') : left[c] = typed'[c]
  BY <1>1 DEF ConvsHeld, Known, KnownIn
<1>3. SavedGallery(mode', composer', gallery') = gallery'
  BY DEF SavedGallery, GalleryHeld
<1> HIDE DEF left
<1>4. saved' = [mode |-> mode', place |-> place',
                gallery |-> IF PersistInput THEN gallery' ELSE Empty,
                drafts |-> [c \in Convs |-> IF c \in KnownIn(convs') THEN left[c] ELSE Empty]]
  BY <1>3 DEF Persist, left
<1>5. SavedShape' /\ GallerySaved'
  BY <1>4 DEF SavedShape, GallerySaved, HeldShape
<1>6. ConvsSaved' /\ OthersDropped'
  BY <1>2, <1>4 DEF ConvsSaved, OthersDropped, Known, KnownIn
<1> QED
  BY <1>5, <1>6 DEF TypedInv

-----------------------------------------------------------------------------
(* The composer. *)

\* What the invariant says while the user may act.
AtWork == load.pc = "done" /\ HeldShape /\ GalleryHeld /\ ConvsHeld

LEMMA UserWaits == QuietStart /\ TypedInv /\ UserMay => AtWork
BY DEF TypedInv, UserMay, AtWork

LEMMA ComposeHolds ==
    ASSUME AtWork, NEW d, Compose(d)
    PROVE  TypedInv'
<1>1. /\ composer' = d /\ gallery' = IF mode = "gallery" THEN d ELSE gallery
      /\ typed' = [typed EXCEPT ![Here] = d] /\ Persist
      /\ UNCHANGED <<mode, place, convs, load>>
  BY DEF Compose, Set
<1>2. drafts' = [c \in Convs |-> IF mode = "agent" /\ c = place THEN d ELSE drafts[c]]
  BY DraftLeft DEF Compose, AtWork
<1>3. Here \in Places
  BY DEF Here, Places, AtWork, HeldShape, Compose
<1>4. typed' = [p \in Places |-> IF p = Here THEN d ELSE typed[p]]
  BY <1>1, <1>3 DEF AtWork, HeldShape
<1>5. HeldShape'
  BY <1>1, <1>2, <1>4 DEF AtWork, HeldShape
<1>6. GalleryHeld'
  <2>1. CASE mode = "gallery"
    <3>1. Here = Gallery
      BY <2>1 DEF Here
    <3> QED
      BY <1>1, <1>3, <1>4, <2>1, <3>1 DEF GalleryHeld
  <2>2. CASE mode = "agent"
    <3>1. Here # Gallery /\ Gallery \in Places
      BY <2>2, PlacesDiffer DEF Here, Compose, AtWork, HeldShape, Places
    <3> QED
      BY <1>1, <1>4, <2>2, <3>1 DEF AtWork, GalleryHeld
  <2> QED
    BY <2>1, <2>2 DEF AtWork, HeldShape
<1>7. ConvsHeld'
  BY <1>1, <1>2, <1>4, PlacesDiffer DEF AtWork, ConvsHeld, HeldShape, Here, Places, Known
<1> QED
  BY <1>1, <1>5, <1>6, <1>7, PersistHolds DEF AtWork

LEMMA ComposerHolds ==
    ASSUME QuietStart, TypedInv,
           \/ \E text \in Texts \cup {""} : SetPrompt(text)
           \/ AddInputImage \/ RemoveInputImage \/ SetMaskDraft \/ ClearMaskDraft
    PROVE  TypedInv'
<1>1. ASSUME NEW d, Compose(d)
      PROVE  TypedInv'
  <2>1. UserMay
    BY <1>1 DEF Compose
  <2> QED
    BY <1>1, <2>1, UserWaits, ComposeHolds
<1> QED
  BY <1>1 DEF SetPrompt, AddInputImage, RemoveInputImage, SetMaskDraft, ClearMaskDraft

LEMMA SendHolds ==
    ASSUME AtWork, SendMessage
    PROVE  TypedInv'
<1>1. /\ mode = "agent" /\ place \in Known /\ composer' = Empty
      /\ convs' = [convs EXCEPT ![place] = "used"]
      /\ drafts' = [drafts EXCEPT ![place] = Empty] /\ typed' = [typed EXCEPT ![place] = Empty]
      /\ UNCHANGED <<mode, place, gallery, load>> /\ Persist
  BY DEF SendMessage, Set
<1>2. place \in Convs /\ place \in Places /\ Gallery \in Places /\ place # Gallery
  BY <1>1, PlacesDiffer DEF Known, Places
<1>3. /\ drafts' = [c \in Convs |-> IF c = place THEN Empty ELSE drafts[c]]
      /\ typed' = [p \in Places |-> IF p = place THEN Empty ELSE typed[p]]
  BY <1>1, <1>2 DEF AtWork, HeldShape
<1>4. \A c \in Known' : c = place \/ c \in Known
  BY <1>1 DEF Known
<1>5. HeldShape'
  BY <1>1, <1>3 DEF AtWork, HeldShape
<1>6. GalleryHeld'
  BY <1>1, <1>2, <1>3 DEF AtWork, GalleryHeld
<1>7. ConvsHeld'
  BY <1>1, <1>2, <1>3, <1>4 DEF AtWork, ConvsHeld, Known, Places
<1> QED
  BY <1>1, <1>5, <1>6, <1>7, PersistHolds DEF AtWork

-----------------------------------------------------------------------------
(* The mode and the conversations. *)

LEMMA ModeHolds ==
    ASSUME AtWork, SetGalleryMode \/ SetAgentMode
    PROVE  TypedInv'
<1>1. UNCHANGED <<place, convs, load, typed>> /\ Persist /\ gallery' = gallery
  BY DEF SetGalleryMode, SetAgentMode, Set, SavedGallery, AtWork, GalleryHeld
<1>2. CASE SetGalleryMode
  <2>1. drafts' = [c \in Convs |-> IF mode = "agent" /\ c = place THEN composer ELSE drafts[c]]
    BY <1>2, DraftLeft DEF SetGalleryMode, AtWork
  <2>2. mode' = "gallery" /\ composer' = gallery'
    BY <1>1, <1>2 DEF SetGalleryMode, AtWork, GalleryHeld, HeldShape
  <2>3. HeldShape' /\ GalleryHeld'
    BY <1>1, <2>1, <2>2 DEF AtWork, HeldShape, GalleryHeld
  <2>4. ConvsHeld'
    BY <1>1, <2>1, <2>2 DEF AtWork, ConvsHeld, Known
  <2> QED
    BY <1>1, <2>3, <2>4, PersistHolds DEF AtWork
<1>3. CASE SetAgentMode
  <2>1. mode' = "agent" /\ drafts' = drafts /\ composer' = DraftAt(drafts, place)
    BY <1>3 DEF SetAgentMode
  <2>2. HeldShape' /\ GalleryHeld'
    BY <1>1, <2>1 DEF AtWork, HeldShape, GalleryHeld
  <2>3. ConvsHeld'
    BY <1>1, <2>1, PlacesDiffer DEF AtWork, ConvsHeld, Known, DraftAt
  <2> QED
    BY <1>1, <2>2, <2>3, PersistHolds DEF AtWork
<1> QED
  BY <1>2, <1>3

\* The draft that is left is kept, and the one that is reached is shown.
LEMMA GoHolds ==
    ASSUME AtWork, mode = "agent", NEW c \in Convs, Go(c)
    PROVE  /\ place' = c
           /\ drafts' = [b \in Convs |-> IF b = place THEN composer ELSE drafts[b]]
           /\ composer' = drafts'[c]
           /\ \A b \in Known : drafts'[b] = typed[b]
           /\ c # place => drafts'[c] = drafts[c]
<1>1. drafts' = [b \in Convs |-> IF b = place THEN composer ELSE drafts[b]]
  BY DraftLeft DEF Go, AtWork
<1>2. composer' = drafts'[c]
  BY PlacesDiffer DEF Go, DraftAt
<1> QED
  BY <1>1, <1>2 DEF Go, AtWork, ConvsHeld, Known

LEMMA OpenHolds ==
    ASSUME AtWork, NEW c \in Convs, OpenConversation(c)
    PROVE  TypedInv'
<1>1. mode = "agent" /\ Go(c) /\ UNCHANGED <<mode, gallery, convs, load, typed>> /\ Persist
  BY DEF OpenConversation, Set
<1>2. /\ place' = c /\ composer' = drafts'[c]
      /\ drafts' = [b \in Convs |-> IF b = place THEN composer ELSE drafts[b]]
      /\ \A b \in Known : drafts'[b] = typed[b]
  BY <1>1, GoHolds
<1>3. HeldShape' /\ GalleryHeld' /\ ConvsHeld'
  BY <1>1, <1>2 DEF AtWork, HeldShape, GalleryHeld, ConvsHeld, Known
<1> QED
  BY <1>1, <1>3, PersistHolds DEF AtWork

LEMMA CreateHolds ==
    ASSUME AtWork, NEW c \in Convs, CreateConversation(c)
    PROVE  TypedInv'
<1>1. /\ mode = "agent" /\ Go(c) /\ UNCHANGED <<mode, gallery, load>> /\ Persist
      /\ convs' = [convs EXCEPT ![c] = "empty"]
      /\ convs[c] # "absent" \/ (convs[c] = "absent" /\ c # place /\ drafts[c] = Empty)
      /\ typed' = IF convs[c] = "absent" THEN [typed EXCEPT ![c] = Empty] ELSE typed
  BY DEF CreateConversation, Set
<1>2. /\ place' = c /\ composer' = drafts'[c]
      /\ drafts' = [b \in Convs |-> IF b = place THEN composer ELSE drafts[b]]
      /\ \A b \in Known : drafts'[b] = typed[b]
      /\ c # place => drafts'[c] = drafts[c]
  BY <1>1, GoHolds
<1>3. c \in Places /\ c # Gallery /\ Gallery \in Places
  BY PlacesDiffer DEF Places
<1>4. typed' = [p \in Places |-> IF p = c /\ convs[c] = "absent" THEN Empty ELSE typed[p]]
  BY <1>1, <1>3 DEF AtWork, HeldShape
<1>5. \A b \in Known' : b \in Convs /\ (b = c \/ b \in Known)
  BY <1>1 DEF Known
<1>6. HeldShape' /\ GalleryHeld'
  BY <1>1, <1>2, <1>3, <1>4 DEF AtWork, HeldShape, GalleryHeld
<1>7. \A b \in Known' : drafts'[b] = typed'[b]
  <2>1. CASE convs[c] = "absent"
    <3>1. drafts'[c] = Empty /\ c \notin Known
      BY <1>1, <1>2, <2>1 DEF Known
    <3> QED
      BY <1>2, <1>4, <1>5, <2>1, <3>1 DEF Places
  <2>2. CASE convs[c] # "absent"
    <3>1. c \in Known
      BY <2>2 DEF Known
    <3> QED
      BY <1>2, <1>4, <1>5, <2>2, <3>1 DEF Places
  <2> QED
    BY <2>1, <2>2
<1> QED
  BY <1>1, <1>2, <1>6, <1>7, PersistHolds DEF AtWork, ConvsHeld

LEMMA DeleteHolds ==
    ASSUME AtWork, NEW c \in Convs, DeleteConversation(c)
    PROVE  TypedInv'
<1>1. /\ mode = "agent" /\ convs' = [convs EXCEPT ![c] = "absent"]
      /\ drafts' = [drafts EXCEPT ![c] = Empty] /\ typed' = [typed EXCEPT ![c] = Empty]
      /\ place' = IF place = c THEN Nowhere ELSE place
      /\ composer' = IF place = c THEN Empty ELSE composer
      /\ UNCHANGED <<mode, gallery, load>> /\ Persist
  BY DEF DeleteConversation, Set
<1>2. c \in Places /\ c # Gallery /\ Gallery \in Places
  BY PlacesDiffer DEF Places
<1>3. /\ drafts' = [b \in Convs |-> IF b = c THEN Empty ELSE drafts[b]]
      /\ typed' = [p \in Places |-> IF p = c THEN Empty ELSE typed[p]]
  BY <1>1, <1>2 DEF AtWork, HeldShape
<1>4. \A b \in Known' : b \in Convs /\ (b = c \/ b \in Known)
  BY <1>1 DEF Known
<1>5. HeldShape' /\ GalleryHeld'
  BY <1>1, <1>2, <1>3 DEF AtWork, HeldShape, GalleryHeld
<1>6. \A b \in Known' : drafts'[b] = typed'[b]
  BY <1>3, <1>4 DEF AtWork, ConvsHeld, Places
<1>7. place' \in Known' => composer' = drafts'[place']
  <2>1. CASE place = c
    BY <1>1, <2>1, PlacesDiffer DEF Known
  <2>2. CASE place # c
    BY <1>1, <1>3, <1>4, <2>2 DEF AtWork, ConvsHeld
  <2> QED
    BY <2>1, <2>2
<1> QED
  BY <1>1, <1>5, <1>6, <1>7, PersistHolds DEF AtWork, ConvsHeld

-----------------------------------------------------------------------------
(* The writing loop and the start-up. *)

LEMMA TypedStays ==
    ASSUME TypedInv, UNCHANGED draftVars
    PROVE  TypedInv'
BY DEF TypedInv, draftVars, HeldShape, GalleryHeld, SavedShape, GallerySaved, StartHeld, ConvsHeld,
   ConvsSaved, OthersDropped, NothingFound, ReadHeld, Known, KnownIn, NoConvs

\* What the loop stores while the user works is of no concern to the drafts.
LEMMA FlushHolds ==
    ASSUME TypedInv, StoreInv, FlushWritten \/ FlushFails
    PROVE  TypedInv'
<1>1. /\ UNCHANGED <<mode, place, composer, gallery, drafts, convs, saved, load, typed>>
      /\ flush.pc = "writing"
  BY DEF FlushWritten, FlushFails
<1>2. load.pc # "conversations"
  BY <1>1 DEF StoreInv, Starting
<1>3. HeldShape' /\ GalleryHeld' /\ SavedShape' /\ GallerySaved'
  BY <1>1 DEF TypedInv, HeldShape, GalleryHeld, SavedShape, GallerySaved
<1>4. ConvsHeld' /\ ConvsSaved' /\ (load.pc = "images" => ReadHeld')
  BY <1>1, <1>2 DEF TypedInv, ConvsHeld, ConvsSaved, ReadHeld, Known
<1>5. \A c \in Convs \ Known : saved.drafts[c] = Empty
  BY <1>1, <1>2 DEF TypedInv, OthersDropped, NothingFound
<1>6. OthersDropped'
  BY <1>1, <1>5 DEF OthersDropped, Known
<1> QED
  BY <1>1, <1>2, <1>3, <1>4, <1>6 DEF TypedInv

\* A reload keeps of what was typed what the places that survive have in
\* localStorage.
LEMMA ReloadHolds ==
    ASSUME TypedInv, PageReload
    PROVE  TypedInv'
<1>1. /\ load'.pc = "conversations" /\ convs' = NoConvs
      /\ mode' = saved.mode /\ place' = saved.place
      /\ gallery' = saved.gallery /\ drafts' = saved.drafts
      /\ saved.mode = "gallery" => composer' = saved.gallery
      /\ UNCHANGED <<saved, stored>>
  BY DEF PageReload
<1>2. typed' = [p \in Places |->
                   IF p = Gallery THEN (IF PersistInput THEN typed[p] ELSE Empty)
                   ELSE IF p \in KnownIn(stored) /\ (load.pc # "conversations" => p \in Known)
                   THEN typed[p] ELSE Empty]
  BY DEF PageReload
<1>3. HeldShape' /\ SavedShape'
  <2>1. typed' = [p \in Places |-> typed'[p]]
    BY <1>2
  <2> QED
    BY <1>1, <2>1 DEF TypedInv, HeldShape, SavedShape
<1>4. GalleryHeld' /\ GallerySaved'
  <2>1. typed'[Gallery] = IF PersistInput THEN typed[Gallery] ELSE Empty
    BY <1>2 DEF Places
  <2> QED
    BY <1>1, <2>1 DEF TypedInv, GalleryHeld, GallerySaved
<1>5. ASSUME NEW c \in KnownIn(stored)
      PROVE  saved.drafts[c] = typed'[c]
  <2>1. c \in Places /\ c # Gallery /\ c \in Convs
    BY PlacesDiffer DEF Places, KnownIn
  <2>2. typed'[c] = IF load.pc # "conversations" => c \in Known THEN typed[c] ELSE Empty
    BY <1>2, <2>1
  <2>3. CASE load.pc = "conversations"
    BY <2>2, <2>3 DEF TypedInv, StartHeld
  <2>4. CASE load.pc # "conversations"
    BY <2>1, <2>2, <2>4 DEF TypedInv, ConvsSaved, OthersDropped, NothingFound
  <2> QED
    BY <2>3, <2>4
<1>6. StartHeld'
  BY <1>1, <1>5 DEF StartHeld, KnownIn, NoConvs
<1> QED
  BY <1>1, <1>3, <1>4, <1>6 DEF TypedInv

LEMMA FirstExists ==
    ASSUME NEW S, S \subseteq Convs, S # {}
    PROVE  (CHOOSE c \in S : \A b \in S : c <= b) \in S
<1>1. \E c \in S : \A b \in S : c <= b
  BY PlacesDiffer, LeastExists
<1> QED
  BY <1>1

LEMMA LoadHolds ==
    ASSUME TypedInv, StoreInv, LoadConversations
    PROVE  TypedInv'
<1>1. load.pc = "conversations" /\ StartHeld /\ load'.pc = "tasks"
  BY DEF LoadConversations, TypedInv, StoreInv, LoadFields
<1>2. /\ convs' = [c \in Convs |-> IF stored[c] # "absent" THEN stored[c] ELSE convs[c]]
      /\ UNCHANGED <<mode, gallery, stored, typed>>
  BY DEF LoadConversations
<1>3. KnownIn(convs') = KnownIn(stored) /\ Known' = KnownIn(stored)
  BY <1>1, <1>2 DEF KnownIn, Known, StartHeld, NoConvs
<1>4. CASE KnownIn(convs') = {}
  <2>1. flush' = [flush EXCEPT !.pc = "idle"] /\ UNCHANGED <<place, drafts, composer, saved>>
    BY <1>4 DEF LoadConversations
  <2>2. flush'.pc = "idle"
    BY <2>1 DEF StoreInv, LoopInv
  <2>3. HeldShape' /\ GalleryHeld' /\ SavedShape' /\ GallerySaved'
    BY <1>2, <2>1 DEF TypedInv, HeldShape, GalleryHeld, SavedShape, GallerySaved
  <2>4. ConvsHeld' /\ ConvsSaved'
    BY <1>3, <1>4 DEF ConvsHeld, ConvsSaved
  <2>5. KnownIn(stored') = {}
    BY <1>2, <1>3, <1>4
  <2>6. OthersDropped'
    BY <1>1, <1>3, <1>4, <2>2, <2>5 DEF OthersDropped, NothingFound
  <2> QED
    BY <1>1, <2>3, <2>4, <2>6 DEF TypedInv
<1>5. CASE KnownIn(convs') # {}
  <2> DEFINE first == CHOOSE c \in KnownIn(convs') : \A b \in KnownIn(convs') : c <= b
  <2>1. /\ place' = IF place \in KnownIn(convs') THEN place ELSE first
        /\ drafts' = [c \in Convs |-> IF c \in KnownIn(convs') THEN drafts[c] ELSE Empty]
        /\ composer' = IF mode = "agent" THEN DraftAt(drafts', place') ELSE composer
        /\ Persist
    BY <1>5 DEF LoadConversations
  <2>2. first \in KnownIn(convs')
    <3>1. KnownIn(convs') \subseteq Convs
      BY DEF KnownIn
    <3> QED
      BY <1>5, <3>1, FirstExists
  <2> HIDE DEF first
  <2>3. place' \in KnownIn(convs') /\ place' \in Convs /\ place' # Nowhere
    BY <2>1, <2>2, PlacesDiffer DEF KnownIn
  <2>4. \A c \in Known' : c \in Convs /\ drafts'[c] = drafts[c]
    BY <1>3, <2>1 DEF KnownIn
  <2>5. \A c \in Known' : drafts[c] = typed'[c]
    BY <1>1, <1>2, <1>3 DEF StartHeld
  <2>6. HeldShape' /\ GalleryHeld'
    BY <1>2, <2>1, <2>3 DEF TypedInv, HeldShape, GalleryHeld
  <2>7. ConvsHeld'
    BY <1>2, <2>1, <2>3, <2>4, <2>5 DEF ConvsHeld, DraftAt
  <2> QED
    BY <1>1, <2>1, <2>6, <2>7, PersistHolds
<1> QED
  BY <1>4, <1>5

LEMMA ReadHolds ==
    ASSUME TypedInv, StoreInv, ReadDrafts
    PROVE  TypedInv'
<1>1. /\ load.pc = "tasks"
      /\ load'.pc = "images" /\ load'.gallery = gallery /\ load'.drafts = drafts
      /\ UNCHANGED <<mode, place, composer, gallery, drafts, convs, saved, stored, flush, typed>>
  BY DEF ReadDrafts, StoreInv, LoadFields
<1>2. HeldShape' /\ GalleryHeld' /\ SavedShape' /\ GallerySaved'
  BY <1>1 DEF TypedInv, HeldShape, GalleryHeld, SavedShape, GallerySaved
<1>3. ConvsHeld' /\ ConvsSaved' /\ OthersDropped'
  BY <1>1 DEF TypedInv, ConvsHeld, ConvsSaved, OthersDropped, NothingFound, Known, KnownIn
<1> QED
  BY <1>1, <1>2, <1>3 DEF TypedInv, ReadHeld

\* The drafts that are put back are those the page still has.
LEMMA RestoreHolds ==
    ASSUME TypedInv, StoreInv, RestoreDrafts
    PROVE  TypedInv'
<1>1. /\ load.pc = "images" /\ ReadHeld /\ load'.pc = "done" /\ Persist
      /\ UNCHANGED <<mode, place, convs, typed>>
  BY DEF RestoreDrafts, TypedInv, StoreInv, LoadFields, Set
<1>2. gallery' = gallery /\ drafts' = drafts
  BY <1>1 DEF RestoreDrafts, ReadHeld
<1>3. \/ composer' = composer
      \/ mode = "gallery" /\ composer' = gallery
      \/ mode = "agent" /\ composer' = DraftAt(drafts, place)
  BY <1>1 DEF RestoreDrafts, ReadHeld
<1>4. HeldShape' /\ GalleryHeld'
  BY <1>1, <1>2, <1>3 DEF TypedInv, HeldShape, GalleryHeld
<1>5. ConvsHeld'
  <2>1. ConvsHeld
    BY <1>1 DEF TypedInv
  <2>2. place \in Known => DraftAt(drafts, place) = drafts[place]
    BY PlacesDiffer DEF DraftAt, Known
  <2> QED
    BY <1>1, <1>2, <1>3, <2>1, <2>2 DEF ConvsHeld, Known
<1> QED
  BY <1>1, <1>4, <1>5, PersistHolds

-----------------------------------------------------------------------------
LEMMA InitTypedInv == DraftsInit => TypedInv
<1> SUFFICES ASSUME DraftsInit
             PROVE  TypedInv
  OBVIOUS
<1>1. Known = {}
  BY DEF DraftsInit, Known, NoConvs
<1>2. HeldShape /\ GalleryHeld /\ SavedShape /\ GallerySaved
  BY DEF DraftsInit, HeldShape, GalleryHeld, SavedShape, GallerySaved, Places, NoDrafts
<1>3. ConvsHeld /\ ConvsSaved /\ OthersDropped
  BY <1>1 DEF DraftsInit, ConvsHeld, ConvsSaved, OthersDropped, NoDrafts
<1> QED
  BY <1>2, <1>3 DEF TypedInv, DraftsInit

LEMMA NextTypedInv ==
    ASSUME QuietStart, TypedInv, StoreInv, [DraftsNext]_draftVars
    PROVE  TypedInv'
<1>1. CASE SendMessage \/ SetGalleryMode \/ SetAgentMode
  <2>1. AtWork
    BY <1>1, UserWaits DEF SendMessage, SetGalleryMode, SetAgentMode
  <2> QED
    BY <1>1, <2>1, SendHolds, ModeHolds
<1>2. ASSUME NEW c \in Convs,
             CreateConversation(c) \/ OpenConversation(c) \/ DeleteConversation(c)
      PROVE  TypedInv'
  <2>1. AtWork
    BY <1>2, UserWaits DEF CreateConversation, OpenConversation, DeleteConversation
  <2> QED
    BY <1>2, <2>1, CreateHolds, OpenHolds, DeleteHolds
<1>3. CASE UNCHANGED draftVars
  BY <1>3, TypedStays
<1> QED
  BY <1>1, <1>2, <1>3, ComposerHolds, FlushHolds, ReloadHolds, LoadHolds, ReadHolds, RestoreHolds
     DEF DraftsNext

\* The place the user is at shows its draft in the composer.
LEMMA TypedIsHeld == TypedInv => TypedIsKept
<1> SUFFICES ASSUME TypedInv, load.pc = "done", NEW p \in {Gallery} \cup Known
             PROVE  /\ (IF p = Here THEN composer ELSE IF p = Gallery THEN gallery
                         ELSE drafts[p]) = typed[p]
                    /\ (p = Gallery => PersistInput) =>
                          (IF p = Gallery THEN saved.gallery ELSE saved.drafts[p]) = typed[p]
  BY DEF TypedIsKept
<1>1. GalleryHeld /\ GallerySaved /\ ConvsHeld /\ ConvsSaved /\ HeldShape
  BY DEF TypedInv
<1>2. CASE p = Gallery
  <2>1. p = Here => mode = "gallery"
    BY <1>1, <1>2, PlacesDiffer DEF Here, HeldShape, Gallery, Nowhere
  <2> QED
    BY <1>1, <1>2, <2>1 DEF GalleryHeld, GallerySaved
<1>3. CASE p # Gallery
  <2>1. p \in Known /\ (p = Here => mode = "agent" /\ p = place)
    BY <1>1, <1>3 DEF Here, HeldShape
  <2> QED
    BY <1>1, <1>3, <2>1 DEF ConvsHeld, ConvsSaved
<1> QED
  BY <1>2, <1>3

\* Switching mode or conversation, sending, creating, deleting and reloading
\* neither lose nor mix up what was typed, as long as the user waits for the
\* start-up to end (syncActiveInputDraft, getPersistedState and runInitStore).
THEOREM TypedHolds == QuietStart => (DraftsSpec => []TypedIsKept)
<1>1. SUFFICES ASSUME QuietStart
               PROVE  DraftsSpec => []TypedIsKept
  OBVIOUS
<1>2. TypedInv /\ StoreInv /\ StoreInv' /\ [DraftsNext]_draftVars => TypedInv'
  BY <1>1, NextTypedInv
<1> QED
  BY <1>2, InitTypedInv, InitStoreInv, NextStoreInv, TypedIsHeld, PTL DEF DraftsSpec

-----------------------------------------------------------------------------
(***************************************************************************)
(* Nothing of an agent conversation spins for ever: proved for any number  *)
(* of rounds and executions, with the user free to send, stop, regenerate  *)
(* and delete between any two steps of any execution.                      *)
(***************************************************************************)

RoundFields(x) == x = [status |-> x.status, parent |-> x.parent, reply |-> x.reply]
RunFields(x) ==
    /\ x = [pc |-> x.pc, round |-> x.round, turn |-> x.turn, used |-> x.used,
            stopped |-> x.stopped, asks |-> x.asks, seen |-> x.seen]
    /\ x.asks \in {"nothing", "batch", "more"}

RoundsShape == rounds = [r \in RoundIds |-> rounds[r]] /\ \A r \in RoundIds : RoundFields(rounds[r])
RunsShape   == runs = [e \in Runs |-> runs[e]] /\ \A e \in Runs : RunFields(runs[e])
CardsShape  == cards = [c \in Cards |-> cards[c]]

AgentShape == RoundsShape /\ RunsShape /\ CardsShape

\* A batch's card runs only while its execution waits for the batch or for
\* its image: the end of an execution looks at the other card alone.
BatchWaits == {"batch", "batch store"}

RoundOK(r) == rounds[r].status = "running" => \E e \in Runs : Live(e) /\ runs[e].round = r
CardOK(c)  == cards[c] = "running" => /\ Live(c[1])
                                      /\ c[2] = "batch" => runs[c[1]].pc \in BatchWaits

AgentInv ==
    /\ AgentShape
    /\ \A r \in RoundIds : RoundOK(r)
    /\ \A c \in Cards : CardOK(c)

-----------------------------------------------------------------------------
(* The records keep their fields. *)

LEMMA ShapeStays ==
    /\ RoundsShape /\ UNCHANGED rounds => RoundsShape'
    /\ RunsShape /\ UNCHANGED runs => RunsShape'
    /\ CardsShape /\ UNCHANGED cards => CardsShape'
BY DEF RoundsShape, RunsShape, CardsShape, RoundFields, RunFields

LEMMA FieldsPut ==
    ASSUME NEW x, RoundFields(x), NEW status, NEW reply
    PROVE  [x EXCEPT !.status = status, !.reply = reply]
              = [status |-> status, parent |-> x.parent, reply |-> reply]
<1>1. ASSUME NEW y, y = [x EXCEPT !.status = status, !.reply = reply]
      PROVE  y = [status |-> status, parent |-> x.parent, reply |-> reply]
  BY <1>1 DEF RoundFields
<1> QED
  BY <1>1

RoundBecomes(r, x) == RoundFields(x) /\ rounds' = [rounds EXCEPT ![r] = x]

LEMMA RoundsPut ==
    ASSUME RoundsShape, NEW r, NEW x, RoundBecomes(r, x)
    PROVE  /\ RoundsShape'
           /\ \A q \in RoundIds : rounds'[q] = IF q = r THEN x ELSE rounds[q]
<1>1. \A q \in RoundIds : rounds'[q] = IF q = r THEN x ELSE rounds[q]
  BY DEF RoundsShape, RoundBecomes
<1>2. rounds' = [q \in RoundIds |-> rounds'[q]]
  BY DEF RoundsShape, RoundBecomes
<1>3. \A q \in RoundIds : RoundFields(rounds'[q])
  BY <1>1 DEF RoundsShape, RoundBecomes
<1> QED
  BY <1>1, <1>2, <1>3 DEF RoundsShape, RoundFields

RunBecomes(e, x) == RunFields(x) /\ runs' = [runs EXCEPT ![e] = x]

LEMMA RunsPut ==
    ASSUME RunsShape, NEW e, NEW x, RunBecomes(e, x)
    PROVE  /\ RunsShape'
           /\ \A f \in Runs : runs'[f] = IF f = e THEN x ELSE runs[f]
<1>1. \A f \in Runs : runs'[f] = IF f = e THEN x ELSE runs[f]
  BY DEF RunsShape, RunBecomes
<1>2. runs' = [f \in Runs |-> runs'[f]]
  BY DEF RunsShape, RunBecomes
<1>3. \A f \in Runs : RunFields(runs'[f])
  BY <1>1 DEF RunsShape, RunBecomes
<1> QED
  BY <1>1, <1>2, <1>3 DEF RunsShape, RunFields

\* The answer of a stream begins: the round goes on as before.
LEMMA ReplyPut ==
    ASSUME RoundsShape, NEW r \in RoundIds, NEW reply,
           rounds' = [rounds EXCEPT ![r].reply = reply]
    PROVE  /\ RoundsShape'
           /\ \A q \in RoundIds : /\ rounds'[q].status = rounds[q].status
                                 /\ rounds'[q].parent = rounds[q].parent
<1> DEFINE y == rounds[r]
           x == [status |-> y.status, parent |-> y.parent, reply |-> reply]
<1>1. RoundFields(y) /\ RoundFields(x) /\ x.status = y.status /\ x.parent = y.parent
  BY DEF RoundsShape, RoundFields
<1>2. rounds' = [rounds EXCEPT ![r] = [y EXCEPT !.reply = reply]]
  BY DEF RoundsShape
<1>3. ASSUME NEW z, z = [y EXCEPT !.reply = reply]
      PROVE  z = x
  <2> HIDE DEF y
  <2> QED
    BY <1>1, <1>3 DEF RoundFields
<1> HIDE DEF x
<1>4. \A q \in RoundIds : rounds'[q] = IF q = r THEN x ELSE rounds[q]
  BY <1>2, <1>3 DEF RoundsShape
<1>5. rounds' = [q \in RoundIds |-> rounds'[q]]
  BY <1>2 DEF RoundsShape
<1>6. \A q \in RoundIds : RoundFields(rounds'[q])
  BY <1>1, <1>4 DEF RoundsShape
<1> QED
  BY <1>1, <1>4, <1>5, <1>6 DEF RoundsShape, RoundFields

\* A stop leaves an execution where it is.
StopsRun(e) == runs' = [runs EXCEPT ![e].stopped = TRUE]

LEMMA StoppedRecord ==
    ASSUME RunsShape, NEW e \in Runs, StopsRun(e)
    PROVE  \E x : RunBecomes(e, x) /\ x.pc = runs[e].pc /\ x.round = runs[e].round
<1> DEFINE y == runs[e]
           x == [pc |-> y.pc, round |-> y.round, turn |-> y.turn, used |-> y.used,
                 stopped |-> TRUE, asks |-> y.asks, seen |-> y.seen]
<1>1. RunFields(y)
  BY DEF RunsShape
<1>2. RunFields(x) /\ x.pc = y.pc /\ x.round = y.round
  BY <1>1 DEF RunFields
<1>3. runs' = [runs EXCEPT ![e] = [y EXCEPT !.stopped = TRUE]]
  BY DEF RunsShape, StopsRun
<1>4. ASSUME NEW z, z = [y EXCEPT !.stopped = TRUE]
      PROVE  z = x
  <2> HIDE DEF y
  <2> QED
    BY <1>1, <1>4 DEF RunFields
<1> HIDE DEF x
<1>5. RunBecomes(e, x)
  BY <1>2, <1>3, <1>4 DEF RunBecomes
<1> QED
  BY <1>2, <1>5

LEMMA StoppedPut ==
    ASSUME RunsShape, NEW e, StopsRun(e)
    PROVE  /\ RunsShape'
           /\ \A f \in Runs : runs'[f].pc = runs[f].pc /\ runs'[f].round = runs[f].round
<1>1. CASE e \in Runs
  <2>1. PICK x : RunBecomes(e, x) /\ x.pc = runs[e].pc /\ x.round = runs[e].round
    BY <1>1, StoppedRecord
  <2>2. RunsShape' /\ \A f \in Runs : runs'[f] = IF f = e THEN x ELSE runs[f]
    BY <2>1, RunsPut
  <2> QED
    BY <2>1, <2>2
<1>2. CASE e \notin Runs
  <2>1. runs' = runs
    BY <1>2 DEF RunsShape, StopsRun
  <2> QED
    BY <2>1, ShapeStays
<1> QED
  BY <1>1, <1>2

\* The start of a tool is noted in the record of its execution.
LEMMA SeenPut ==
    ASSUME RunsShape, NEW e \in Runs, runs' = [runs EXCEPT ![e].seen = TRUE]
    PROVE  /\ RunsShape'
           /\ \A f \in Runs : /\ runs'[f].pc = runs[f].pc /\ runs'[f].round = runs[f].round
                              /\ f # e => runs'[f] = runs[f]
<1> DEFINE y == runs[e]
           x == [pc |-> y.pc, round |-> y.round, turn |-> y.turn, used |-> y.used,
                 stopped |-> y.stopped, asks |-> y.asks, seen |-> TRUE]
<1>1. RunFields(y)
  BY DEF RunsShape
<1>2. RunFields(x) /\ x.pc = y.pc /\ x.round = y.round
  BY <1>1 DEF RunFields
<1>3. runs' = [runs EXCEPT ![e] = [y EXCEPT !.seen = TRUE]]
  BY DEF RunsShape
<1>4. ASSUME NEW z, z = [y EXCEPT !.seen = TRUE]
      PROVE  z = x
  <2> HIDE DEF y
  <2> QED
    BY <1>1, <1>4 DEF RunFields
<1> HIDE DEF x
<1>5. RunBecomes(e, x)
  BY <1>2, <1>3, <1>4 DEF RunBecomes
<1>6. RunsShape' /\ \A f \in Runs : runs'[f] = IF f = e THEN x ELSE runs[f]
  BY <1>5, RunsPut
<1> QED
  BY <1>2, <1>6

LEMMA CardsFail ==
    ASSUME NEW C, cards' = FailRunning(cards, C)
    PROVE  /\ CardsShape'
           /\ \A c \in Cards : cards'[c] = "running" => cards[c] = "running" /\ c \notin C
BY DEF CardsShape, FailRunning

-----------------------------------------------------------------------------
(* The two ways a step keeps the invariant. *)

\* Nothing starts to run, and every execution stays where it is.
LEMMA NothingStarts ==
    ASSUME AgentInv, AgentShape',
           \A r \in RoundIds : rounds'[r].status = "running" => rounds[r].status = "running",
           \A c \in Cards : cards'[c] = "running" => cards[c] = "running",
           \A f \in Runs : runs'[f].pc = runs[f].pc /\ runs'[f].round = runs[f].round
    PROVE  AgentInv'
<1>1. ASSUME NEW r \in RoundIds
      PROVE  RoundOK(r)'
  BY DEF AgentInv, RoundOK, Live
<1>2. ASSUME NEW c \in Cards
      PROVE  CardOK(c)'
  <2>1. c[1] \in Runs /\ CardOK(c)
    BY DEF Cards, AgentInv
  <2> QED
    BY <2>1 DEF CardOK, Live
<1> QED
  BY <1>1, <1>2 DEF AgentInv

\* One execution moves: what relies on it is settled, or may rely on it still.
LEMMA OneMoves ==
    ASSUME AgentInv, AgentShape', NEW e \in Runs,
           \A f \in Runs : f # e => runs'[f] = runs[f],
           \A r \in RoundIds : rounds'[r].status = "running" =>
              \/ Live(e)' /\ runs'[e].round = r
              \/ rounds[r].status = "running" /\ ~(Live(e) /\ runs[e].round = r),
           \A c \in Cards : cards'[c] = "running" =>
              \/ c[1] # e /\ cards[c] = "running"
              \/ c[1] = e /\ Live(e)' /\ (c[2] = "batch" => runs'[e].pc \in BatchWaits)
    PROVE  AgentInv'
<1>1. ASSUME NEW r \in RoundIds
      PROVE  RoundOK(r)'
  BY DEF AgentInv, RoundOK, Live
<1>2. ASSUME NEW c \in Cards
      PROVE  CardOK(c)'
  <2>1. c[1] \in Runs /\ CardOK(c)
    BY DEF Cards, AgentInv
  <2> QED
    BY <2>1 DEF CardOK, Live
<1> QED
  BY <1>1, <1>2 DEF AgentInv

-----------------------------------------------------------------------------
(* The ends of an execution. *)

LEMMA OverEnds ==
    ASSUME AgentInv, NEW e \in Runs, Over(e)
    PROVE  /\ RunsShape' /\ ~Live(e)'
           /\ \A f \in Runs : f # e => runs'[f] = runs[f]
<1> DEFINE x == [pc |-> "over", round |-> runs[e].round, turn |-> 0, used |-> 0,
                 stopped |-> FALSE, asks |-> "nothing", seen |-> FALSE]
<1>1. runs' = [runs EXCEPT ![e] = x]
  <2>1. ASSUME NEW y, y = [IdleRun EXCEPT !.pc = "over", !.round = runs[e].round]
        PROVE  y = x
    BY <2>1 DEF IdleRun
  <2> HIDE DEF x
  <2> QED
    BY <2>1 DEF Over
<1>2. x.pc = "over" /\ RunFields(x)
  BY DEF RunFields
<1> HIDE DEF x
<1>3. RunsShape /\ RunBecomes(e, x)
  BY <1>1, <1>2 DEF AgentInv, AgentShape, RunBecomes
<1>4. RunsShape' /\ \A f \in Runs : runs'[f] = IF f = e THEN x ELSE runs[f]
  BY <1>3, RunsPut
<1> QED
  BY <1>2, <1>4 DEF Live

LEMMA StatusPut ==
    ASSUME RoundsShape, NEW r, NEW status, NEW reply,
           rounds' = [rounds EXCEPT ![r].status = status, ![r].reply = reply]
    PROVE  \E x : RoundBecomes(r, x) /\ x.status = status /\ x.parent = rounds[r].parent
<1> DEFINE x == [status |-> status, parent |-> rounds[r].parent, reply |-> reply]
<1>1. RoundFields(x) /\ x.status = status /\ x.parent = rounds[r].parent
  BY DEF RoundFields
<1>2. CASE r \in RoundIds
  <2>1. RoundFields(rounds[r])
    BY <1>2 DEF RoundsShape
  <2>2. rounds' = [rounds EXCEPT ![r] = [rounds[r] EXCEPT !.status = status, !.reply = reply]]
    BY <1>2 DEF RoundsShape
  <2>3. [rounds[r] EXCEPT !.status = status, !.reply = reply] = x
    BY <2>1, FieldsPut
  <2> HIDE DEF x
  <2>4. RoundBecomes(r, x)
    BY <1>1, <2>2, <2>3 DEF RoundBecomes
  <2> QED
    BY <1>1, <2>4
<1>3. CASE r \notin RoundIds
  <2>1. RoundBecomes(r, x)
    BY <1>1, <1>3 DEF RoundsShape, RoundBecomes
  <2> QED
    BY <1>1, <2>1
<1> QED
  BY <1>2, <1>3

\* Stopped and Broken settle the round, Finish ends it, or it does not run.
Settles(r, status, reply) ==
    \/ rounds' = [rounds EXCEPT ![r].status = status, ![r].reply = reply]
    \/ rounds' = rounds /\ (r \in RoundIds => rounds[r].status # "running")

LEMMA RoundSettled ==
    ASSUME RoundsShape, NEW r, NEW status, NEW reply, status # "running",
           Settles(r, status, reply)
    PROVE  /\ RoundsShape'
           /\ \A q \in RoundIds :
                 rounds'[q].status = "running" => q # r /\ rounds[q].status = "running"
<1>1. CASE rounds' = [rounds EXCEPT ![r].status = status, ![r].reply = reply]
  <2>1. PICK x : RoundBecomes(r, x) /\ x.status = status
    BY <1>1, StatusPut
  <2>2. RoundsShape' /\ \A q \in RoundIds : rounds'[q] = IF q = r THEN x ELSE rounds[q]
    BY <2>1, RoundsPut
  <2> QED
    BY <2>1, <2>2
<1>2. CASE rounds' = rounds /\ (r \in RoundIds => rounds[r].status # "running")
  BY <1>2, ShapeStays
<1> QED
  BY <1>1, <1>2 DEF Settles

\* An execution that ends leaves nothing of its own running.
LEMMA EndKeeps ==
    ASSUME AgentInv, NEW e \in Runs, Over(e), RoundsShape', CardsShape',
           \A q \in RoundIds : rounds'[q].status = "running" =>
                                  q # runs[e].round /\ rounds[q].status = "running",
           \A c \in Cards : cards'[c] = "running" => c[1] # e /\ cards[c] = "running"
    PROVE  AgentInv'
<1>1. RunsShape' /\ ~Live(e)' /\ \A f \in Runs : f # e => runs'[f] = runs[f]
  BY OverEnds
<1>2. AgentShape'
  BY <1>1 DEF AgentShape
<1> QED
  BY <1>1, <1>2, OneMoves

LEMMA UnwindKeeps ==
    ASSUME AgentInv, NEW e \in Runs, Unwind(e)
    PROVE  AgentInv'
<1> DEFINE r == runs[e].round
<1>1. Over(e) /\ cards' = FailRunning(cards, CardsOf(r))
  BY DEF Unwind, Stopped
<1>2. RoundsShape' /\ \A q \in RoundIds :
         rounds'[q].status = "running" => q # r /\ rounds[q].status = "running"
  <2>1. Settles(r, "error", "text")
    BY DEF Settles, Unwind, Stopped, Running
  <2> HIDE DEF r
  <2>2. RoundsShape
    BY DEF AgentInv, AgentShape
  <2> QED
    BY <2>1, <2>2, RoundSettled
<1>3. CardsShape' /\ \A c \in Cards : cards'[c] = "running" => c[1] # e /\ cards[c] = "running"
  BY <1>1, CardsFail DEF CardsOf
<1> QED
  BY <1>1, <1>2, <1>3, EndKeeps

LEMMA BrokenKeeps ==
    ASSUME AgentInv, NEW e \in Runs, Broken(e)
    PROVE  AgentInv'
<1> DEFINE r == runs[e].round
<1>1. Over(e) /\ cards' = FailRunning(cards, CardsOf(r))
  BY DEF Broken
<1>2. RoundsShape' /\ \A q \in RoundIds :
         rounds'[q].status = "running" => q # r /\ rounds[q].status = "running"
  <2>1. Settles(r, "error", "failed")
    BY DEF Settles, Broken, Listed
  <2> HIDE DEF r
  <2>2. RoundsShape
    BY DEF AgentInv, AgentShape
  <2> QED
    BY <2>1, <2>2, RoundSettled
<1>3. CardsShape' /\ \A c \in Cards : cards'[c] = "running" => c[1] # e /\ cards[c] = "running"
  BY <1>1, CardsFail DEF CardsOf
<1> QED
  BY <1>1, <1>2, <1>3, EndKeeps

\* The card of a batch is not looked at: none runs when the loop ends.
LEMMA FinishKeeps ==
    ASSUME AgentInv, NEW e \in Runs, runs[e].pc \notin BatchWaits, Finish(e)
    PROVE  AgentInv'
<1> DEFINE r == runs[e].round
<1>1. Over(e) /\ cards' = FailRunning(cards, {c \in CardsOf(r) : c[2] = "single"})
  BY DEF Finish
<1>2. RoundsShape' /\ \A q \in RoundIds :
         rounds'[q].status = "running" => q # r /\ rounds[q].status = "running"
  <2>1. Settles(r, "done", "text")
    BY DEF Settles, Finish, Listed
  <2> HIDE DEF r
  <2>2. RoundsShape
    BY DEF AgentInv, AgentShape
  <2> QED
    BY <2>1, <2>2, RoundSettled
<1>3. ASSUME NEW c \in Cards, cards'[c] = "running"
      PROVE  c[1] # e /\ cards[c] = "running"
  <2>1. cards[c] = "running" /\ ~(c[1] = e /\ c[2] = "single")
    BY <1>1, <1>3, CardsFail DEF CardsOf
  <2>2. c[2] \in {"single", "batch"} /\ CardOK(c)
    BY DEF Cards, CardKinds, AgentInv
  <2> QED
    BY <2>1, <2>2 DEF CardOK
<1>4. CardsShape'
  BY <1>1, CardsFail
<1> QED
  BY <1>1, <1>2, <1>3, <1>4, EndKeeps

-----------------------------------------------------------------------------
(* The user's steps. *)

\* A step of the user that changes no execution and starts no round.
LEMMA QuietKeeps ==
    ASSUME AgentInv, UNCHANGED runs, RoundsShape', CardsShape',
           \A r \in RoundIds : rounds'[r].status = "running" => rounds[r].status = "running",
           \A c \in Cards : cards'[c] = "running" => cards[c] = "running"
    PROVE  AgentInv'
<1>1. AgentShape'
  BY ShapeStays DEF AgentInv, AgentShape
<1> QED
  BY <1>1, NothingStarts

LEMMA SameKeeps ==
    ASSUME AgentInv, UNCHANGED <<rounds, runs, cards>>
    PROVE  AgentInv'
BY QuietKeeps, ShapeStays DEF AgentInv, AgentShape

\* A round that is begun has the execution that begins it.
LEMMA BeginKeeps ==
    ASSUME AgentInv, NEW e \in Runs, NEW r, Begin(e, r), UNCHANGED cards,
           NEW x, RoundBecomes(r, x)
    PROVE  AgentInv'
<1> DEFINE y == [pc |-> "inputs", round |-> r, turn |-> 0, used |-> 0,
                 stopped |-> FALSE, asks |-> "nothing", seen |-> FALSE]
<1>1. runs[e].pc = "idle" /\ runs' = [runs EXCEPT ![e] = y]
  <2>1. ASSUME NEW z, z = [IdleRun EXCEPT !.pc = "inputs", !.round = r]
        PROVE  z = y
    BY <2>1 DEF IdleRun
  <2> HIDE DEF y
  <2> QED
    BY <2>1 DEF Begin
<1>2. y.pc = "inputs" /\ y.round = r /\ RunFields(y)
  BY DEF RunFields
<1> HIDE DEF y
<1>3. RunsShape' /\ \A f \in Runs : runs'[f] = IF f = e THEN y ELSE runs[f]
  <2>1. RunsShape /\ RunBecomes(e, y)
    BY <1>1, <1>2 DEF AgentInv, AgentShape, RunBecomes
  <2> QED
    BY <2>1, RunsPut
<1>4. RoundsShape' /\ \A q \in RoundIds : rounds'[q] = IF q = r THEN x ELSE rounds[q]
  BY RoundsPut DEF AgentInv, AgentShape
<1>5. AgentShape'
  BY <1>3, <1>4, ShapeStays DEF AgentInv, AgentShape
<1>6. ~Live(e) /\ Live(e)' /\ runs'[e].round = r
  BY <1>1, <1>2, <1>3 DEF Live
<1>7. ASSUME NEW q \in RoundIds, rounds'[q].status = "running"
      PROVE  \/ Live(e)' /\ runs'[e].round = q
             \/ rounds[q].status = "running" /\ ~(Live(e) /\ runs[e].round = q)
  BY <1>4, <1>6, <1>7
<1>8. ASSUME NEW c \in Cards, cards'[c] = "running"
      PROVE  c[1] # e /\ cards[c] = "running"
  <2>1. CardOK(c) /\ cards[c] = "running"
    BY <1>8 DEF AgentInv
  <2> QED
    BY <2>1, <1>6 DEF CardOK
<1> QED
  BY <1>3, <1>5, <1>7, <1>8, OneMoves

LEMMA SentKeeps ==
    ASSUME AgentInv, NEW e \in Runs, Sent(e)
    PROVE  AgentInv'
<1>1. PICK r, p : /\ Begin(e, r) /\ UNCHANGED cards
                  /\ \E reply : rounds' = [rounds EXCEPT ![r] =
                                   [status |-> "running", parent |-> p, reply |-> reply]]
  BY DEF Sent
<1>2. PICK x : RoundBecomes(r, x)
  BY <1>1 DEF RoundFields, RoundBecomes
<1> QED
  BY <1>1, <1>2, BeginKeeps

LEMMA RegenerateKeeps ==
    ASSUME AgentInv, NEW r \in RoundIds, NEW e \in Runs, Regenerate(r, e)
    PROVE  AgentInv'
<1>1. PICK q, p : /\ Begin(e, q) /\ UNCHANGED cards
                  /\ \E reply : rounds' = [rounds EXCEPT ![q] =
                                   [status |-> "running", parent |-> p, reply |-> reply]]
  BY DEF Regenerate
<1>2. PICK x : RoundBecomes(q, x)
  BY <1>1 DEF RoundFields, RoundBecomes
<1> QED
  BY <1>1, <1>2, BeginKeeps

\* A stop settles the round at once; its execution goes on and will notice.
LEMMA StopKeeps ==
    ASSUME AgentInv, NEW r \in RoundIds, Stop(r)
    PROVE  AgentInv'
<1>1. CardsShape' /\ \A c \in Cards : cards'[c] = "running" => cards[c] = "running"
  BY CardsFail DEF Stop, Stopped
<1>2. RoundsShape' /\ \A q \in RoundIds :
         rounds'[q].status = "running" => rounds[q].status = "running"
  <2>1. Settles(r, "error", "text")
    BY DEF Settles, Stop, Stopped, Running
  <2>2. RoundsShape
    BY DEF AgentInv, AgentShape
  <2> QED
    BY <2>1, <2>2, RoundSettled
<1>3. RunsShape' /\ \A f \in Runs : runs'[f].pc = runs[f].pc /\ runs'[f].round = runs[f].round
  <2>1. CASE UNCHANGED runs
    BY <2>1, ShapeStays DEF AgentInv, AgentShape
  <2>2. CASE StopsRun(controller[r])
    BY <2>2, StoppedPut DEF AgentInv, AgentShape
  <2> QED
    BY <2>1, <2>2 DEF Stop, StopsRun
<1> QED
  BY <1>1, <1>2, <1>3, NothingStarts DEF AgentShape

\* The cards of a deleted message are gone.
LEMMA CardsRemoved ==
    ASSUME NEW C, cards' = [c \in Cards |-> IF c \in C THEN "none" ELSE cards[c]]
    PROVE  CardsShape' /\ \A c \in Cards : cards'[c] = "running" => cards[c] = "running"
BY DEF CardsShape

LEMMA DeleteAnswerKeeps ==
    ASSUME AgentInv, NEW r \in RoundIds, DeleteAnswer(r)
    PROVE  AgentInv'
<1>1. CardsShape' /\ \A c \in Cards : cards'[c] = "running" => cards[c] = "running"
  BY CardsRemoved DEF DeleteAnswer
<1>2. RoundsShape' /\ \A q \in RoundIds : rounds'[q].status = rounds[q].status
  BY ReplyPut DEF DeleteAnswer, AgentInv, AgentShape
<1> QED
  BY <1>1, <1>2, QuietKeeps DEF DeleteAnswer

LEMMA DeleteRoundKeeps ==
    ASSUME AgentInv, NEW r \in RoundIds, DeleteRound(r)
    PROVE  AgentInv'
<1>1. CardsShape' /\ \A c \in Cards : cards'[c] = "running" => cards[c] = "running"
  BY CardsRemoved DEF DeleteRound
<1>2. UNCHANGED <<rounds, runs>>
  BY DEF DeleteRound
<1> QED
  BY <1>1, <1>2, QuietKeeps, ShapeStays DEF AgentInv, AgentShape

\* The children of a deleted round take its parent and keep their status.
LEMMA RoundDeletedKeeps ==
    ASSUME AgentInv, RoundDeleted
    PROVE  AgentInv'
<1>1. UNCHANGED <<runs, cards>> /\ CardsShape'
  BY ShapeStays DEF RoundDeleted, AgentInv, AgentShape
<1>2. CASE rounds' = rounds
  BY <1>1, <1>2, SameKeeps
<1>3. CASE rounds' = Without(rounds, deleting)
  <2>1. rounds' = [q \in RoundIds |-> rounds'[q]]
    BY <1>3 DEF Without
  <2>2. ASSUME NEW q \in RoundIds
        PROVE  /\ RoundFields(rounds'[q])
               /\ rounds'[q].status = "running" => rounds[q].status = "running"
    <3>1. CASE rounds'[q] = Absent
      BY <3>1 DEF Absent, RoundFields
    <3>2. CASE rounds'[q] = [rounds[q] EXCEPT !.parent = rounds[deleting].parent]
      <4> DEFINE y == rounds[q]
                 p == rounds[deleting].parent
                 z == rounds'[q]
      <4>1. RoundFields(y) /\ z = [y EXCEPT !.parent = p]
        BY <3>2 DEF AgentInv, AgentShape, RoundsShape
      <4> HIDE DEF y, p, z
      <4>2. z = [status |-> y.status, parent |-> p, reply |-> y.reply]
        BY <4>1 DEF RoundFields
      <4> QED
        BY <4>2 DEF RoundFields, z, y
    <3>3. CASE rounds'[q] = rounds[q]
      BY <3>3 DEF AgentInv, AgentShape, RoundsShape
    <3> QED
      BY <1>3, <3>1, <3>2, <3>3 DEF Without
  <2>3. RoundsShape'
    BY <2>1, <2>2 DEF RoundsShape, RoundFields
  <2> QED
    BY <1>1, <2>2, <2>3, QuietKeeps
<1> QED
  BY <1>2, <1>3 DEF RoundDeleted

LEMMA AgentReloadKeeps ==
    ASSUME AgentInv, AgentReload
    PROVE  AgentInv'
<1>1. ASSUME NEW q \in RoundIds
      PROVE  RoundFields(rounds'[q]) /\ rounds'[q].status # "running"
  <2>1. CASE q \in Running
    <3> DEFINE y == rounds[q]
               z == rounds'[q]
    <3>1. RoundFields(y) /\ z = [y EXCEPT !.status = "error"]
      BY <2>1 DEF AgentReload, AgentInv, AgentShape, RoundsShape
    <3> HIDE DEF y, z
    <3>2. z = [status |-> "error", parent |-> y.parent, reply |-> y.reply]
      BY <3>1 DEF RoundFields
    <3> QED
      BY <3>2 DEF RoundFields, z
  <2>2. CASE q \notin Running
    <3>1. rounds'[q] = rounds[q]
      BY <2>2 DEF AgentReload
    <3> QED
      BY <2>2, <3>1 DEF Running, AgentInv, AgentShape, RoundsShape
  <2> QED
    BY <2>1, <2>2
<1>2. RoundsShape'
  <2>1. rounds' = [q \in RoundIds |-> rounds'[q]]
    BY DEF AgentReload
  <2> QED
    BY <1>1, <2>1 DEF RoundsShape, RoundFields
<1>3. CardsShape' /\ \A c \in Cards : cards'[c] # "running"
  BY CardsFail DEF AgentReload
<1>4. ASSUME NEW e \in Runs
      PROVE  RunFields(runs'[e])
  <2>1. CASE Live(e)
    <3> DEFINE w == runs[e].round
               z == runs'[e]
    <3>1. z = [IdleRun EXCEPT !.pc = "over", !.round = w]
      BY <2>1 DEF AgentReload
    <3> HIDE DEF w, z
    <3>2. z = [pc |-> "over", round |-> w, turn |-> 0, used |-> 0, stopped |-> FALSE,
               asks |-> "nothing", seen |-> FALSE]
      BY <3>1 DEF IdleRun
    <3> QED
      BY <3>2 DEF RunFields, z
  <2>2. CASE ~Live(e)
    BY <2>2 DEF AgentReload, AgentInv, AgentShape, RunsShape
  <2> QED
    BY <2>1, <2>2
<1>5. RunsShape'
  <2>1. runs' = [e \in Runs |-> runs'[e]]
    BY DEF AgentReload
  <2> QED
    BY <1>4, <2>1 DEF RunsShape, RunFields
<1> QED
  BY <1>1, <1>2, <1>3, <1>5 DEF AgentInv, AgentShape, RoundOK, CardOK

LEMMA UserStepKeeps ==
    ASSUME AgentInv, AgentUser
    PROVE  AgentInv'
<1>1. ASSUME NEW edit, Send(edit)
      PROVE  AgentInv'
  BY <1>1, SameKeeps DEF Send
<1>2. CASE SendFails
  BY <1>2, SameKeeps DEF SendFails
<1>3. ASSUME NEW r \in RoundIds, SwitchBranch(r)
      PROVE  AgentInv'
  BY <1>3, SameKeeps DEF SwitchBranch
<1> QED
  BY <1>1, <1>2, <1>3, SentKeeps, RegenerateKeeps, StopKeeps, DeleteAnswerKeeps,
     DeleteRoundKeeps, RoundDeletedKeeps, AgentReloadKeeps DEF AgentUser

-----------------------------------------------------------------------------
(* The steps of an execution. *)

\* An execution goes from one of its steps to another, for the same round.
Goes(e, pc) == \E x : RunBecomes(e, x) /\ x.pc = pc /\ x.round = runs[e].round

LEMMA GoesOn ==
    ASSUME AgentInv, NEW e \in Runs, Live(e), NEW pc, Goes(e, pc), pc \notin {"idle", "over"},
           RoundsShape', CardsShape',
           \A r \in RoundIds : rounds'[r].status = "running" => rounds[r].status = "running",
           \A c \in Cards : cards'[c] = "running" =>
              \/ c[1] # e /\ cards[c] = "running"
              \/ c[1] = e /\ (c[2] = "batch" => pc \in BatchWaits)
    PROVE  AgentInv'
<1>1. PICK x : RunBecomes(e, x) /\ x.pc = pc /\ x.round = runs[e].round
  BY DEF Goes
<1>2. RunsShape' /\ \A f \in Runs : runs'[f] = IF f = e THEN x ELSE runs[f]
  BY <1>1, RunsPut DEF AgentInv, AgentShape
<1>3. AgentShape' /\ Live(e)' /\ runs'[e].pc = pc /\ runs'[e].round = runs[e].round
  BY <1>1, <1>2 DEF AgentShape, Live
<1>4. ASSUME NEW r \in RoundIds, rounds'[r].status = "running"
      PROVE  \/ Live(e)' /\ runs'[e].round = r
             \/ rounds[r].status = "running" /\ ~(Live(e) /\ runs[e].round = r)
  BY <1>3, <1>4
<1>5. ASSUME NEW c \in Cards, cards'[c] = "running"
      PROVE  \/ c[1] # e /\ cards[c] = "running"
             \/ c[1] = e /\ Live(e)' /\ (c[2] = "batch" => runs'[e].pc \in BatchWaits)
  BY <1>3, <1>5
<1> QED
  BY <1>2, <1>3, <1>4, <1>5, OneMoves

\* The records an execution's steps write.
LEMMA GoesMoves ==
    ASSUME AgentInv, NEW e \in Runs, NEW pc, Moves(e, pc)
    PROVE  Goes(e, pc)
<1> DEFINE y == runs[e]
           x == [pc |-> pc, round |-> y.round, turn |-> y.turn, used |-> y.used,
                 stopped |-> y.stopped, asks |-> y.asks, seen |-> y.seen]
<1>1. RunFields(y) /\ runs' = [runs EXCEPT ![e] = [y EXCEPT !.pc = pc]]
  BY DEF AgentInv, AgentShape, RunsShape, Moves
<1>2. RunFields(x) /\ x.pc = pc /\ x.round = y.round
  BY <1>1 DEF RunFields
<1>3. ASSUME NEW z, z = [y EXCEPT !.pc = pc]
      PROVE  z = x
  <2> HIDE DEF y
  <2> QED
    BY <1>1, <1>3 DEF RunFields
<1> HIDE DEF x
<1>4. RunBecomes(e, x)
  BY <1>1, <1>2, <1>3 DEF RunBecomes
<1> QED
  BY <1>2, <1>4 DEF Goes

LEMMA GoesCalls ==
    ASSUME AgentInv, NEW e \in Runs, NEW turn,
           runs' = [runs EXCEPT ![e] = [runs[e] EXCEPT !.pc = "call", !.turn = turn]]
    PROVE  Goes(e, "call")
<1> DEFINE y == runs[e]
           x == [pc |-> "call", round |-> y.round, turn |-> turn, used |-> y.used,
                 stopped |-> y.stopped, asks |-> y.asks, seen |-> y.seen]
<1>1. RunFields(y)
  BY DEF AgentInv, AgentShape, RunsShape
<1>2. RunFields(x) /\ x.pc = "call" /\ x.round = y.round
  BY <1>1 DEF RunFields
<1>3. ASSUME NEW z, z = [y EXCEPT !.pc = "call", !.turn = turn]
      PROVE  z = x
  <2> HIDE DEF y
  <2> QED
    BY <1>1, <1>3 DEF RunFields
<1> HIDE DEF x
<1>4. RunBecomes(e, x)
  BY <1>2, <1>3 DEF RunBecomes
<1> QED
  BY <1>2, <1>4 DEF Goes

LEMMA GoesAnswers ==
    ASSUME AgentInv, NEW e \in Runs, NEW pc, NEW asks \in {"nothing", "batch", "more"}, NEW used,
           runs' = [runs EXCEPT ![e] = [runs[e] EXCEPT !.pc = pc, !.asks = asks, !.used = used]]
    PROVE  Goes(e, pc)
<1> DEFINE y == runs[e]
           x == [pc |-> pc, round |-> y.round, turn |-> y.turn, used |-> used,
                 stopped |-> y.stopped, asks |-> asks, seen |-> y.seen]
<1>1. RunFields(y)
  BY DEF AgentInv, AgentShape, RunsShape
<1>2. RunFields(x) /\ x.pc = pc /\ x.round = y.round
  BY <1>1 DEF RunFields
<1>3. ASSUME NEW z, z = [y EXCEPT !.pc = pc, !.asks = asks, !.used = used]
      PROVE  z = x
  <2> HIDE DEF y
  <2> QED
    BY <1>1, <1>3 DEF RunFields
<1> HIDE DEF x
<1>4. RunBecomes(e, x)
  BY <1>2, <1>3 DEF RunBecomes
<1> QED
  BY <1>2, <1>4 DEF Goes

LEMMA GoesStored ==
    ASSUME AgentInv, NEW e \in Runs, NEW used,
           runs' = [runs EXCEPT ![e] = [runs[e] EXCEPT !.pc = "continue", !.used = used]]
    PROVE  Goes(e, "continue")
<1> DEFINE y == runs[e]
           x == [pc |-> "continue", round |-> y.round, turn |-> y.turn, used |-> used,
                 stopped |-> y.stopped, asks |-> y.asks, seen |-> y.seen]
<1>1. RunFields(y)
  BY DEF AgentInv, AgentShape, RunsShape
<1>2. RunFields(x) /\ x.pc = "continue" /\ x.round = y.round
  BY <1>1 DEF RunFields
<1>3. ASSUME NEW z, z = [y EXCEPT !.pc = "continue", !.used = used]
      PROVE  z = x
  <2> HIDE DEF y
  <2> QED
    BY <1>1, <1>3 DEF RunFields
<1> HIDE DEF x
<1>4. RunBecomes(e, x)
  BY <1>2, <1>3 DEF RunBecomes
<1> QED
  BY <1>2, <1>4 DEF Goes

-----------------------------------------------------------------------------
\* A step that leaves rounds and cards alone.
LEMMA PlainGoesOn ==
    ASSUME AgentInv, NEW e \in Runs, Live(e), runs[e].pc \notin BatchWaits, NEW pc, Goes(e, pc),
           pc \notin {"idle", "over"}, UNCHANGED <<rounds, cards>>
    PROVE  AgentInv'
<1>1. RoundsShape' /\ CardsShape'
  BY ShapeStays DEF AgentInv, AgentShape
<1>2. ASSUME NEW c \in Cards, cards'[c] = "running"
      PROVE  \/ c[1] # e /\ cards[c] = "running"
             \/ c[1] = e /\ (c[2] = "batch" => pc \in BatchWaits)
  BY <1>2 DEF AgentInv, CardOK
<1> QED
  BY <1>1, <1>2, GoesOn

LEMMA InputsKeeps ==
    ASSUME AgentInv, NEW e \in Runs, InputsRead(e)
    PROVE  AgentInv'
<1>1. CASE Unwind(e) \/ Broken(e)
  BY <1>1, UnwindKeeps, BrokenKeeps
<1>2. CASE /\ runs' = [runs EXCEPT ![e].pc = "call", ![e].turn = 1]
           /\ rounds' = IF Streams /\ runs[e].round \in Listed(rounds)
                        THEN [rounds EXCEPT ![runs[e].round].reply = "text"] ELSE rounds
           /\ UNCHANGED <<controller, cards>>
  <2>1. runs' = [runs EXCEPT ![e] = [runs[e] EXCEPT !.pc = "call", !.turn = 1]]
    BY <1>2 DEF AgentInv, AgentShape, RunsShape
  <2>2. Goes(e, "call")
    BY <2>1, GoesCalls
  <2>3. Live(e) /\ runs[e].pc \notin BatchWaits
    BY DEF InputsRead, At, Live, BatchWaits
  <2>4. CASE rounds' = rounds
    BY <1>2, <2>2, <2>3, <2>4, PlainGoesOn
  <2>5. CASE /\ rounds' = [rounds EXCEPT ![runs[e].round].reply = "text"]
             /\ runs[e].round \in RoundIds
    <3>1. RoundsShape' /\ \A r \in RoundIds : rounds'[r].status = rounds[r].status
      BY <2>5, ReplyPut DEF AgentInv, AgentShape
    <3>2. CardsShape'
      BY <1>2, ShapeStays DEF AgentInv, AgentShape
    <3>3. ASSUME NEW c \in Cards, cards'[c] = "running"
          PROVE  \/ c[1] # e /\ cards[c] = "running"
                 \/ c[1] = e /\ (c[2] = "batch" => "call" \in BatchWaits)
      BY <1>2, <2>3, <3>3 DEF AgentInv, CardOK
    <3> QED
      BY <2>2, <2>3, <3>1, <3>2, <3>3, GoesOn
  <2> QED
    BY <1>2, <2>4, <2>5 DEF Listed
<1> QED
  BY <1>1, <1>2 DEF InputsRead

\* The image tool: its card runs, fails or waits for its image.
LEMMA ToolKeeps ==
    ASSUME AgentInv, NEW e \in Runs, ToolStarted(e) \/ ToolFailed(e)
    PROVE  AgentInv'
<1>1. Live(e) /\ runs[e].pc = "call" /\ UNCHANGED rounds
  BY DEF ToolStarted, ToolFailed, At, Live
<1>2. RunsShape' /\ \A f \in Runs : /\ runs'[f].pc = runs[f].pc /\ runs'[f].round = runs[f].round
                                    /\ f # e => runs'[f] = runs[f]
  <2>1. CASE ToolStarted(e)
    BY <2>1, SeenPut DEF ToolStarted, AgentInv, AgentShape
  <2>2. CASE ToolFailed(e)
    BY <2>2, ShapeStays DEF ToolFailed, AgentInv, AgentShape
  <2> QED
    BY <2>1, <2>2
<1>3. CardsShape' /\ \A c \in Cards : cards'[c] = "running" =>
                         cards[c] = "running" \/ c = <<e, "single">>
  <2>1. CASE ToolStarted(e)
    <3>1. CardsShape /\ cards' = [cards EXCEPT ![<<e, "single">>] = "running"]
      BY <2>1 DEF ToolStarted, AgentInv, AgentShape
    <3> DEFINE s == <<e, "single">>
    <3> HIDE DEF s
    <3>2. CardsShape /\ cards' = [cards EXCEPT ![s] = "running"]
      BY <3>1 DEF s
    <3>3. CardsShape' /\ \A c \in Cards : cards'[c] = "running" =>
                         cards[c] = "running" \/ c = s
      BY <3>2 DEF CardsShape
    <3> QED
      BY <3>3 DEF s
  <2>2. CASE ToolFailed(e)
    BY <2>2, CardsFail DEF ToolFailed
  <2> QED
    BY <2>1, <2>2
<1>4. AgentShape'
  BY <1>1, <1>2, <1>3, ShapeStays DEF AgentInv, AgentShape
<1>5. ASSUME NEW c \in Cards, cards'[c] = "running"
      PROVE  \/ c[1] # e /\ cards[c] = "running"
             \/ c[1] = e /\ Live(e)' /\ (c[2] = "batch" => runs'[e].pc \in BatchWaits)
  <2>1. CASE c = <<e, "single">>
    BY <1>1, <1>2, <2>1 DEF Live
  <2>2. CASE cards[c] = "running"
    BY <1>1, <1>2, <2>2 DEF AgentInv, CardOK, Live
  <2> QED
    BY <1>3, <1>5, <2>1, <2>2
<1>6. ASSUME NEW r \in RoundIds, rounds'[r].status = "running"
      PROVE  \/ Live(e)' /\ runs'[e].round = r
             \/ rounds[r].status = "running" /\ ~(Live(e) /\ runs[e].round = r)
  BY <1>1, <1>2, <1>6 DEF Live
<1> QED
  BY <1>1, <1>2, <1>4, <1>5, <1>6, OneMoves

\* A finished image settles its card, unless the card is gone.
LEMMA Completed ==
    ASSUME CardsShape, NEW c, Complete(c)
    PROVE  CardsShape' /\ \A d \in Cards : cards'[d] = "running" => cards[d] = "running" /\ d # c
<1>1. cards' = [d \in Cards |-> IF d # c THEN cards[d]
                                ELSE IF cards[c] = "none" THEN cards[c] ELSE "done"]
  BY DEF Complete, CardsShape
<1> QED
  BY <1>1 DEF CardsShape

\* The cards of an execution that goes on.
LEMMA SettledGoesOn ==
    ASSUME AgentInv, NEW e \in Runs, Live(e), NEW pc, Goes(e, pc), pc \notin {"idle", "over"},
           UNCHANGED rounds, CardsShape',
           \A c \in Cards : cards'[c] = "running" => cards[c] = "running" /\ c # <<e, "batch">>
    PROVE  AgentInv'
<1>1. RoundsShape'
  BY ShapeStays DEF AgentInv, AgentShape
<1>2. ASSUME NEW c \in Cards, cards'[c] = "running"
      PROVE  \/ c[1] # e /\ cards[c] = "running"
             \/ c[1] = e /\ (c[2] = "batch" => pc \in BatchWaits)
  <2>1. c = <<c[1], c[2]>> /\ cards[c] = "running" /\ c # <<e, "batch">>
    BY <1>2 DEF Cards
  <2> QED
    BY <2>1
<1> QED
  BY <1>1, <1>2, GoesOn

\* The steps that count are written with the old value: what it is does not
\* matter here.
LEMMA UsedMore ==
    ASSUME NEW e, runs' = [runs EXCEPT ![e].pc = "continue", ![e].used = @ + 1],
           AgentInv, e \in Runs
    PROVE  runs' = [runs EXCEPT ![e] = [runs[e] EXCEPT !.pc = "continue",
                                                       !.used = runs[e].used + 1]]
BY DEF AgentInv, AgentShape, RunsShape, RunFields

LEMMA TurnMore ==
    ASSUME NEW e \in Runs, AgentInv, runs' = [runs EXCEPT ![e].pc = "call", ![e].turn = @ + 1]
    PROVE  \E turn : runs' = [runs EXCEPT ![e] = [runs[e] EXCEPT !.pc = "call", !.turn = turn]]
BY DEF AgentInv, AgentShape, RunsShape, RunFields

LEMMA StoredKeeps ==
    ASSUME AgentInv, NEW e \in Runs, CallStored(e) \/ BatchStored(e)
    PROVE  AgentInv'
<1>1. CardsShape /\ Live(e)
  BY DEF CallStored, BatchStored, At, Live, AgentInv, AgentShape
<1>2. CASE CallStored(e)
  <2>1. CASE Unwind(e) \/ Broken(e)
    BY <2>1, UnwindKeeps, BrokenKeeps
  <2>2. CASE Complete(<<e, "single">>) /\ Moves(e, "call") /\ UNCHANGED rounds
    <3>1. runs[e].pc = "call store"
      BY <1>2 DEF CallStored, At
    <3>2. CardsShape' /\ \A c \in Cards : cards'[c] = "running" => cards[c] = "running"
      BY <1>1, <2>2, Completed
    <3>3. ASSUME NEW c \in Cards, cards[c] = "running"
          PROVE  c # <<e, "batch">>
      <4>1. CardOK(c)
        BY DEF AgentInv
      <4>2. ASSUME c = <<e, "batch">>
            PROVE  c[1] = e /\ c[2] = "batch"
        BY <4>2
      <4> QED
        BY <3>1, <3>3, <4>1, <4>2 DEF CardOK, BatchWaits
    <3>4. Goes(e, "call")
      BY <2>2, GoesMoves
    <3> QED
      BY <1>1, <2>2, <3>2, <3>3, <3>4, SettledGoesOn
  <2> QED
    BY <1>2, <2>1, <2>2 DEF CallStored
<1>3. CASE BatchStored(e)
  <2>1. UNCHANGED rounds
    BY <1>3 DEF BatchStored
  <2>2. CASE /\ Complete(<<e, "batch">>)
             /\ runs' = [runs EXCEPT ![e].pc = "continue", ![e].used = @ + 1]
    <3>1. runs' = [runs EXCEPT ![e] = [runs[e] EXCEPT !.pc = "continue",
                                                      !.used = runs[e].used + 1]]
      BY <2>2, UsedMore
    <3>2. Goes(e, "continue")
      BY <3>1, GoesStored
    <3>3. CardsShape' /\ \A c \in Cards : cards'[c] = "running" =>
                            cards[c] = "running" /\ c # <<e, "batch">>
      BY <1>1, <2>2, Completed
    <3> QED
      BY <1>1, <2>1, <3>2, <3>3, SettledGoesOn
  <2>3. CASE cards' = FailRunning(cards, {<<e, "batch">>}) /\ Moves(e, "continue")
    <3>1. Goes(e, "continue")
      BY <2>3, GoesMoves
    <3>2. CardsShape' /\ \A c \in Cards : cards'[c] = "running" =>
                            cards[c] = "running" /\ c # <<e, "batch">>
      BY <2>3, CardsFail
    <3> QED
      BY <1>1, <2>1, <3>1, <3>2, SettledGoesOn
  <2> QED
    BY <1>3, <2>2, <2>3 DEF BatchStored
<1> QED
  BY <1>2, <1>3

LEMMA CallKeeps ==
    ASSUME AgentInv, NEW e \in Runs, CallEnds(e) \/ ToolCompleted(e)
    PROVE  AgentInv'
<1>1. CASE CallEnds(e)
  BY <1>1, UnwindKeeps, BrokenKeeps DEF CallEnds
<1>2. CASE ToolCompleted(e)
  <2>1. /\ Moves(e, "call store") /\ UNCHANGED <<rounds, cards>>
        /\ Live(e) /\ runs[e].pc \notin BatchWaits
    BY <1>2 DEF ToolCompleted, At, Live, BatchWaits
  <2>2. Goes(e, "call store")
    BY <2>1, GoesMoves
  <2> QED
    BY <2>1, <2>2, PlainGoesOn
<1> QED
  BY <1>1, <1>2

LEMMA AnswerKeeps ==
    ASSUME AgentInv, NEW e \in Runs, NEW image \in BOOLEAN,
           NEW asks \in {"nothing", "batch", "more"}, Answer(e, image, asks)
    PROVE  AgentInv'
<1> DEFINE pc == IF image THEN "answer store" ELSE "decide"
           n == IF image THEN 1 ELSE 0
<1>1. /\ UNCHANGED <<rounds, cards>> /\ Live(e) /\ runs[e].pc \notin BatchWaits
      /\ runs' = [runs EXCEPT ![e].pc = pc, ![e].asks = asks,
                              ![e].used = @ + n]
  BY DEF Answer, At, Live, BatchWaits
<1>2. pc \notin {"idle", "over"}
  OBVIOUS
<1> HIDE DEF pc, n
<1>3. runs' = [runs EXCEPT ![e] = [runs[e] EXCEPT !.pc = pc, !.asks = asks,
                                                  !.used = runs[e].used + n]]
  BY <1>1 DEF AgentInv, AgentShape, RunsShape, RunFields
<1>4. Goes(e, pc)
  BY <1>3, GoesAnswers
<1> QED
  BY <1>1, <1>2, <1>4, PlainGoesOn

LEMMA AnswerStoredKeeps ==
    ASSUME AgentInv, NEW e \in Runs, AnswerStored(e)
    PROVE  AgentInv'
<1>1. CASE Unwind(e) \/ Broken(e)
  BY <1>1, UnwindKeeps, BrokenKeeps
<1>2. CASE /\ Moves(e, "decide")
           /\ IF runs[e].seen THEN Complete(<<e, "single">>)
              ELSE cards' = [cards EXCEPT ![<<e, "single">>] = "done"]
           /\ UNCHANGED <<rounds, controller>>
  <2>1. Live(e) /\ runs[e].pc = "answer store" /\ CardsShape
    BY DEF AnswerStored, At, Live, AgentInv, AgentShape
  <2>2. CardsShape' /\ \A c \in Cards : cards'[c] = "running" => cards[c] = "running"
    <3>1. CASE Complete(<<e, "single">>)
      BY <2>1, <3>1, Completed
    <3>2. CASE cards' = [cards EXCEPT ![<<e, "single">>] = "done"]
      <4> DEFINE s == <<e, "single">>
      <4>1. cards' = [cards EXCEPT ![s] = "done"]
        BY <3>2
      <4> HIDE DEF s
      <4> QED
        BY <2>1, <4>1 DEF CardsShape
    <3> QED
      BY <1>2, <3>1, <3>2
  <2>3. ASSUME NEW c \in Cards, cards[c] = "running"
        PROVE  c # <<e, "batch">>
    <3>1. CardOK(c)
      BY DEF AgentInv
    <3>2. ASSUME c = <<e, "batch">>
          PROVE  c[1] = e /\ c[2] = "batch"
      BY <3>2
    <3> QED
      BY <2>1, <2>3, <3>1, <3>2 DEF CardOK, BatchWaits
  <2>4. Goes(e, "decide")
    BY <1>2, GoesMoves
  <2> QED
    BY <1>2, <2>1, <2>2, <2>3, <2>4, SettledGoesOn
<1> QED
  BY <1>1, <1>2 DEF AnswerStored

\* A batch begins with its card; without a call the round ends.
LEMMA DecideKeeps ==
    ASSUME AgentInv, NEW e \in Runs, Decide(e)
    PROVE  AgentInv'
<1>1. Live(e) /\ runs[e].pc = "decide" /\ runs[e].pc \notin BatchWaits
  BY DEF Decide, At, Live, BatchWaits
<1>2. CASE Finish(e)
  BY <1>1, <1>2, FinishKeeps
<1>3. CASE Moves(e, "continue") /\ UNCHANGED <<rounds, controller, cards>>
  <2>1. Goes(e, "continue")
    BY <1>3, GoesMoves
  <2> QED
    BY <1>1, <1>3, <2>1, PlainGoesOn
<1>4. CASE /\ Moves(e, "batch")
           /\ cards' = [cards EXCEPT ![<<e, "batch">>] = "running"]
           /\ UNCHANGED <<rounds, controller>>
  <2>1. Goes(e, "batch")
    BY <1>4, GoesMoves
  <2> DEFINE b == <<e, "batch">>
  <2>2. cards' = [cards EXCEPT ![b] = "running"] /\ b[1] = e
    BY <1>4
  <2> HIDE DEF b
  <2>3. CardsShape /\ RoundsShape'
    BY <1>4, ShapeStays DEF AgentInv, AgentShape
  <2>4. CardsShape' /\ \A c \in Cards : cards'[c] = "running" => cards[c] = "running" \/ c = b
    BY <2>2, <2>3 DEF CardsShape
  <2>5. ASSUME NEW c \in Cards, cards'[c] = "running"
        PROVE  \/ c[1] # e /\ cards[c] = "running"
               \/ c[1] = e /\ (c[2] = "batch" => "batch" \in BatchWaits)
    BY <2>2, <2>4, <2>5 DEF BatchWaits
  <2> QED
    BY <1>1, <1>4, <2>1, <2>3, <2>4, <2>5, GoesOn
<1> QED
  <2>1. runs[e].asks \in {"nothing", "batch", "more"}
    BY DEF AgentInv, AgentShape, RunsShape, RunFields
  <2> QED
    BY <1>2, <1>3, <1>4, <2>1 DEF Decide

LEMMA BatchKeeps ==
    ASSUME AgentInv, NEW e \in Runs, BatchAnswered(e)
    PROVE  AgentInv'
<1>1. Live(e) /\ UNCHANGED rounds /\ RoundsShape' /\ CardsShape
  BY ShapeStays DEF BatchAnswered, At, Live, AgentInv, AgentShape
<1>2. CASE Moves(e, "batch store") /\ UNCHANGED cards
  <2>1. Goes(e, "batch store")
    BY <1>2, GoesMoves
  <2>2. ASSUME NEW c \in Cards, cards'[c] = "running"
        PROVE  \/ c[1] # e /\ cards[c] = "running"
               \/ c[1] = e /\ (c[2] = "batch" => "batch store" \in BatchWaits)
    BY <1>2, <2>2 DEF BatchWaits
  <2> QED
    BY <1>1, <1>2, <2>1, <2>2, ShapeStays, GoesOn
<1>3. CASE Moves(e, "continue") /\ cards' = FailRunning(cards, {<<e, "batch">>})
  <2>1. Goes(e, "continue")
    BY <1>3, GoesMoves
  <2>2. CardsShape' /\ \A c \in Cards : cards'[c] = "running" =>
                          cards[c] = "running" /\ c # <<e, "batch">>
    BY <1>3, CardsFail
  <2> QED
    BY <1>1, <2>1, <2>2, SettledGoesOn
<1> QED
  BY <1>2, <1>3 DEF BatchAnswered

LEMMA ContinueKeeps ==
    ASSUME AgentInv, NEW e \in Runs, Continue(e)
    PROVE  AgentInv'
<1>1. Live(e) /\ runs[e].pc \notin BatchWaits
  BY DEF Continue, At, Live, BatchWaits
<1>2. CASE Finish(e) \/ Unwind(e)
  BY <1>1, <1>2, FinishKeeps, UnwindKeeps
<1>3. CASE /\ runs' = [runs EXCEPT ![e].pc = "call", ![e].turn = @ + 1]
           /\ UNCHANGED <<rounds, controller, cards>>
  <2>1. PICK turn : runs' = [runs EXCEPT ![e] = [runs[e] EXCEPT !.pc = "call", !.turn = turn]]
    BY <1>3, TurnMore
  <2>2. Goes(e, "call")
    BY <2>1, GoesCalls
  <2> QED
    BY <1>1, <1>3, <2>2, PlainGoesOn
<1> QED
  BY <1>2, <1>3 DEF Continue

-----------------------------------------------------------------------------
LEMMA InitAgentInv == AgentInit => AgentInv
<1> SUFFICES ASSUME AgentInit
             PROVE  AgentInv
  OBVIOUS
<1>1. RoundFields(Absent) /\ Absent.status # "running"
  BY DEF Absent, RoundFields
<1>2. RunFields(IdleRun)
  BY DEF IdleRun, RunFields
<1>3. AgentShape
  BY <1>1, <1>2 DEF AgentInit, AgentShape, RoundsShape, RunsShape, CardsShape
<1>4. \A r \in RoundIds : RoundOK(r)
  BY <1>1 DEF AgentInit, RoundOK
<1>5. \A c \in Cards : CardOK(c)
  BY DEF AgentInit, CardOK
<1> QED
  BY <1>3, <1>4, <1>5 DEF AgentInv

LEMMA NextAgentInv == AgentInv /\ [AgentNext]_agentVars => AgentInv'
<1> SUFFICES ASSUME AgentInv, [AgentNext]_agentVars
             PROVE  AgentInv'
  OBVIOUS
<1>1. CASE AgentUser
  BY <1>1, UserStepKeeps
<1>2. ASSUME NEW e \in Runs, Answering(e)
      PROVE  AgentInv'
  BY <1>2, InputsKeeps, ToolKeeps, StoredKeeps, CallKeeps, AnswerKeeps, AnswerStoredKeeps,
     DecideKeeps, BatchKeeps, ContinueKeeps DEF Answering
<1>3. CASE UNCHANGED agentVars
  BY <1>3, SameKeeps DEF agentVars
<1> QED
  BY <1>1, <1>2, <1>3 DEF AgentNext

\* Whatever the user does between two steps of an execution, a round or card
\* shown as running has an execution under way that will settle it
\* (executeAgentRound, stopAgentResponse, regenerateAgentAssistantMessage and
\* handleDeleteMessage).
THEOREM RunningHolds == AgentSpec => []RunningIsExecuted
<1>1. AgentInv => RunningIsExecuted
  BY DEF AgentInv, RoundOK, CardOK, RunningIsExecuted, Running
<1> QED
  BY InitAgentInv, NextAgentInv, <1>1, PTL DEF AgentSpec

-----------------------------------------------------------------------------
(***************************************************************************)
(* The rounds of a conversation stay a tree: proved for any number of      *)
(* rounds and executions, as long as the user does nothing else while a    *)
(* message or a deletion is between two of its steps.                      *)
(***************************************************************************)

\* Rounds have a newest one.
LEMMA NewestExists ==
    ASSUME NEW S, S \subseteq RoundIds, S # {}
    PROVE  Newest(S) \in S /\ \A q \in S : q <= Newest(S)
<1> DEFINE T == {MaxRounds - r : r \in S}
<1>1. MaxRounds \in Nat /\ \A r \in S : r \in Nat /\ r <= MaxRounds
  BY WebAgentAssumption DEF RoundIds
<1>2. T \subseteq Nat /\ T # {}
  BY <1>1
<1>3. PICK t \in T : \A u \in T : t <= u
  <2> HIDE DEF T
  <2> QED
    BY <1>2, LeastExists
<1>4. PICK r \in S : t = MaxRounds - r
  BY <1>3
<1>5. ASSUME NEW q \in S
      PROVE  q <= r
  <2>1. t <= MaxRounds - q
    BY <1>3
  <2> QED
    BY <1>1, <1>4, <2>1
<1> QED
  BY <1>5 DEF Newest

-----------------------------------------------------------------------------
(* The way down from a round (getLatestAgentLeafId), as the numbers of the  *)
(* rounds that come next, 0 at a leaf.                                      *)

NextRound(rs) ==
    [r \in RoundIds |-> IF Children(rs, r) = {} \/ Newest(Children(rs, r)) <= r
                        THEN NoRound ELSE Newest(Children(rs, r))]

\* Each step goes on to a newer round.
Descends(N) == \A r \in RoundIds : N[r] = NoRound \/ (N[r] \in RoundIds /\ N[r] > r)

Follows(N, f, r) == f[r] = IF N[r] = NoRound THEN r ELSE f[N[r]]

\* A way that is followed from the rounds after k.
FollowsAfter(N, f, k) == /\ f = [r \in RoundIds |-> f[r]]
                         /\ \A r \in RoundIds : r > k => Follows(N, f, r)

LEMMA OneStepMore ==
    ASSUME NEW N, Descends(N), NEW k \in RoundIds, NEW f, FollowsAfter(N, f, k)
    PROVE  \E g : FollowsAfter(N, g, k - 1)
<1> DEFINE end == IF N[k] = NoRound THEN k ELSE f[N[k]]
           g == [r \in RoundIds |-> IF r = k THEN end ELSE f[r]]
<1>2. g = [r \in RoundIds |-> g[r]]
  OBVIOUS
<1>3. ASSUME NEW r \in RoundIds, r > k - 1
      PROVE  Follows(N, g, r)
  <2>1. r = k \/ r > k
    BY <1>3 DEF RoundIds
  <2>2. ASSUME N[r] # NoRound
        PROVE  N[r] \in RoundIds /\ N[r] # k
    <3>1. N[r] \in RoundIds /\ N[r] > r
      BY <2>2 DEF Descends
    <3> QED
      BY <2>1, <3>1 DEF RoundIds
  <2>3. CASE r = k
    BY <2>2, <2>3 DEF Follows
  <2>4. CASE r > k
    <3>1. r # k /\ Follows(N, f, r)
      BY <2>4 DEF FollowsAfter, RoundIds
    <3> QED
      BY <2>2, <3>1 DEF Follows
  <2> QED
    BY <2>1, <2>3, <2>4
<1> HIDE DEF g
<1> QED
  BY <1>2, <1>3 DEF FollowsAfter

\* Of the numbers of newest rounds from which no way exists none is the least.
LEMMA WayExists ==
    ASSUME NEW N, Descends(N)
    PROVE  \E f : FollowsAfter(N, f, 0)
<1> DEFINE Bad == {n \in 0..MaxRounds : ~\E f : FollowsAfter(N, f, MaxRounds - n)}
<1>1. MaxRounds \in Nat
  BY WebAgentAssumption
<1>2. Bad = {}
  <2>1. SUFFICES ASSUME Bad # {}
                 PROVE  FALSE
    OBVIOUS
  <2>2. PICK n \in Bad : \A m \in Bad : n <= m
    <3>1. Bad \subseteq Nat
      OBVIOUS
    <3> HIDE DEF Bad
    <3> QED
      BY <2>1, <3>1, LeastExists
  <2>3. n \in 0..MaxRounds /\ ~\E f : FollowsAfter(N, f, MaxRounds - n)
    BY <2>2
  <2>4. CASE n = 0
    <3>1. \A r \in RoundIds : ~(r > MaxRounds - 0)
      BY <1>1 DEF RoundIds
    <3>2. FollowsAfter(N, [r \in RoundIds |-> r], MaxRounds - 0)
      BY <3>1 DEF FollowsAfter
    <3> QED
      BY <2>3, <2>4, <3>2
  <2>5. CASE n # 0
    <3>1. n - 1 \in 0..MaxRounds /\ n - 1 \notin Bad
      BY <1>1, <2>2, <2>3, <2>5
    <3>2. PICK f : FollowsAfter(N, f, MaxRounds - (n - 1))
      BY <3>1
    <3> DEFINE k == MaxRounds - (n - 1)
    <3>3. k \in RoundIds /\ k - 1 = MaxRounds - n
      BY <1>1, <2>3, <2>5 DEF RoundIds
    <3> HIDE DEF k
    <3>4. \E g : FollowsAfter(N, g, k - 1)
      BY <3>2, <3>3, OneStepMore DEF k
    <3> QED
      BY <2>3, <3>3, <3>4
  <2> QED
    BY <2>4, <2>5
<1>3. MaxRounds \in 0..MaxRounds /\ MaxRounds - MaxRounds = 0
  BY <1>1
<1>4. \E f : FollowsAfter(N, f, MaxRounds - MaxRounds)
  BY <1>2, <1>3
<1> QED
  BY <1>3, <1>4

\* The way down ends where it began or at a round it leads to.
LEMMA WayEnds ==
    ASSUME NEW N, Descends(N), NEW f, FollowsAfter(N, f, 0), NEW L,
           \A r \in RoundIds : N[r] # NoRound => N[r] \in L
    PROVE  \A r \in RoundIds : f[r] = r \/ f[r] \in L
<1> DEFINE Bad == {r \in RoundIds : f[r] # r /\ f[r] \notin L}
<1>1. SUFFICES ASSUME Bad # {}
               PROVE  FALSE
  OBVIOUS
<1>2. PICK r \in Bad : \A q \in Bad : q <= r
  <2>1. Bad \subseteq RoundIds
    OBVIOUS
  <2> HIDE DEF Bad
  <2> QED
    BY <1>1, <2>1, NewestExists
<1>3. r \in RoundIds /\ f[r] # r /\ f[r] \notin L
  BY <1>2
<1>4. Follows(N, f, r)
  BY <1>3 DEF FollowsAfter, RoundIds
<1>5. N[r] # NoRound /\ f[r] = f[N[r]]
  BY <1>3, <1>4 DEF Follows
<1>6. N[r] \in RoundIds /\ N[r] > r /\ N[r] \in L
  BY <1>3, <1>5 DEF Descends
<1>7. N[r] \in Bad
  BY <1>3, <1>5, <1>6
<1>8. N[r] <= r
  BY <1>2, <1>7
<1> QED
  BY <1>3, <1>6, <1>8 DEF RoundIds

-----------------------------------------------------------------------------
(* getLatestAgentLeafId finds a round that is listed. *)

LEMMA ChildrenListed ==
    \A rs, p : Children(rs, p) \subseteq Listed(rs) /\ Listed(rs) \subseteq RoundIds
BY DEF Children, Listed

LEMMA NextDescends ==
    ASSUME NEW rs
    PROVE  /\ Descends(NextRound(rs))
           /\ \A r \in RoundIds : NextRound(rs)[r] # NoRound => NextRound(rs)[r] \in Listed(rs)
<1>1. ASSUME NEW r \in RoundIds, NextRound(rs)[r] # NoRound
      PROVE  /\ NextRound(rs)[r] \in Listed(rs) /\ NextRound(rs)[r] \in RoundIds
             /\ NextRound(rs)[r] > r
  <2> DEFINE C == Children(rs, r)
  <2>1. C # {} /\ ~(Newest(C) <= r) /\ NextRound(rs)[r] = Newest(C)
    BY <1>1 DEF NextRound
  <2>2. C \subseteq Listed(rs) /\ C \subseteq RoundIds
    BY ChildrenListed
  <2> HIDE DEF C
  <2>3. Newest(C) \in C
    BY <2>1, <2>2, NewestExists
  <2>4. Newest(C) \in RoundIds /\ Newest(C) \in Listed(rs)
    BY <2>2, <2>3
  <2>5. \A p, q \in RoundIds : ~(p <= q) => p > q
    BY DEF RoundIds
  <2>6. Newest(C) > r
    BY <2>1, <2>4, <2>5
  <2> QED
    BY <2>1, <2>4, <2>6
<1> QED
  BY <1>1 DEF Descends

\* A recursive function is the one that satisfies its equation, if there is one.
LEMMA LeafFollows ==
    ASSUME NEW rs
    PROVE  \E f : /\ FollowsAfter(NextRound(rs), f, 0)
                  /\ \A from : Leaf(rs, from) =
                        IF from # NoRound THEN f[from]
                        ELSE IF Children(rs, NoRound) = {} THEN NoRound
                        ELSE f[Newest(Children(rs, NoRound))]
<1> DEFINE N == NextRound(rs)
           E(f) == f = [r \in RoundIds |->
                           IF Children(rs, r) = {} \/ Newest(Children(rs, r)) <= r
                           THEN r ELSE f[Newest(Children(rs, r))]]
           down == CHOOSE f : E(f)
<1>1. \A from : Leaf(rs, from) =
        IF from # NoRound THEN down[from]
        ELSE IF Children(rs, NoRound) = {} THEN NoRound
        ELSE down[Newest(Children(rs, NoRound))]
  BY DEF Leaf
<1>2. Descends(N)
  BY NextDescends
<1>3. PICK g : FollowsAfter(N, g, 0)
  BY <1>2, WayExists
<1>4. E(g)
  <2>1. \A r \in RoundIds : r > 0
    BY DEF RoundIds
  <2>2. \A r \in RoundIds : N[r] = IF Children(rs, r) = {} \/ Newest(Children(rs, r)) <= r
                                  THEN NoRound ELSE Newest(Children(rs, r))
    BY DEF NextRound
  <2>3. ASSUME NEW r \in RoundIds
        PROVE  g[r] = IF Children(rs, r) = {} \/ Newest(Children(rs, r)) <= r
                      THEN r ELSE g[Newest(Children(rs, r))]
    <3>1. Follows(N, g, r)
      BY <1>3, <2>1 DEF FollowsAfter
    <3>2. ~(Children(rs, r) = {} \/ Newest(Children(rs, r)) <= r)
             => Newest(Children(rs, r)) # NoRound
      <4>1. ASSUME Children(rs, r) # {}
            PROVE  Newest(Children(rs, r)) \in RoundIds
        BY <4>1, ChildrenListed, NewestExists
      <4> QED
        BY <4>1 DEF RoundIds, NoRound
    <3> QED
      BY <2>2, <3>1, <3>2 DEF Follows
  <2> QED
    BY <1>3, <2>3 DEF FollowsAfter
<1>5. E(down)
  <2> HIDE DEF E
  <2> QED
    BY <1>4
<1>6. FollowsAfter(N, down, 0)
  <2> DEFINE f == down
  <2>1. E(f)
    BY <1>5
  <2> HIDE DEF f
  <2>2. ASSUME NEW r \in RoundIds
        PROVE  Follows(N, f, r)
    <3>1. f[r] = IF Children(rs, r) = {} \/ Newest(Children(rs, r)) <= r
                 THEN r ELSE f[Newest(Children(rs, r))]
      BY <2>1
    <3>2. Children(rs, r) # {} => Newest(Children(rs, r)) # NoRound
      <4>1. ASSUME Children(rs, r) # {}
            PROVE  Newest(Children(rs, r)) \in RoundIds
        BY <4>1, ChildrenListed, NewestExists
      <4> QED
        BY <4>1 DEF RoundIds, NoRound
    <3> QED
      BY <3>1, <3>2 DEF Follows, NextRound
  <2>3. f = [r \in RoundIds |-> f[r]]
    BY <2>1
  <2> QED
    BY <2>2, <2>3 DEF FollowsAfter, f
<1> HIDE DEF down, N
<1> QED
  BY <1>1, <1>6 DEF N

LEMMA LeafListed ==
    ASSUME NEW rs, NEW r \in Listed(rs)
    PROVE  Leaf(rs, r) \in Listed(rs)
<1>1. PICK f : FollowsAfter(NextRound(rs), f, 0) /\ (r # NoRound => Leaf(rs, r) = f[r])
  BY LeafFollows
<1>2. r \in RoundIds /\ r # NoRound
  BY DEF Listed, RoundIds, NoRound
<1>3. f[r] = r \/ f[r] \in Listed(rs)
  BY <1>1, <1>2, NextDescends, WayEnds
<1> QED
  BY <1>1, <1>2, <1>3

\* Every parent is listed and older than its child.
Tree(rs) == \A r \in Listed(rs) : rs[r].parent \in {NoRound} \cup (Listed(rs) \cap 1..(r - 1))

\* The oldest round of a tree is a root: the way down from the roots exists.
LEMMA RootLeafListed ==
    ASSUME NEW rs, Tree(rs)
    PROVE  \/ Leaf(rs, NoRound) \in Listed(rs)
           \/ Leaf(rs, NoRound) = NoRound /\ Listed(rs) = {}
<1> DEFINE C == Children(rs, NoRound)
<1>1. PICK f : /\ FollowsAfter(NextRound(rs), f, 0)
               /\ Leaf(rs, NoRound) = IF C = {} THEN NoRound ELSE f[Newest(C)]
  BY LeafFollows
<1>2. C \subseteq Listed(rs) /\ C \subseteq RoundIds
  BY ChildrenListed
<1>3. CASE C # {}
  <2>1. Newest(C) \in C
    BY <1>2, <1>3, NewestExists
  <2>2. f[Newest(C)] = Newest(C) \/ f[Newest(C)] \in Listed(rs)
    BY <1>1, <1>2, <2>1, NextDescends, WayEnds
  <2> QED
    BY <1>1, <1>2, <1>3, <2>1, <2>2
<1>4. CASE C = {}
  <2>1. SUFFICES ASSUME Listed(rs) # {}
                 PROVE  FALSE
    BY <1>1, <1>4
  <2>2. Listed(rs) \subseteq Nat
    BY DEF Listed, RoundIds
  <2>3. PICK r \in Listed(rs) : \A q \in Listed(rs) : r <= q
    BY <2>1, <2>2, LeastExists
  <2>4. rs[r].parent \notin 1..(r - 1) \cap Listed(rs)
    BY <2>2, <2>3
  <2>5. rs[r].parent = NoRound
    BY <2>3, <2>4 DEF Tree
  <2> QED
    BY <1>4, <2>3, <2>5 DEF Children
<1> QED
  BY <1>3, <1>4

-----------------------------------------------------------------------------
(* The invariant. *)

\* The active round is listed, if any is; a new round comes after all others.
TreeHeld ==
    /\ created \in Nat /\ Listed(rounds) \subseteq 1..created
    /\ Tree(rounds)
    /\ active \in Listed(rounds) \/ (active = NoRound /\ Listed(rounds) = {})

\* While the images of a message are stored, nothing is deleted and the place
\* of the message stays what it was.
SendingHeld ==
    sending.pc = "storing" =>
      /\ deleting = NoRound
      /\ sending.parent \in {NoRound} \cup Listed(rounds)
      /\ sending.edit \in Listed(rounds) => sending.parent = rounds[sending.edit].parent

TreeInv == TreeHeld /\ SendingHeld

\* A step that changes neither which rounds are listed nor their parents.
SameTree ==
    \A r \in RoundIds : /\ rounds'[r].parent = rounds[r].parent
                        /\ rounds'[r].status = "absent" <=> rounds[r].status = "absent"

LEMMA SameListed ==
    ASSUME SameTree
    PROVE  Listed(rounds') = Listed(rounds) /\ (Tree(rounds) => Tree(rounds'))
BY DEF SameTree, Listed, Tree

LEMMA SameHeld ==
    ASSUME TreeHeld, SameTree, created' = created,
           active' = active \/ active' \in Listed(rounds)
    PROVE  TreeHeld'
BY SameListed DEF TreeHeld

LEMMA SameSending ==
    ASSUME SendingHeld, SameTree, UNCHANGED <<sending, deleting>>
    PROVE  SendingHeld'
<1>1. Listed(rounds') = Listed(rounds)
  BY SameListed
<1>2. \A r \in Listed(rounds) : rounds'[r].parent = rounds[r].parent
  BY DEF SameTree, Listed
<1> QED
  BY <1>1, <1>2 DEF SendingHeld

LEMMA UnchangedTree == UNCHANGED rounds => SameTree
BY DEF SameTree

-----------------------------------------------------------------------------
(* Executions change neither the rounds that are listed nor their parents. *)

LEMMA RoundsPutTree ==
    ASSUME RoundsShape, NEW r \in Listed(rounds), NEW x, RoundBecomes(r, x),
           x.status # "absent", x.parent = rounds[r].parent
    PROVE  SameTree
<1>1. \A q \in RoundIds : rounds'[q] = IF q = r THEN x ELSE rounds[q]
  BY RoundsPut
<1> QED
  BY <1>1 DEF SameTree, Listed

LEMMA StatusTree ==
    ASSUME RoundsShape, NEW r \in Listed(rounds), NEW status, NEW reply, status # "absent",
           rounds' = [rounds EXCEPT ![r].status = status, ![r].reply = reply]
    PROVE  SameTree
<1>1. r \in RoundIds
  BY DEF Listed
<1>2. PICK x : RoundBecomes(r, x) /\ x.status = status /\ x.parent = rounds[r].parent
  BY <1>1, StatusPut
<1> QED
  BY <1>2, RoundsPutTree

LEMMA EndTree ==
    ASSUME RoundsShape, NEW e, Unwind(e) \/ Broken(e) \/ Finish(e)
    PROVE  SameTree
<1> DEFINE r == runs[e].round
<1>1. \/ rounds' = rounds
      \/ /\ r \in Listed(rounds)
         /\ \/ rounds' = [rounds EXCEPT ![r].status = "error", ![r].reply = "text"]
            \/ rounds' = [rounds EXCEPT ![r].status = "error", ![r].reply = "failed"]
            \/ rounds' = [rounds EXCEPT ![r].status = "done", ![r].reply = "text"]
  BY DEF Unwind, Stopped, Broken, Finish, Running, Listed
<1> HIDE DEF r
<1>2. "error" # "absent" /\ "done" # "absent"
  OBVIOUS
<1> QED
  BY <1>1, <1>2, UnchangedTree, StatusTree

LEMMA AnsweringOutside ==
    ASSUME NEW e, Answering(e)
    PROVE  UNCHANGED <<created, active, sending, deleting>>
BY DEF Answering, InputsRead, ToolStarted, ToolFailed, ToolCompleted, CallStored, CallEnds,
   AnswerStored, Decide, BatchAnswered, BatchStored, Continue, Answer, Outside

LEMMA AnsweringTree ==
    ASSUME AgentShape, NEW e \in Runs, Answering(e)
    PROVE  SameTree
<1>1. RoundsShape
  BY DEF AgentShape
<1>2. CASE InputsRead(e)
  <2>1. CASE /\ rounds' = [rounds EXCEPT ![runs[e].round].reply = "text"]
             /\ runs[e].round \in Listed(rounds)
    <3>1. runs[e].round \in RoundIds
      BY <2>1 DEF Listed
    <3>2. \A r \in RoundIds : /\ rounds'[r].parent = rounds[r].parent
                              /\ rounds'[r].status = rounds[r].status
      BY <1>1, <2>1, <3>1, ReplyPut
    <3> QED
      BY <3>2 DEF SameTree
  <2> QED
    BY <1>1, <1>2, <2>1, UnchangedTree, EndTree DEF InputsRead
<1>3. CASE Decide(e)
  <2>1. runs[e].asks \in {"nothing", "more", "batch"}
    BY DEF AgentShape, RunsShape, RunFields
  <2>2. Finish(e) \/ UNCHANGED rounds
    BY <1>3, <2>1 DEF Decide
  <2> QED
    BY <1>1, <2>2, UnchangedTree, EndTree
<1>4. CASE CallStored(e) \/ CallEnds(e) \/ AnswerStored(e) \/ Continue(e)
  BY <1>1, <1>4, UnchangedTree, EndTree DEF CallStored, CallEnds, AnswerStored, Continue
<1>5. CASE ToolStarted(e) \/ ToolFailed(e) \/ ToolCompleted(e)
             \/ BatchAnswered(e) \/ BatchStored(e)
             \/ \E image \in BOOLEAN, asks \in {"nothing", "batch", "more"} : Answer(e, image, asks)
  BY <1>5, UnchangedTree DEF ToolStarted, ToolFailed, ToolCompleted, BatchAnswered,
     BatchStored, Answer
<1> QED
  BY <1>2, <1>3, <1>4, <1>5 DEF Answering

-----------------------------------------------------------------------------
(* The user's steps. *)

\* A round begins to run: one that is listed, at its place, or a new one below
\* a listed one.
LEMMA PlacedTree ==
    ASSUME RoundsShape, TreeHeld, NEW r \in RoundIds, NEW x, RoundBecomes(r, x),
           x.status = "running", active' = r,
           \/ r \in Listed(rounds) /\ x.parent = rounds[r].parent /\ created' = created
           \/ /\ r = created + 1 /\ created' = created + 1
              /\ x.parent \in {NoRound} \cup Listed(rounds)
    PROVE  TreeHeld'
<1>1. CASE r \in Listed(rounds) /\ x.parent = rounds[r].parent /\ created' = created
  <2>1. SameTree
    BY <1>1, RoundsPutTree
  <2> QED
    BY <1>1, <2>1, SameHeld
<1>2. CASE /\ r = created + 1 /\ created' = created + 1
           /\ x.parent \in {NoRound} \cup Listed(rounds)
  <2>1. \A q \in RoundIds : rounds'[q] = IF q = r THEN x ELSE rounds[q]
    BY RoundsPut
  <2>2. created \in Nat /\ Listed(rounds) \subseteq 1..created
    BY DEF TreeHeld
  <2>3. Listed(rounds') = Listed(rounds) \cup {r}
    BY <2>1 DEF Listed
  <2>4. r \notin Listed(rounds) /\ Listed(rounds) \subseteq 1..(r - 1)
    BY <1>2, <2>2
  <2>5. ASSUME NEW q \in Listed(rounds')
        PROVE  rounds'[q].parent \in {NoRound} \cup (Listed(rounds') \cap 1..(q - 1))
    <3>1. CASE q = r
      <4>1. rounds'[q].parent = x.parent
        BY <2>1, <3>1
      <4> QED
        BY <1>2, <2>3, <2>4, <3>1, <4>1
    <3>2. CASE q # r
      <4>1. q \in Listed(rounds) /\ rounds'[q] = rounds[q]
        BY <2>1, <2>3, <2>5, <3>2 DEF Listed
      <4>2. rounds[q].parent \in {NoRound} \cup (Listed(rounds) \cap 1..(q - 1))
        BY <4>1 DEF TreeHeld, Tree
      <4> QED
        BY <2>3, <4>1, <4>2
    <3> QED
      BY <3>1, <3>2
  <2>6. created' \in Nat /\ Listed(rounds') \subseteq 1..created'
    BY <1>2, <2>2, <2>3
  <2>7. active' \in Listed(rounds')
    BY <2>3
  <2>8. Tree(rounds')
    BY <2>5 DEF Tree
  <2> QED
    BY <2>6, <2>7, <2>8 DEF TreeHeld
<1> QED
  BY <1>1, <1>2

\* What deleteAgentRoundFromConversation leaves: the other rounds, with the
\* place of the deleted one for its children.
LEMMA WithoutRound ==
    ASSUME RoundsShape, NEW d \in Listed(rounds), NEW rs, rs = Without(rounds, d)
    PROVE  /\ Listed(rs) = Listed(rounds) \ {d}
           /\ \A q \in Listed(rs) :
                 rs[q].parent = IF rounds[q].parent = d THEN rounds[d].parent ELSE rounds[q].parent
<1>1. \A q \in RoundIds : rs[q] = IF q = d THEN Absent
                                  ELSE IF q \in Children(rounds, d)
                                       THEN [rounds[q] EXCEPT !.parent = rounds[d].parent]
                                  ELSE rounds[q]
  BY DEF Without
<1>2. ASSUME NEW y, RoundFields(y), NEW p, NEW z, z = [y EXCEPT !.parent = p]
      PROVE  z.status = y.status /\ z.parent = p
  BY <1>2 DEF RoundFields
<1>3. ASSUME NEW q \in RoundIds, q # d
      PROVE  /\ rs[q].status = rounds[q].status
             /\ q \in Listed(rounds) => rs[q].parent =
                   IF rounds[q].parent = d THEN rounds[d].parent ELSE rounds[q].parent
  <2>1. RoundFields(rounds[q])
    BY DEF RoundsShape
  <2>2. CASE q \in Children(rounds, d)
    <3>1. rs[q] = [rounds[q] EXCEPT !.parent = rounds[d].parent]
      BY <1>1, <1>3, <2>2
    <3>2. rs[q].status = rounds[q].status /\ rs[q].parent = rounds[d].parent
      BY <1>2, <2>1, <3>1
    <3> QED
      BY <2>2, <3>2 DEF Children
  <2>3. CASE q \notin Children(rounds, d)
    BY <1>1, <1>3, <2>3 DEF Children
  <2> QED
    BY <2>2, <2>3
<1>4. rs[d].status = "absent"
  <2>1. d \in RoundIds
    BY DEF Listed
  <2>2. rs[d] = Absent
    BY <1>1, <2>1
  <2> QED
    BY <2>2 DEF Absent
<1>5. Listed(rs) = Listed(rounds) \ {d}
  BY <1>3, <1>4 DEF Listed
<1>6. ASSUME NEW q \in Listed(rs)
      PROVE  rs[q].parent = IF rounds[q].parent = d THEN rounds[d].parent ELSE rounds[q].parent
  <2>1. q \in RoundIds /\ q # d /\ q \in Listed(rounds)
    BY <1>5 DEF Listed
  <2> QED
    BY <1>3, <2>1
<1> QED
  BY <1>5, <1>6

LEMMA DeletedTree ==
    ASSUME RoundsShape, TreeHeld, RoundDeleted
    PROVE  TreeHeld'
<1> DEFINE d == deleting
<1>1. d # NoRound
  BY DEF RoundDeleted
<1>2. CASE d \notin Listed(rounds)
  <2>1. rounds' = rounds /\ active' = active /\ created' = created
    BY <1>1, <1>2 DEF RoundDeleted, TreeHeld
  <2> QED
    BY <2>1, UnchangedTree, SameHeld
<1>3. CASE d \in Listed(rounds)
  <2>1. rounds' = Without(rounds, d)
    BY <1>3 DEF RoundDeleted
  <2>2. /\ Listed(rounds') = Listed(rounds) \ {d}
        /\ \A q \in Listed(rounds') :
              rounds'[q].parent = IF rounds[q].parent = d THEN rounds[d].parent
                                  ELSE rounds[q].parent
    BY <1>3, <2>1, WithoutRound
  <2>3. /\ active' = IF active = d THEN ActiveLeaf(rounds', NoRound) ELSE active
        /\ created' = created
    BY DEF RoundDeleted
  <2> HIDE DEF d
  <2>4. d \in RoundIds /\ \A q \in RoundIds : q \in Nat /\ q # NoRound
    BY <1>3 DEF Listed, RoundIds, NoRound
  <2>5. rounds[d].parent \in {NoRound} \cup (Listed(rounds) \cap 1..(d - 1))
    BY <1>3 DEF TreeHeld, Tree
  <2>6. rounds[d].parent \in {NoRound} \cup (Listed(rounds') \cap 1..(d - 1))
    BY <2>2, <2>4, <2>5
  <2>7. ASSUME NEW q \in Listed(rounds')
        PROVE  rounds'[q].parent \in {NoRound} \cup (Listed(rounds') \cap 1..(q - 1))
    <3>1. q \in Listed(rounds) /\ q \in RoundIds
      BY <2>2 DEF Listed
    <3>2. rounds[q].parent \in {NoRound} \cup (Listed(rounds) \cap 1..(q - 1))
      BY <3>1 DEF TreeHeld, Tree
    <3>3. CASE rounds[q].parent = d
      <4>1. d \in 1..(q - 1)
        BY <2>4, <3>2, <3>3
      <4>2. 1..(d - 1) \subseteq 1..(q - 1)
        BY <2>4, <3>1, <4>1
      <4> QED
        BY <2>2, <2>6, <3>3, <4>2
    <3>4. CASE rounds[q].parent # d
      BY <2>2, <3>2, <3>4
    <3> QED
      BY <3>3, <3>4
  <2>8. Tree(rounds')
    BY <2>7 DEF Tree
  <2>9. \/ active' \in Listed(rounds')
        \/ active' = NoRound /\ Listed(rounds') = {}
    <3>1. CASE active = d
      <4>1. NoRound \notin Listed(rounds')
        BY <2>4 DEF Listed
      <4>2. active' = Leaf(rounds', NoRound)
        BY <2>3, <3>1, <4>1 DEF ActiveLeaf
      <4> QED
        BY <2>8, <4>2, RootLeafListed
    <3>2. CASE active # d
      BY <1>3, <2>2, <2>3, <3>2 DEF TreeHeld
    <3> QED
      BY <3>1, <3>2
  <2>10. created' \in Nat /\ Listed(rounds') \subseteq 1..created'
    BY <2>2, <2>3 DEF TreeHeld
  <2> QED
    BY <2>8, <2>9, <2>10 DEF TreeHeld
<1> QED
  BY <1>2, <1>3

\* The place of a message: below the active round, or beside the edited one.
LEMMA SendTree ==
    ASSUME OneAtATime, TreeInv, NEW edit, Send(edit)
    PROVE  TreeInv'
<1>1. /\ edit \in {NoRound} \cup Listed(rounds)
      /\ sending' = [pc |-> "storing", edit |-> edit,
                     parent |-> IF edit = NoRound THEN ActiveLeaf(rounds, active)
                                ELSE rounds[edit].parent]
      /\ UNCHANGED <<rounds, created, active, deleting>>
      /\ deleting = NoRound
  BY DEF Send, AtRest
<1>2. TreeHeld /\ Tree(rounds)
  BY DEF TreeInv, TreeHeld
<1>3. ActiveLeaf(rounds, active) \in {NoRound} \cup Listed(rounds)
  BY <1>2, RootLeafListed DEF ActiveLeaf
<1>4. \A r \in Listed(rounds) : r # NoRound /\ rounds[r].parent \in {NoRound} \cup Listed(rounds)
  BY <1>2 DEF Tree, Listed, RoundIds, NoRound
<1>5. /\ sending'.edit = edit
      /\ sending'.parent = IF edit = NoRound THEN ActiveLeaf(rounds, active)
                           ELSE rounds[edit].parent
  BY <1>1
<1>6. SendingHeld'
  BY <1>1, <1>3, <1>4, <1>5 DEF SendingHeld
<1>7. TreeHeld'
  BY <1>1, <1>2, UnchangedTree, SameHeld
<1> QED
  BY <1>6, <1>7 DEF TreeInv

LEMMA SentTree ==
    ASSUME RoundsShape, TreeInv, NEW e, Sent(e)
    PROVE  TreeInv'
<1> DEFINE edit == sending.edit
           again == /\ edit \in Listed(rounds)
                    /\ Children(rounds, edit) = {} /\ rounds[edit].reply # "text"
           r == IF again THEN edit ELSE created + 1
           reply == IF again THEN rounds[r].reply ELSE "none"
           x == [status |-> "running", parent |-> sending.parent, reply |-> reply]
<1>1. /\ sending.pc = "storing" /\ r \in RoundIds
      /\ rounds' = [rounds EXCEPT ![r] = x]
      /\ created' = IF again THEN created ELSE created + 1
      /\ active' = r
      /\ sending' = NotSending
  BY DEF Sent, RoundsShape
<1>2. /\ sending.parent \in {NoRound} \cup Listed(rounds)
      /\ again => sending.parent = rounds[r].parent /\ r \in Listed(rounds)
      /\ ~again => r = created + 1
  BY <1>1 DEF TreeInv, SendingHeld
<1>3. RoundFields(x) /\ x.status = "running" /\ x.parent = sending.parent
  BY DEF RoundFields
<1>4. SendingHeld'
  BY <1>1 DEF SendingHeld, NotSending
<1> HIDE DEF x, r, again
<1>5. RoundBecomes(r, x)
  BY <1>1, <1>3 DEF RoundBecomes
<1>6. \/ r \in Listed(rounds) /\ x.parent = rounds[r].parent /\ created' = created
      \/ /\ r = created + 1 /\ created' = created + 1
         /\ x.parent \in {NoRound} \cup Listed(rounds)
  BY <1>1, <1>2, <1>3
<1>7. TreeHeld'
  BY <1>1, <1>3, <1>5, <1>6, PlacedTree DEF TreeInv
<1> QED
  BY <1>4, <1>7 DEF TreeInv

LEMMA RegenerateTree ==
    ASSUME OneAtATime, RoundsShape, TreeInv, NEW r, NEW e, Regenerate(r, e)
    PROVE  TreeInv'
<1> DEFINE new == IF rounds[r].status = "error" THEN r ELSE created + 1
           reply == IF new = r THEN rounds[new].reply ELSE "none"
           x == [status |-> "running", parent |-> rounds[r].parent, reply |-> reply]
<1>1. /\ r \in Listed(rounds) /\ new \in RoundIds
      /\ rounds' = [rounds EXCEPT ![new] = x]
      /\ created' = IF new = r THEN created ELSE created + 1
      /\ active' = new
      /\ sending.pc = "idle" /\ UNCHANGED sending
  BY DEF Regenerate, AtRest, RoundsShape
<1>2. rounds[r].parent \in {NoRound} \cup Listed(rounds) /\ (new # r => new = created + 1)
  BY <1>1 DEF TreeInv, TreeHeld, Tree
<1>3. RoundFields(x) /\ x.status = "running" /\ x.parent = rounds[r].parent
  BY DEF RoundFields
<1>4. SendingHeld'
  BY <1>1 DEF SendingHeld
<1> HIDE DEF x, new
<1>5. RoundBecomes(new, x)
  BY <1>1, <1>3 DEF RoundBecomes
<1>6. \/ new \in Listed(rounds) /\ x.parent = rounds[new].parent /\ created' = created
      \/ /\ new = created + 1 /\ created' = created + 1
         /\ x.parent \in {NoRound} \cup Listed(rounds)
  BY <1>1, <1>2, <1>3
<1>7. TreeHeld'
  BY <1>1, <1>3, <1>5, <1>6, PlacedTree DEF TreeInv
<1> QED
  BY <1>4, <1>7 DEF TreeInv

\* The other steps change neither which rounds are listed nor their parents.
LEMMA SettledTree ==
    ASSUME OneAtATime, RoundsShape, TreeInv, NEW r \in RoundIds,
           Stop(r) \/ SwitchBranch(r) \/ DeleteAnswer(r) \/ DeleteRound(r)
    PROVE  TreeInv'
<1>1. SameTree
  <2>1. CASE Stop(r)
    <3>1. r \in Listed(rounds) /\ "error" # "absent"
      BY <2>1 DEF Stop, Running, Listed
    <3>2. rounds' = [rounds EXCEPT ![r].status = "error", ![r].reply = "text"]
      BY <2>1 DEF Stop, Stopped
    <3> QED
      BY <3>1, <3>2, StatusTree
  <2>2. CASE DeleteAnswer(r)
    <3>1. rounds' = [rounds EXCEPT ![r].reply = "none"]
      BY <2>2 DEF DeleteAnswer
    <3>2. \A q \in RoundIds : /\ rounds'[q].status = rounds[q].status
                              /\ rounds'[q].parent = rounds[q].parent
      BY <3>1, ReplyPut
    <3> QED
      BY <3>2 DEF SameTree
  <2>3. CASE SwitchBranch(r) \/ DeleteRound(r)
    BY <2>3, UnchangedTree DEF SwitchBranch, DeleteRound
  <2> QED
    BY <2>1, <2>2, <2>3
<1>2. /\ created' = created /\ sending' = sending /\ sending.pc = "idle"
      /\ active' = active \/ active' \in Listed(rounds)
  BY LeafListed DEF Stop, SwitchBranch, DeleteAnswer, DeleteRound, AtRest
<1>3. SendingHeld'
  BY <1>2 DEF SendingHeld
<1> QED
  BY <1>1, <1>2, <1>3, SameHeld DEF TreeInv

LEMMA UserTree ==
    ASSUME OneAtATime, AgentShape, TreeInv, AgentUser
    PROVE  TreeInv'
<1>1. RoundsShape
  BY DEF AgentShape
<1>2. CASE RoundDeleted
  <2>1. TreeHeld'
    BY <1>1, <1>2, DeletedTree DEF TreeInv
  <2>2. sending' = sending /\ deleting' = NoRound /\ sending.pc # "storing"
    BY <1>2 DEF RoundDeleted, TreeInv, SendingHeld
  <2>3. SendingHeld'
    BY <2>2 DEF SendingHeld
  <2> QED
    BY <2>1, <2>3 DEF TreeInv
<1>3. CASE SendFails
  <2>1. TreeHeld'
    BY <1>3, UnchangedTree, SameHeld DEF SendFails, TreeInv
  <2>2. SendingHeld'
    BY <1>3 DEF SendFails, SendingHeld, NotSending
  <2> QED
    BY <2>1, <2>2 DEF TreeInv
<1>4. CASE AgentReload
  <2>1. ASSUME NEW y, RoundFields(y), NEW z, z = [y EXCEPT !.status = "error"]
        PROVE  z.status = "error" /\ z.parent = y.parent
    BY <2>1 DEF RoundFields
  <2>2. ASSUME NEW r \in RoundIds
        PROVE  /\ rounds'[r].parent = rounds[r].parent
               /\ rounds'[r].status = "absent" <=> rounds[r].status = "absent"
    <3>1. RoundFields(rounds[r])
      BY <1>1 DEF RoundsShape
    <3>2. rounds'[r] = IF rounds[r].status = "running"
                       THEN [rounds[r] EXCEPT !.status = "error"] ELSE rounds[r]
      BY <1>4 DEF AgentReload, Running
    <3> QED
      BY <2>1, <3>1, <3>2
  <2>3. SameTree
    BY <2>2 DEF SameTree
  <2>4. TreeHeld'
    BY <1>4, <2>3, SameHeld DEF AgentReload, TreeInv
  <2>5. SendingHeld'
    BY <1>4 DEF AgentReload, SendingHeld, NotSending
  <2> QED
    BY <2>4, <2>5 DEF TreeInv
<1> QED
  BY <1>1, <1>2, <1>3, <1>4, SendTree, SentTree, RegenerateTree, SettledTree DEF AgentUser

LEMMA InitTree == AgentInit => TreeInv
<1> SUFFICES ASSUME AgentInit
             PROVE  TreeInv
  OBVIOUS
<1>1. \A r \in RoundIds : rounds[r].status = "absent"
  BY DEF AgentInit, Absent
<1>2. Listed(rounds) = {}
  BY <1>1 DEF Listed
<1> QED
  BY <1>2 DEF AgentInit, TreeInv, TreeHeld, Tree, SendingHeld, NotSending

LEMMA NextTree ==
    ASSUME OneAtATime, AgentShape, TreeInv, [AgentNext]_agentVars
    PROVE  TreeInv'
<1>1. ASSUME SameTree, UNCHANGED <<created, active, sending, deleting>>
      PROVE  TreeInv'
  BY <1>1, SameHeld, SameSending DEF TreeInv
<1>2. CASE AgentUser
  BY <1>2, UserTree
<1>3. ASSUME NEW e \in Runs, Answering(e)
      PROVE  TreeInv'
  BY <1>1, <1>3, AnsweringTree, AnsweringOutside
<1>4. CASE UNCHANGED agentVars
  BY <1>1, <1>4, UnchangedTree DEF agentVars
<1> QED
  BY <1>2, <1>3, <1>4 DEF AgentNext

\* Sending, editing, regenerating and deleting keep the rounds of a
\* conversation a tree whose active round is listed, with answers under way:
\* deleteAgentRoundFromConversation gives the children of a round its parent,
\* and getLatestAgentLeafId finds a listed round.  The user does nothing else
\* while a message's images are stored or a message is being deleted.
THEOREM TreeHolds == OneAtATime => (AgentSpec => []RoundsAreATree)
<1> SUFFICES ASSUME OneAtATime
             PROVE  AgentSpec => []RoundsAreATree
  OBVIOUS
<1> DEFINE Inv == AgentInv /\ TreeInv
<1>1. AgentInit => Inv
  BY InitAgentInv, InitTree
<1>2. Inv /\ [AgentNext]_agentVars => Inv'
  <2>1. ASSUME AgentInv, TreeInv, [AgentNext]_agentVars
        PROVE  AgentInv' /\ TreeInv'
    BY <2>1, NextAgentInv, NextTree DEF AgentInv
  <2> QED
    BY <2>1
<1>3. Inv => RoundsAreATree
  BY DEF TreeInv, TreeHeld, Tree, RoundsAreATree
<1> HIDE DEF Inv
<1> QED
  BY <1>1, <1>2, <1>3, PTL DEF AgentSpec

-----------------------------------------------------------------------------
(***************************************************************************)
(* Every image of a provider call keeps its prompt: proved for any number  *)
(* of requests, items and polls, as long as every completed event of an    *)
(* image stream carries an image.                                          *)
(***************************************************************************)

ItemNames == Nat \X Nat
Precedes(x, y) == x[1] < y[1] \/ (x[1] = y[1] /\ x[2] < y[2])
InOrder(s) == \A i, j \in DOMAIN s : i < j => Precedes(s[i], s[j])

LEMMA ItemsListed ==
    \A s \in Seq(ItemNames) : \A x : x \in Range(s) <=> \E i \in 1..Len(s) : s[i] = x
<1>1. ASSUME NEW s \in Seq(ItemNames)
      PROVE  DOMAIN s = 1..Len(s)
  BY LenProperties
<1> QED
  BY <1>1 DEF Range

LEMMA OrderedJoin ==
    ASSUME NEW s \in Seq(ItemNames), NEW t \in Seq(ItemNames), InOrder(s), InOrder(t),
           \A x \in Range(s), y \in Range(t) : Precedes(x, y)
    PROVE  /\ s \o t \in Seq(ItemNames) /\ InOrder(s \o t)
           /\ \A x : x \in Range(s \o t) <=> x \in Range(s) \/ x \in Range(t)
<1> DEFINE u == s \o t
<1>1. /\ u \in Seq(ItemNames) /\ Len(u) = Len(s) + Len(t)
      /\ \A i \in 1..Len(u) : u[i] = IF i <= Len(s) THEN s[i] ELSE t[i - Len(s)]
  BY ConcatProperties
<1>2. Len(s) \in Nat /\ Len(t) \in Nat /\ DOMAIN s = 1..Len(s) /\ DOMAIN t = 1..Len(t)
  BY LenProperties
<1>3. DOMAIN u = 1..Len(u)
  BY <1>1, LenProperties
<1> HIDE DEF u
<1>4. ASSUME NEW i \in 1..Len(u), NEW j \in 1..Len(u), i < j
      PROVE  Precedes(u[i], u[j])
  <2>1. CASE j <= Len(s)
    <3>1. i \in DOMAIN s /\ j \in DOMAIN s /\ u[i] = s[i] /\ u[j] = s[j]
      BY <1>1, <1>2, <1>4, <2>1
    <3> QED
      BY <1>4, <3>1 DEF InOrder
  <2>2. CASE i <= Len(s) /\ ~(j <= Len(s))
    <3>1. /\ i \in 1..Len(s) /\ j - Len(s) \in 1..Len(t)
          /\ u[i] = s[i] /\ u[j] = t[j - Len(s)]
      BY <1>1, <1>2, <1>4, <2>2
    <3>2. u[i] \in Range(s) /\ u[j] \in Range(t)
      BY <3>1, ItemsListed
    <3> QED
      BY <3>2
  <2>3. CASE ~(i <= Len(s))
    <3>1. ~(j <= Len(s)) /\ i - Len(s) \in 1..Len(t) /\ j - Len(s) \in 1..Len(t)
          /\ i - Len(s) < j - Len(s)
      BY <1>1, <1>2, <1>4, <2>3
    <3>2. u[i] = t[i - Len(s)] /\ u[j] = t[j - Len(s)]
      BY <1>1, <2>3, <3>1
    <3> QED
      BY <1>2, <3>1, <3>2 DEF InOrder
  <2> QED
    BY <2>1, <2>2, <2>3
<1>5. ASSUME NEW x, x \in Range(u)
      PROVE  x \in Range(s) \/ x \in Range(t)
  <2>1. PICK i \in 1..Len(u) : u[i] = x
    BY <1>1, <1>5, ItemsListed
  <2>2. CASE i <= Len(s)
    <3>1. i \in 1..Len(s) /\ s[i] = x
      BY <1>1, <1>2, <2>1, <2>2
    <3> QED
      BY <3>1, ItemsListed
  <2>3. CASE ~(i <= Len(s))
    <3>1. i - Len(s) \in 1..Len(t) /\ t[i - Len(s)] = x
      BY <1>1, <1>2, <2>1, <2>3
    <3> QED
      BY <3>1, ItemsListed
  <2> QED
    BY <2>2, <2>3
<1>6. ASSUME NEW x, x \in Range(s)
      PROVE  x \in Range(u)
  <2>1. PICK i \in 1..Len(s) : s[i] = x
    BY <1>6, ItemsListed
  <2>2. i \in 1..Len(u) /\ u[i] = x
    BY <1>1, <1>2, <2>1
  <2> QED
    BY <1>1, <2>2, ItemsListed
<1>7. ASSUME NEW x, x \in Range(t)
      PROVE  x \in Range(u)
  <2>1. PICK i \in 1..Len(t) : t[i] = x
    BY <1>7, ItemsListed
  <2> DEFINE k == i + Len(s)
  <2>2. k \in 1..Len(u) /\ u[k] = x
    <3>1. k \in 1..Len(u) /\ ~(k <= Len(s)) /\ k - Len(s) = i
      BY <1>1, <1>2, <2>1
    <3> HIDE DEF k
    <3> QED
      BY <1>1, <2>1, <3>1
  <2> QED
    BY <1>1, <2>2, ItemsListed
<1> QED
  BY <1>1, <1>3, <1>4, <1>5, <1>6, <1>7 DEF InOrder, u

-----------------------------------------------------------------------------
(* flatMap, as FlattenSeq has it: the pieces one after the other.           *)

JoinsPieces(f, p, n) == f = [k \in 1..n |-> IF k = 1 THEN p[k] ELSE f[k - 1] \o p[k]]

\* Of the numbers of pieces that cannot be joined none is the least.
LEMMA PiecesJoin ==
    ASSUME NEW p, NEW n \in Nat
    PROVE  \E f : JoinsPieces(f, p, n)
<1> DEFINE Bad == {m \in Nat : ~\E f : JoinsPieces(f, p, m)}
<1>1. SUFFICES ASSUME Bad # {}
               PROVE  FALSE
  OBVIOUS
<1>2. PICK m \in Bad : \A k \in Bad : m <= k
  <2>1. Bad \subseteq Nat
    OBVIOUS
  <2> HIDE DEF Bad
  <2> QED
    BY <1>1, <2>1, LeastExists
<1>3. m \in Nat /\ ~\E f : JoinsPieces(f, p, m)
  BY <1>2
<1>4. CASE m = 0
  <2> DEFINE f == [k \in 1..0 |-> 0]
  <2>1. JoinsPieces(f, p, 0)
    BY DEF JoinsPieces
  <2> QED
    BY <1>3, <1>4, <2>1
<1>5. CASE m # 0
  <2>1. m - 1 \in Nat /\ m - 1 \notin Bad
    BY <1>2, <1>3, <1>5
  <2>2. PICK f : JoinsPieces(f, p, m - 1)
    BY <2>1
  <2> DEFINE last == IF m = 1 THEN p[m] ELSE f[m - 1] \o p[m]
             g == [k \in 1..m |-> IF k = m THEN last ELSE f[k]]
  <2>3. ASSUME NEW k \in 1..m
        PROVE  g[k] = IF k = 1 THEN p[k] ELSE g[k - 1] \o p[k]
    <3>1. CASE k = m
      <4>1. k # 1 => k - 1 \in 1..m /\ k - 1 # m
        BY <1>3, <3>1
      <4>2. k # 1 => g[k - 1] = f[k - 1]
        BY <4>1
      <4> QED
        BY <3>1, <4>2
    <3>2. CASE k # m
      <4>1. k \in 1..(m - 1) /\ (k # 1 => k - 1 \in 1..m /\ k - 1 # m)
        BY <1>3, <3>2
      <4>2. f[k] = IF k = 1 THEN p[k] ELSE f[k - 1] \o p[k]
        BY <2>2, <4>1 DEF JoinsPieces
      <4>3. g[k] = f[k] /\ (k # 1 => g[k - 1] = f[k - 1])
        BY <3>2, <4>1
      <4> QED
        BY <4>2, <4>3
    <3> QED
      BY <3>1, <3>2
  <2>4. g = [k \in 1..m |-> g[k]]
    OBVIOUS
  <2> HIDE DEF g
  <2>5. JoinsPieces(g, p, m)
    BY <2>3, <2>4 DEF JoinsPieces
  <2> QED
    BY <1>3, <2>5
<1> QED
  BY <1>4, <1>5

LEMMA FlattenJoins ==
    ASSUME NEW n \in Nat, NEW p, p = [k \in 1..n |-> p[k]]
    PROVE  \E f : JoinsPieces(f, p, n) /\ FlattenSeq(p) = IF n = 0 THEN p ELSE f[n]
<1> DEFINE E(f) == f = [i \in 1..n |-> IF i = 1 THEN p[i] ELSE f[i - 1] \o p[i]]
           flatten == CHOOSE f : E(f)
<1>1. Len(p) = n
  OBVIOUS
<1>2. FlattenSeq(p) = IF n = 0 THEN p ELSE flatten[n]
  BY <1>1 DEF FlattenSeq
<1>3. PICK f : JoinsPieces(f, p, n)
  BY PiecesJoin
<1>4. E(f)
  BY <1>3 DEF JoinsPieces
<1>5. E(flatten)
  <2> HIDE DEF E
  <2> QED
    BY <1>4
<1>6. JoinsPieces(flatten, p, n)
  BY <1>5 DEF JoinsPieces
<1> HIDE DEF flatten
<1> QED
  BY <1>2, <1>6

\* Pieces that are in order, each before all later ones.
InPieces(p, n) ==
    /\ \A k \in 1..n : p[k] \in Seq(ItemNames) /\ InOrder(p[k])
    /\ \A k, l \in 1..n : k < l => \A x \in Range(p[k]), y \in Range(p[l]) : Precedes(x, y)

JoinedWell(s, p, n) ==
    /\ s \in Seq(ItemNames) /\ InOrder(s)
    /\ \A x : x \in Range(s) <=> \E k \in 1..n : x \in Range(p[k])

LEMMA FlattenOrdered ==
    ASSUME NEW n \in Nat, NEW p, p = [k \in 1..n |-> p[k]], InPieces(p, n)
    PROVE  JoinedWell(FlattenSeq(p), p, n)
<1>1. PICK f : JoinsPieces(f, p, n) /\ FlattenSeq(p) = IF n = 0 THEN p ELSE f[n]
  BY FlattenJoins
<1> DEFINE Bad == {k \in 1..n : ~JoinedWell(f[k], p, k)}
<1>2. Bad = {}
  <2>1. SUFFICES ASSUME Bad # {}
                 PROVE  FALSE
    OBVIOUS
  <2>2. PICK m \in Bad : \A k \in Bad : m <= k
    <3>1. Bad \subseteq Nat
      OBVIOUS
    <3> HIDE DEF Bad
    <3> QED
      BY <2>1, <3>1, LeastExists
  <2>3. m \in 1..n /\ ~JoinedWell(f[m], p, m) /\ p[m] \in Seq(ItemNames) /\ InOrder(p[m])
    BY <2>2 DEF InPieces
  <2>4. f[m] = IF m = 1 THEN p[m] ELSE f[m - 1] \o p[m]
    BY <1>1, <2>3 DEF JoinsPieces
  <2>5. CASE m = 1
    BY <2>3, <2>4, <2>5 DEF JoinedWell
  <2>6. CASE m # 1
    <3>1. m - 1 \in 1..n /\ m - 1 \notin Bad
      BY <2>2, <2>3, <2>6
    <3>2. JoinedWell(f[m - 1], p, m - 1)
      BY <3>1
    <3>3. ASSUME NEW x \in Range(f[m - 1]), NEW y \in Range(p[m])
          PROVE  Precedes(x, y)
      <4>1. PICK k \in 1..(m - 1) : x \in Range(p[k])
        BY <3>2 DEF JoinedWell
      <4>2. k \in 1..n /\ k < m
        BY <2>3
      <4> QED
        BY <2>3, <4>1, <4>2 DEF InPieces
    <3>4. /\ f[m] \in Seq(ItemNames) /\ InOrder(f[m])
          /\ \A x : x \in Range(f[m]) <=> x \in Range(f[m - 1]) \/ x \in Range(p[m])
      BY <2>3, <2>4, <2>6, <3>2, <3>3, OrderedJoin DEF JoinedWell
    <3>5. \A k : k \in 1..m <=> k \in 1..(m - 1) \/ k = m
      BY <2>3, <2>6
    <3>6. JoinedWell(f[m], p, m)
      BY <3>2, <3>4, <3>5 DEF JoinedWell
    <3> QED
      BY <2>3, <3>6
  <2> QED
    BY <2>5, <2>6
<1>3. CASE n = 0
  <2>1. p = <<>> /\ 1..n = {}
    BY <1>3
  <2>2. <<>> \in Seq(ItemNames) /\ InOrder(<<>>) /\ Range(<<>>) = {}
    BY DEF InOrder, Range
  <2> QED
    BY <1>1, <1>3, <2>1, <2>2 DEF JoinedWell
<1>4. CASE n # 0
  <2>1. n \in 1..n
    BY <1>4
  <2> QED
    BY <1>1, <1>2, <1>4, <2>1
<1> QED
  BY <1>3, <1>4

-----------------------------------------------------------------------------
(* What the images of a request and of the whole call are.                  *)

Spots == {"preparing", "sent", "body", "streaming", "polling", "downloading", "done", "failed"}
Timers == {"on", "off", "fired"}
RequestTyped(x) == x \in [at: Spots, timer: Timers, items: Seq(BOOLEAN),
                          final: BOOLEAN, rounds: Nat]
RequestsShape == /\ \E n \in Nat : DOMAIN req = 1..n
                 /\ req = [r \in DOMAIN req |-> req[r]]
                 /\ \A r \in DOMAIN req : RequestTyped(req[r])

LEMMA ImagesOfRequest ==
    ASSUME NEW r \in DOMAIN req, RequestsShape
    PROVE  /\ WithImage(r) \in Seq(ItemNames) /\ InOrder(WithImage(r))
           /\ \A x : x \in Range(WithImage(r)) <=>
                        \E i \in DOMAIN req[r].items : req[r].items[i] /\ x = <<r, i>>
<1> DEFINE s == req[r].items
           n == Len(s)
           p == [i \in 1..n |-> IF s[i] THEN << <<r, i>> >> ELSE <<>>]
<1>1. r \in Nat /\ s \in Seq(BOOLEAN)
  BY DEF RequestsShape, RequestTyped
<1>2. n \in Nat /\ DOMAIN s = 1..n
  BY <1>1, LenProperties
<1>3. WithImage(r) = FlattenSeq(p)
  BY <1>2 DEF WithImage
<1>4. ASSUME NEW i \in 1..n
      PROVE  /\ p[i] \in Seq(ItemNames) /\ InOrder(p[i])
             /\ \A x : x \in Range(p[i]) <=> s[i] /\ x = <<r, i>>
  <2>1. CASE s[i]
    <3>1. p[i] = << <<r, i>> >> /\ <<r, i>> \in ItemNames
      BY <1>1, <2>1 DEF ItemNames
    <3> DEFINE y == <<r, i>>
    <3> HIDE DEF y
    <3>2. <<y>> \in Seq(ItemNames) /\ DOMAIN <<y>> = {1} /\ <<y>>[1] = y
      BY <3>1 DEF y
    <3>3. InOrder(<<y>>) /\ \A x : x \in Range(<<y>>) <=> x = y
      BY <3>2 DEF InOrder, Range
    <3> QED
      BY <2>1, <3>1, <3>2, <3>3 DEF y
  <2>2. CASE ~s[i]
    <3>1. p[i] = <<>>
      BY <2>2
    <3>2. <<>> \in Seq(ItemNames) /\ InOrder(<<>>) /\ Range(<<>>) = {}
      BY DEF InOrder, Range
    <3> QED
      BY <2>2, <3>1, <3>2
  <2> QED
    BY <2>1, <2>2
<1>5. p = [i \in 1..n |-> p[i]]
  OBVIOUS
<1> HIDE DEF p
<1>6. ASSUME NEW k \in 1..n, NEW l \in 1..n, k < l, NEW x \in Range(p[k]), NEW y \in Range(p[l])
      PROVE  Precedes(x, y)
  <2>1. x = <<r, k>> /\ y = <<r, l>>
    BY <1>4, <1>6
  <2> QED
    BY <1>6, <2>1 DEF Precedes
<1>7. InPieces(p, n)
  BY <1>4, <1>6 DEF InPieces
<1> HIDE DEF n, s
<1>8. JoinedWell(FlattenSeq(p), p, n)
  BY <1>2, <1>5, <1>7, FlattenOrdered
<1>9. \A x : x \in Range(FlattenSeq(p)) <=> \E i \in 1..n : s[i] /\ x = <<r, i>>
  BY <1>4, <1>8 DEF JoinedWell
<1> QED
  BY <1>2, <1>3, <1>8, <1>9 DEF JoinedWell, s

\* When every item has an image the images are the items.
LEMMA ImagesAreItems ==
    ASSUME NEW r \in DOMAIN req, RequestsShape, \A i \in DOMAIN req[r].items : req[r].items[i]
    PROVE  WithImage(r) = Numbered(r)
<1> DEFINE s == req[r].items
           n == Len(s)
           p == [i \in 1..n |-> IF s[i] THEN << <<r, i>> >> ELSE <<>>]
           q(m) == [i \in 1..m |-> <<r, i>>]
<1>1. s \in Seq(BOOLEAN)
  BY DEF RequestsShape, RequestTyped
<1>2. n \in Nat /\ DOMAIN s = 1..n
  BY <1>1, LenProperties
<1>3. WithImage(r) = FlattenSeq(p) /\ Numbered(r) = q(n)
  BY <1>2 DEF WithImage, Numbered
<1>4. \A i \in 1..n : p[i] = << <<r, i>> >>
  BY <1>2
<1>5. p = [i \in 1..n |-> p[i]]
  OBVIOUS
<1>6. n = 0 => p = q(n)
  OBVIOUS
<1> HIDE DEF p, n, s
<1>7. PICK f : JoinsPieces(f, p, n) /\ FlattenSeq(p) = IF n = 0 THEN p ELSE f[n]
  BY <1>2, <1>5, FlattenJoins
<1> DEFINE Bad == {k \in 1..n : f[k] # q(k)}
<1>8. Bad = {}
  <2>1. SUFFICES ASSUME Bad # {}
                 PROVE  FALSE
    OBVIOUS
  <2>2. PICK m \in Bad : \A k \in Bad : m <= k
    <3>1. Bad \subseteq Nat
      BY <1>2
    <3> HIDE DEF Bad
    <3> QED
      BY <2>1, <3>1, LeastExists
  <2>3. m \in 1..n /\ f[m] # q(m)
    BY <2>2
  <2>4. f[m] = IF m = 1 THEN << <<r, m>> >> ELSE f[m - 1] \o << <<r, m>> >>
    BY <1>4, <1>7, <2>3 DEF JoinsPieces
  <2>5. CASE m = 1
    <3>1. q(1) = << <<r, 1>> >>
      OBVIOUS
    <3> QED
      BY <2>3, <2>4, <2>5, <3>1
  <2>6. CASE m # 1
    <3>1. m - 1 \in 1..n /\ m - 1 \notin Bad /\ m \in Nat
      BY <1>2, <2>2, <2>3, <2>6
    <3>2. f[m - 1] = q(m - 1)
      BY <3>1
    <3> DEFINE y(i) == <<r, i>>
    <3> HIDE DEF y
    <3>3. [i \in 1..(m - 1) |-> y(i)] \o <<y(m)>> = [i \in 1..m |-> y(i)]
      BY <3>1
    <3>4. q(m - 1) \o << <<r, m>> >> = q(m)
      BY <3>3 DEF y
    <3> QED
      BY <2>3, <2>4, <2>6, <3>2, <3>4
  <2> QED
    BY <2>5, <2>6
<1>9. CASE n = 0
  BY <1>3, <1>6, <1>7, <1>9
<1>10. CASE n # 0
  <2>1. n \in 1..n
    BY <1>2, <1>10
  <2> QED
    BY <1>3, <1>7, <1>8, <1>10, <2>1
<1> QED
  BY <1>9, <1>10

LEMMA JoinedImages ==
    ASSUME RequestsShape, NEW images, images = Joined([r \in DOMAIN req |-> WithImage(r)])
    PROVE  /\ images \in Seq(ItemNames) /\ InOrder(images)
           /\ \A x : x \in Range(images) <=> \E r \in Succeeded : x \in Range(WithImage(r))
<1> DEFINE p == [r \in DOMAIN req |-> IF r \in Succeeded THEN WithImage(r) ELSE <<>>]
<1>1. PICK n \in Nat : DOMAIN req = 1..n
  BY DEF RequestsShape
<1>2. images = FlattenSeq(p)
  <2> DEFINE w == [r \in DOMAIN req |-> WithImage(r)]
  <2>1. \A r \in DOMAIN req : w[r] = WithImage(r)
    OBVIOUS
  <2>2. images = FlattenSeq([r \in DOMAIN req |-> IF r \in Succeeded THEN w[r] ELSE <<>>])
    BY DEF Joined
  <2> HIDE DEF w
  <2> QED
    BY <2>1, <2>2
<1>3. ASSUME NEW r \in 1..n
      PROVE  /\ p[r] \in Seq(ItemNames) /\ InOrder(p[r])
             /\ \A x : x \in Range(p[r]) <=> r \in Succeeded /\ x \in Range(WithImage(r))
             /\ \A x \in Range(p[r]) : x[1] = r
  <2>1. CASE r \in Succeeded
    <3>1. p[r] = WithImage(r)
      BY <1>1, <2>1
    <3>2. \A x \in Range(WithImage(r)) : x[1] = r
      BY <1>1, ImagesOfRequest
    <3> QED
      BY <1>1, <2>1, <3>1, <3>2, ImagesOfRequest
  <2>2. CASE r \notin Succeeded
    <3>1. p[r] = <<>>
      BY <1>1, <2>2
    <3>2. <<>> \in Seq(ItemNames) /\ InOrder(<<>>) /\ Range(<<>>) = {}
      BY DEF InOrder, Range
    <3> QED
      BY <2>2, <3>1, <3>2
  <2> QED
    BY <2>1, <2>2
<1>4. p = [r \in 1..n |-> p[r]]
  BY <1>1
<1> HIDE DEF p
<1>5. InPieces(p, n)
  BY <1>3 DEF InPieces, Precedes
<1>6. JoinedWell(images, p, n)
  BY <1>2, <1>4, <1>5, FlattenOrdered
<1>7. \A x : x \in Range(images) <=> \E r \in Succeeded : x \in Range(WithImage(r))
  <2>1. Succeeded \subseteq 1..n
    BY <1>1 DEF Succeeded
  <2> QED
    BY <1>3, <1>6, <2>1 DEF JoinedWell
<1> QED
  BY <1>6, <1>7 DEF JoinedWell

LEMMA JoinedNothing ==
    ASSUME RequestsShape, NEW details, details = Joined([r \in DOMAIN req |-> <<>>])
    PROVE  details = <<>>
<1> DEFINE p == [r \in DOMAIN req |-> <<>>]
<1>1. PICK n \in Nat : DOMAIN req = 1..n
  BY DEF RequestsShape
<1>2. details = FlattenSeq(p)
  <2>1. \A r \in DOMAIN req : p[r] = <<>>
    OBVIOUS
  <2>2. details = FlattenSeq([r \in DOMAIN req |-> IF r \in Succeeded THEN p[r] ELSE <<>>])
    BY DEF Joined
  <2> QED
    BY <2>1, <2>2
<1>3. \A r \in 1..n : p[r] = <<>>
  BY <1>1
<1>4. p = [r \in 1..n |-> p[r]]
  BY <1>1
<1> HIDE DEF p
<1>5. <<>> \in Seq(ItemNames) /\ InOrder(<<>>) /\ Range(<<>>) = {}
  BY DEF InOrder, Range
<1>6. InPieces(p, n)
  BY <1>3, <1>5 DEF InPieces
<1>7. JoinedWell(details, p, n)
  BY <1>2, <1>4, <1>6, FlattenOrdered
<1>8. details \in Seq(ItemNames) /\ \A x : x \notin Range(details)
  BY <1>3, <1>5, <1>7 DEF JoinedWell
<1>9. \A i \in 1..Len(details) : FALSE
  BY <1>8, ItemsListed
<1> QED
  BY <1>8, <1>9

-----------------------------------------------------------------------------
(* The invariant: a request that succeeded has an image, and the items of an *)
(* image stream that is not over all have one.                              *)

RequestOK(x) ==
    /\ x.at \in {"done", "downloading"} => TRUE \in Range(x.items)
    /\ call.kind = "images" /\ ~x.final => \A i \in DOMAIN x.items : x.items[i]

CallInv ==
    /\ RequestsShape
    /\ \A r \in DOMAIN req : RequestOK(req[r])
    /\ ImagesKeepTheirPrompts

\* The property, of an answer to some requests.
AnswerKept(a, R) == a.returned =>
    /\ a.details # <<>> => a.details = a.images
    /\ InOrder(a.images)
    /\ \A r \in R : (r \in a.failed) # (\E i \in DOMAIN a.images : a.images[i][1] = r)

LEMMA KeptMeans == ImagesKeepTheirPrompts <=> AnswerKept(answer, DOMAIN req)
BY Zenon DEF AnswerKept, ImagesKeepTheirPrompts, InOrder, Precedes

LEMMA KeptMeansNext == ImagesKeepTheirPrompts' <=> AnswerKept(answer', DOMAIN req')
BY Zenon DEF AnswerKept, ImagesKeepTheirPrompts, InOrder, Precedes

LEMMA AnswerStays ==
    ASSUME ImagesKeepTheirPrompts, UNCHANGED answer, DOMAIN req' = DOMAIN req
    PROVE  ImagesKeepTheirPrompts'
BY KeptMeans, KeptMeansNext

LEMMA RequestPut ==
    ASSUME CallInv, NEW r \in DOMAIN req, NEW x, RequestTyped(x), RequestOK(x),
           req' = [req EXCEPT ![r] = x], UNCHANGED <<call, answer>>
    PROVE  CallInv'
<1>1. /\ DOMAIN req' = DOMAIN req
      /\ \A q \in DOMAIN req : req'[q] = IF q = r THEN x ELSE req[q]
      /\ req' = [q \in DOMAIN req |-> req'[q]]
  BY DEF CallInv, RequestsShape
<1>2. \A q \in DOMAIN req : RequestTyped(req'[q])
  BY <1>1 DEF CallInv, RequestsShape
<1>3. RequestsShape'
  BY <1>1, <1>2 DEF CallInv, RequestsShape, RequestTyped
<1>4. \A q \in DOMAIN req : RequestOK(req'[q])
  BY <1>1 DEF CallInv
<1>5. \A q \in DOMAIN req' : RequestOK(req[q])'
  BY <1>1, <1>4 DEF RequestOK
<1>6. ImagesKeepTheirPrompts'
  BY <1>1, AnswerStays DEF CallInv
<1> QED
  BY <1>3, <1>5, <1>6 DEF CallInv

\* A request with other values in its fields.
RequestBecomes(r, spot, timer, s, final) ==
    \E x : /\ RequestTyped(x)
           /\ x.at = spot /\ x.timer = timer /\ x.items = s /\ x.final = final
           /\ req' = [req EXCEPT ![r] = x]

LEMMA RequestGoes ==
    ASSUME CallInv, NEW r \in DOMAIN req, NEW spot, NEW timer, NEW s, NEW final,
           RequestBecomes(r, spot, timer, s, final), UNCHANGED <<call, answer>>,
           spot \in {"done", "downloading"} => TRUE \in Range(s),
           call.kind = "images" /\ ~final => \A i \in DOMAIN s : s[i]
    PROVE  CallInv'
<1>1. PICK x : /\ RequestTyped(x)
               /\ x.at = spot /\ x.timer = timer /\ x.items = s /\ x.final = final
               /\ req' = [req EXCEPT ![r] = x]
  BY DEF RequestBecomes
<1>2. RequestOK(x)
  BY <1>1 DEF RequestOK
<1> QED
  BY <1>1, <1>2, RequestPut

LEMMA RequestTypes ==
    ASSUME CallInv, NEW r \in DOMAIN req
    PROVE  /\ RequestTyped(req[r]) /\ RequestOK(req[r]) /\ req[r].at \in Spots
           /\ req[r].timer \in Timers /\ req[r].items \in Seq(BOOLEAN)
           /\ req[r].final \in BOOLEAN /\ req[r].rounds \in Nat
BY DEF CallInv, RequestsShape, RequestTyped, Spots, Timers

\* A step that leaves the items of a request alone and ends nothing.
LEMMA MovesOn ==
    ASSUME CallInv, NEW r \in DOMAIN req, UNCHANGED <<call, answer>>,
           NEW spot \in Spots, spot \in {"done", "downloading"} => TRUE \in Range(req[r].items),
           \/ Move(r, spot) \/ Leave(r, spot)
           \/ req' = [req EXCEPT ![r].timer = "fired"] /\ spot = req[r].at
           \/ req' = [req EXCEPT ![r].rounds = @ + 1] /\ spot = req[r].at
    PROVE  CallInv'
<1> DEFINE y == req[r]
<1>1. /\ RequestTyped(y) /\ RequestOK(y) /\ y.items \in Seq(BOOLEAN) /\ y.final \in BOOLEAN
      /\ y.rounds \in Nat /\ y.timer \in Timers
  BY RequestTypes
<1>2. PICK timer \in Timers :
         \/ Move(r, spot) /\ timer = y.timer
         \/ Leave(r, spot) /\ timer = "off"
         \/ req' = [req EXCEPT ![r].timer = timer] /\ spot = y.at
         \/ req' = [req EXCEPT ![r].rounds = @ + 1] /\ spot = y.at /\ timer = y.timer
  BY <1>1 DEF Timers
<1>3. PICK polls, z :
         /\ polls \in Nat /\ req' = [req EXCEPT ![r] = z]
         /\ \/ z = [y EXCEPT !.at = spot] /\ timer = y.timer
            \/ z = [y EXCEPT !.timer = timer] /\ spot = y.at
            \/ z = [y EXCEPT !.at = spot, !.timer = timer]
            \/ z = [y EXCEPT !.rounds = polls] /\ spot = y.at /\ timer = y.timer
  <2>1. CASE Move(r, spot) /\ timer = y.timer
    BY <2>1 DEF Move
  <2>2. CASE Leave(r, spot) /\ timer = "off"
    BY <2>2 DEF Leave
  <2>3. CASE req' = [req EXCEPT ![r].timer = timer] /\ spot = y.at
    BY <2>3
  <2>4. CASE req' = [req EXCEPT ![r].rounds = @ + 1] /\ spot = y.at /\ timer = y.timer
    <3>1. req' = [req EXCEPT ![r] = [y EXCEPT !.rounds = y.rounds + 1]]
      BY <1>1, <2>4 DEF RequestTyped
    <3>2. y.rounds + 1 \in Nat
      BY <1>1
    <3> HIDE DEF y
    <3> QED
      BY <2>4, <3>1, <3>2
  <2> QED
    BY <1>2, <2>1, <2>2, <2>3, <2>4
<1> HIDE DEF y
<1>4. /\ RequestTyped(z) /\ z.at = spot /\ z.timer = timer
      /\ z.items = y.items /\ z.final = y.final
  BY <1>1, <1>3 DEF RequestTyped, Spots, Timers
<1>5. RequestBecomes(r, spot, timer, y.items, y.final)
  BY <1>3, <1>4 DEF RequestBecomes
<1>6. call.kind = "images" /\ ~y.final => \A i \in DOMAIN y.items : y.items[i]
  BY <1>1 DEF RequestOK
<1>7. spot \in {"done", "downloading"} => TRUE \in Range(y.items)
  BY DEF y
<1> QED
  BY <1>5, <1>6, <1>7, RequestGoes

LEMMA RepliesAreItems == Replies \subseteq Seq(BOOLEAN)
<1>1. MaxItems \in Nat
  BY WebCallsAssumption
<1> QED
  BY <1>1 DEF Replies

\* A reply as a whole: a request that goes on with it has an image.
LEMMA ReplyKeeps ==
    ASSUME CallInv, NEW r \in DOMAIN req, UNCHANGED <<call, answer>>,
           NEW s \in Replies, NEW spot \in After(s), LeaveWith(r, spot, s)
    PROVE  CallInv'
<1> DEFINE y == req[r]
           z == [y EXCEPT !.at = spot, !.timer = "off", !.items = s, !.final = TRUE]
<1>1. RequestTyped(y) /\ s \in Seq(BOOLEAN) /\ spot \in Spots /\ "off" \in Timers
  BY RequestTypes, RepliesAreItems DEF After, Spots, Timers
<1>2. req' = [req EXCEPT ![r] = z]
  BY DEF LeaveWith
<1> HIDE DEF y
<1>3. RequestTyped(z) /\ z.at = spot /\ z.timer = "off" /\ z.items = s /\ z.final = TRUE
  BY <1>1 DEF RequestTyped, Spots, Timers
<1> HIDE DEF z
<1>4. RequestBecomes(r, spot, "off", s, TRUE)
  BY <1>2, <1>3 DEF RequestBecomes
<1>5. spot \in {"done", "downloading"} => TRUE \in Range(s)
  BY DEF After
<1> QED
  BY <1>4, <1>5, RequestGoes

\* A completed event of a stream.
LEMMA ItemKeeps ==
    ASSUME EveryItemHasImage, CallInv, NEW r \in DOMAIN req, NEW hasImage \in BOOLEAN,
           StreamItem(r, hasImage)
    PROVE  CallInv'
<1> DEFINE y == req[r]
           s == Append(y.items, hasImage)
           z == [y EXCEPT !.items = s]
<1>1. /\ RequestTyped(y) /\ RequestOK(y) /\ y.items \in Seq(BOOLEAN) /\ y.at \in Spots
      /\ y.timer \in Timers /\ y.final \in BOOLEAN /\ y.at = "streaming"
      /\ call.kind = "images" => hasImage
  BY RequestTypes, WebCallsAssumption DEF StreamItem, ReqAt
<1>2. s \in Seq(BOOLEAN) /\ UNCHANGED <<call, answer>>
  BY <1>1 DEF StreamItem
<1>3. req' = [req EXCEPT ![r] = z]
  BY <1>1 DEF StreamItem, RequestTyped
<1>4. call.kind = "images" /\ ~y.final => \A i \in DOMAIN s : s[i]
  <2>1. /\ Len(s) = Len(y.items) + 1 /\ DOMAIN s = 1..Len(s)
        /\ \A i \in 1..Len(y.items) : s[i] = y.items[i]
        /\ s[Len(s)] = hasImage /\ DOMAIN y.items = 1..Len(y.items) /\ Len(y.items) \in Nat
    BY <1>1, <1>2, AppendProperties, LenProperties
  <2>2. \A i \in DOMAIN s : i \in DOMAIN y.items \/ i = Len(s)
    BY <2>1
  <2> HIDE DEF s, y
  <2> QED
    BY <1>1, <2>1, <2>2 DEF RequestOK
<1> HIDE DEF y, s
<1>5. RequestTyped(z) /\ z.at = y.at /\ z.timer = y.timer /\ z.items = s /\ z.final = y.final
  BY <1>1, <1>2 DEF RequestTyped, Spots, Timers
<1> HIDE DEF z
<1>6. RequestBecomes(r, y.at, y.timer, s, y.final)
  BY <1>3, <1>5 DEF RequestBecomes
<1> QED
  BY <1>1, <1>2, <1>4, <1>6, RequestGoes

\* The event with the whole result of a stream.
LEMMA ResultKeeps ==
    ASSUME CallInv, NEW r \in DOMAIN req, NEW t \in Replies, StreamResult(r, t)
    PROVE  CallInv'
<1> DEFINE y == req[r]
           final == call.kind = "images" \/ TRUE \in Range(t)
           s == IF call.kind = "responses" /\ TRUE \notin Range(t) THEN y.items ELSE t
           z == [y EXCEPT !.final = final, !.items = s]
<1>1. /\ RequestTyped(y) /\ y.items \in Seq(BOOLEAN) /\ y.at \in Spots
      /\ y.timer \in Timers /\ y.at = "streaming" /\ t \in Seq(BOOLEAN)
  BY RequestTypes, RepliesAreItems DEF StreamResult, ReqAt
<1>2. final \in BOOLEAN /\ s \in Seq(BOOLEAN) /\ UNCHANGED <<call, answer>>
  BY <1>1 DEF StreamResult
<1>3. req' = [req EXCEPT ![r] = z]
  BY <1>1 DEF StreamResult, RequestTyped
<1>4. call.kind = "images" => final
  OBVIOUS
<1> HIDE DEF y, s, final
<1>5. RequestTyped(z) /\ z.at = y.at /\ z.timer = y.timer /\ z.items = s /\ z.final = final
  BY <1>1, <1>2 DEF RequestTyped, Spots, Timers
<1> HIDE DEF z
<1>6. RequestBecomes(r, y.at, y.timer, s, final)
  BY <1>3, <1>5 DEF RequestBecomes
<1> QED
  BY <1>1, <1>2, <1>4, <1>6, RequestGoes

\* A job whose images could not be fetched begins its polls again.
LEMMA RetriedKeeps ==
    ASSUME CallInv, NEW r \in DOMAIN req, DownloadRetried(r)
    PROVE  CallInv'
<1> DEFINE y == req[r]
           polls == y.rounds + 1
           z == [y EXCEPT !.at = "polling", !.items = <<>>, !.final = FALSE, !.rounds = polls]
<1>1. RequestTyped(y) /\ y.timer \in Timers /\ "polling" \in Spots /\ polls \in Nat
  BY RequestTypes DEF Spots
<1>2. <<>> \in Seq(BOOLEAN) /\ UNCHANGED <<call, answer>> /\ DOMAIN <<>> = {}
  BY DEF DownloadRetried
<1>3. req' = [req EXCEPT ![r] = z]
  BY <1>1 DEF DownloadRetried, RequestTyped
<1> HIDE DEF y, polls
<1>4. RequestTyped(z) /\ z.at = "polling" /\ z.timer = y.timer /\ z.items = <<>> /\ z.final = FALSE
  BY <1>1, <1>2 DEF RequestTyped, Spots, Timers
<1> HIDE DEF z
<1>5. RequestBecomes(r, "polling", y.timer, <<>>, FALSE)
  BY <1>3, <1>4 DEF RequestBecomes
<1> QED
  BY <1>2, <1>5, RequestGoes

LEMMA RequestKeeps ==
    ASSUME EveryItemHasImage, CallInv, NEW r \in DOMAIN req, RequestStep(r)
    PROVE  CallInv'
<1>1. CASE Refuse(r) \/ SendRequest(r) \/ Abort(r) \/ ReplyFails(r) \/ ReplyArrives(r)
           \/ StreamOpens(r) \/ BodyHasTaskId(r) \/ FalEnqueued(r) \/ StreamBreaks(r)
           \/ PollRefused(r) \/ DownloadFails(r)
  <2>1. PICK spot \in Spots : /\ spot \notin {"done", "downloading"}
                              /\ Move(r, spot) \/ Leave(r, spot)
    BY <1>1 DEF Refuse, SendRequest, Abort, ReplyFails, ReplyArrives, StreamOpens, BodyHasTaskId,
       FalEnqueued, StreamBreaks, PollRefused, DownloadFails, Spots
  <2>2. UNCHANGED <<call, answer>>
    BY <1>1 DEF Refuse, SendRequest, Abort, ReplyFails, ReplyArrives, StreamOpens, BodyHasTaskId,
       FalEnqueued, StreamBreaks, PollRefused, DownloadFails
  <2> QED
    BY <2>1, <2>2, MovesOn
<1>2. CASE TimerFires(r) \/ PollAgain(r)
  <2>1. req[r].at \in Spots /\ RequestOK(req[r]) /\ UNCHANGED <<call, answer>>
    BY <1>2, RequestTypes DEF TimerFires, PollAgain
  <2>2. \/ req' = [req EXCEPT ![r].timer = "fired"]
        \/ req' = [req EXCEPT ![r].rounds = @ + 1]
    BY <1>2 DEF TimerFires, PollAgain
  <2>3. req[r].at \in {"done", "downloading"} => TRUE \in Range(req[r].items)
    BY <2>1 DEF RequestOK
  <2> QED
    BY <2>1, <2>2, <2>3, MovesOn
<1>3. CASE StreamEnds(r) \/ Downloaded(r)
  <2>1. PICK spot \in Spots : /\ Move(r, spot)
                              /\ spot # "failed" => TRUE \in Range(req[r].items)
    <3>1. CASE StreamEnds(r)
      BY <3>1 DEF StreamEnds, After, Spots
    <3>2. CASE Downloaded(r)
      <4>1. RequestOK(req[r]) /\ req[r].at = "downloading"
        BY <3>2, RequestTypes DEF Downloaded, ReqAt
      <4> QED
        BY <3>2, <4>1 DEF Downloaded, RequestOK, Spots
    <3> QED
      BY <1>3, <3>1, <3>2
  <2>2. UNCHANGED <<call, answer>>
    BY <1>3 DEF StreamEnds, Downloaded
  <2> QED
    BY <2>1, <2>2, MovesOn
<1>4. CASE StreamPartial(r)
  <2>1. UNCHANGED <<call, req, answer>>
    BY <1>4 DEF StreamPartial
  <2> QED
    BY <2>1, AnswerStays DEF CallInv, RequestsShape, RequestTyped, RequestOK
<1>5. ASSUME NEW s \in Replies, BodyHasImages(r, s) \/ PollSucceeds(r, s)
      PROVE  CallInv'
  <2>1. PICK spot \in After(s) : LeaveWith(r, spot, s)
    BY <1>5 DEF BodyHasImages, PollSucceeds
  <2>2. UNCHANGED <<call, answer>>
    BY <1>5 DEF BodyHasImages, PollSucceeds
  <2> QED
    BY <2>1, <2>2, ReplyKeeps
<1> QED
  BY <1>1, <1>2, <1>3, <1>4, <1>5, ItemKeeps, ResultKeeps, RetriedKeeps DEF RequestStep

-----------------------------------------------------------------------------
\* What the answer lists beside the images, as long as every item has one.
LEMMA DetailsBeside ==
    ASSUME CallInv, NEW images, images = Joined([r \in DOMAIN req |-> WithImage(r)]),
           NEW details, details = Joined([r \in DOMAIN req |-> DetailsOf(r)])
    PROVE  details # <<>> => details = images
<1>1. CASE call.kind \in {"images", "responses"}
  <2>1. ASSUME NEW r \in DOMAIN req
        PROVE  DetailsOf(r) = WithImage(r)
    <3>1. RequestOK(req[r]) /\ RequestsShape
      BY DEF CallInv
    <3>2. CASE call.kind = "images" /\ ~req[r].final
      <4>1. \A i \in DOMAIN req[r].items : req[r].items[i]
        BY <3>1, <3>2 DEF RequestOK
      <4>2. WithImage(r) = Numbered(r)
        BY <3>1, <4>1, ImagesAreItems
      <4> QED
        BY <3>2, <4>2 DEF DetailsOf
    <3>3. CASE ~(call.kind = "images" /\ ~req[r].final)
      BY <1>1, <3>3 DEF DetailsOf
    <3> QED
      BY <3>2, <3>3
  <2>2. [r \in DOMAIN req |-> DetailsOf(r)] = [r \in DOMAIN req |-> WithImage(r)]
    BY <2>1
  <2> QED
    BY <2>2
<1>2. CASE call.kind \notin {"images", "responses"}
  <2>1. \A r \in DOMAIN req : DetailsOf(r) = <<>>
    BY <1>2 DEF DetailsOf
  <2>2. [r \in DOMAIN req |-> DetailsOf(r)] = [r \in DOMAIN req |-> <<>>]
    BY <2>1
  <2>3. details = <<>>
    BY <2>2, JoinedNothing DEF CallInv
  <2> QED
    BY <2>3
<1> QED
  BY <1>1, <1>2

LEMMA SettleKeeps ==
    ASSUME CallInv, Settle
    PROVE  CallInv'
<1> DEFINE images == Joined([r \in DOMAIN req |-> WithImage(r)])
           details == Joined([r \in DOMAIN req |-> DetailsOf(r)])
<1>1. /\ answer' = [returned |-> TRUE, failed |-> FailedRequests,
                    images |-> images, details |-> details]
      /\ \A r \in DOMAIN req : req[r].at \in {"done", "failed"}
      /\ UNCHANGED <<call, req>>
  BY DEF Settle, ReqAt
<1>2. details # <<>> => details = images
  BY DetailsBeside
<1>3. /\ images \in Seq(ItemNames) /\ InOrder(images)
      /\ \A x : x \in Range(images) <=> \E r \in Succeeded : x \in Range(WithImage(r))
  BY JoinedImages DEF CallInv
<1> HIDE DEF images, details
<1>4. ASSUME NEW r \in DOMAIN req
      PROVE  (r \in FailedRequests) # (\E i \in DOMAIN images : images[i][1] = r)
  <2>1. \A q \in DOMAIN req : \A x \in Range(WithImage(q)) : x[1] = q
    BY ImagesOfRequest DEF CallInv
  <2>2. Succeeded \subseteq DOMAIN req /\ DOMAIN images = 1..Len(images)
    BY <1>3, LenProperties DEF Succeeded
  <2>3. ASSUME NEW i \in DOMAIN images, images[i][1] = r
        PROVE  r \notin FailedRequests
    <3>1. images[i] \in Range(images)
      BY <1>3, <2>2, ItemsListed
    <3>2. PICK q \in Succeeded : images[i] \in Range(WithImage(q))
      BY <1>3, <3>1
    <3>3. q = r
      BY <2>1, <2>2, <2>3, <3>2
    <3> QED
      BY <3>2, <3>3 DEF Succeeded, FailedRequests, ReqAt
  <2>4. ASSUME r \notin FailedRequests
        PROVE  \E i \in DOMAIN images : images[i][1] = r
    <3>1. r \in Succeeded /\ RequestOK(req[r]) /\ req[r].at = "done"
      BY <1>1, <2>4 DEF Succeeded, FailedRequests, ReqAt, CallInv
    <3>2. PICK k \in DOMAIN req[r].items : req[r].items[k]
      BY <3>1 DEF RequestOK, Range
    <3>3. <<r, k>> \in Range(WithImage(r))
      BY <3>2, ImagesOfRequest DEF CallInv
    <3>4. PICK i \in 1..Len(images) : images[i] = <<r, k>>
      BY <1>3, <3>1, <3>3, ItemsListed
    <3> QED
      BY <2>2, <3>4
  <2> QED
    BY <2>3, <2>4
<1>5. AnswerKept(answer', DOMAIN req')
  <2> DEFINE a == [returned |-> TRUE, failed |-> FailedRequests,
                   images |-> images, details |-> details]
  <2>1. a.images = images /\ a.details = details /\ a.failed = FailedRequests
    OBVIOUS
  <2> HIDE DEF a
  <2>2. AnswerKept(a, DOMAIN req)
    BY <1>2, <1>3, <1>4, <2>1 DEF AnswerKept
  <2> QED
    BY <1>1, <2>2 DEF a
<1>6. ImagesKeepTheirPrompts'
  BY <1>5, KeptMeansNext
<1> QED
  BY <1>1, <1>6 DEF CallInv, RequestsShape, RequestTyped, RequestOK

LEMMA InitCallInv == CallInit => CallInv
<1> SUFFICES ASSUME CallInit
             PROVE  CallInv
  OBVIOUS
<1>1. req = [r \in 1..Count(call) |-> Start(call)] /\ call \in Calls /\ answer = NoAnswer
  BY DEF CallInit
<1>2. Count(call) \in Nat
  BY <1>1, WebCallsAssumption DEF Count, Calls
<1>3. RequestTyped(Start(call)) /\ RequestOK(Start(call))
  BY DEF RequestTyped, RequestOK, Start, Spots, Timers
<1>4. RequestsShape
  BY <1>1, <1>2, <1>3 DEF RequestsShape
<1>5. \A r \in DOMAIN req : RequestOK(req[r])
  BY <1>1, <1>3
<1>6. ~answer.returned
  BY <1>1 DEF NoAnswer
<1> QED
  BY <1>4, <1>5, <1>6 DEF CallInv, ImagesKeepTheirPrompts

\* Whatever order the requests of a call settle in and whichever of them fail,
\* the answer lists every image of the successful ones, in their order and
\* with its own parameters and prompt, and blames exactly the others
\* (callImagesApiConcurrent, callResponsesImageApi and the parsers of streams).
THEOREM PromptsHold == EveryItemHasImage => (CallSpec => []ImagesKeepTheirPrompts)
<1> SUFFICES ASSUME EveryItemHasImage
             PROVE  CallSpec => []ImagesKeepTheirPrompts
  OBVIOUS
<1>1. CallInv /\ [CallNext]_callVars => CallInv'
  <2>1. ASSUME CallInv, UNCHANGED callVars
        PROVE  CallInv'
    BY <2>1, AnswerStays DEF callVars, CallInv, RequestsShape, RequestTyped, RequestOK
  <2> QED
    BY <2>1, SettleKeeps, RequestKeeps DEF CallNext
<1>2. CallInv => ImagesKeepTheirPrompts
  BY DEF CallInv
<1> QED
  BY InitCallInv, <1>1, <1>2, PTL DEF CallSpec

-----------------------------------------------------------------------------
(***************************************************************************)
(* The types of the client's parts.                                        *)
(***************************************************************************)

\* A task is asked for no more than MaxPolls times.
HostedTyped == HostedTypeOK /\ (poll.pc \in {"ask", "read"} => poll.attempt <= MaxPolls)

Polling == [pc : {"idle", "timer", "ask", "read"}, attempt : 0..(MaxPolls + 1),
            answer : ServerTask, assets : Shown]
Judging == [pc : {"idle", "sent", "served"}, base : Shown, result : AssetStatus]

LEMMA HostedValues ==
    /\ MaxPolls \in Nat /\ Uploads \in Nat /\ MaxReviews \in Nat
    /\ NothingShown \in Shown /\ Idle \in Polling /\ NoReview \in Judging
    /\ Idle.attempt = 0 /\ Idle.pc = "idle"
  BY WebHostedAssumption DEF NothingShown, Shown, Idle, Polling, NoReview, Judging, ServerTask,
     Verdicts, AssetStatus

LEMMA TimerValues ==
    ASSUME NEW n \in 0..(MaxPolls + 1)
    PROVE  /\ [Idle EXCEPT !.pc = "timer", !.attempt = n] \in Polling
           /\ [Idle EXCEPT !.pc = "timer", !.attempt = n].pc = "timer"
  BY DEF NothingShown, Shown, Idle, Polling, ServerTask, Verdicts

LEMMA UpdateTyped ==
    ASSUME local \in Local, NEW r \in Local, Update(r)
    PROVE  local' \in Local
  BY DEF Update

LEMMA AssetsTyped ==
    ASSUME HostedTypeOK, NEW a \in Assets, NEW status \in AssetStatus,
           SetAssets([server.assets EXCEPT ![a] = status])
    PROVE  /\ server' \in [task : ServerTask, assets : Shown]
           /\ seen' \in [Assets -> SUBSET AssetStatus]
<1> DEFINE rows == [server.assets EXCEPT ![a] = status]
<1>1. server \in [task : ServerTask, assets : Shown] /\ seen \in [Assets -> SUBSET AssetStatus]
  BY DEF HostedTypeOK
<1>2. server.assets \in Shown
  BY <1>1
<1>3. rows \in Shown
  BY <1>2 DEF Shown
<1>4. server' = [server EXCEPT !.assets = rows]
      /\ seen' = [b \in Assets |-> seen[b] \cup ({rows[b]} \ {"absent"})]
  BY DEF SetAssets
<1>5. \A b \in Assets : rows[b] \in AssetStatus \cup {"absent"}
  BY <1>3 DEF Shown
<1> HIDE DEF rows
<1>6. seen' \in [Assets -> SUBSET AssetStatus]
  BY <1>1, <1>4, <1>5
<1> QED
  BY <1>1, <1>3, <1>4, <1>6

LEMMA CreateTyped ==
    ASSUME HostedTyped, Submit \/ Upload \/ Post \/ Created \/ CreateFails
    PROVE  HostedTyped'
<1>1. CASE Submit
  BY <1>1 DEF HostedTyped, HostedTypeOK, Submit, Local, ServerTask
<1>2. CASE Upload
  BY <1>2, HostedValues DEF HostedTyped, HostedTypeOK, Upload
<1>3. CASE Post
  BY <1>3 DEF HostedTyped, HostedTypeOK, Post, ServerTask
<1>4. CASE Created
  <2>1. [local EXCEPT !.known = TRUE, !.server = "queued"] \in Local
    BY DEF HostedTyped, HostedTypeOK, Local, ServerTask
  <2>2. local' \in Local
    BY <1>4, <2>1, UpdateTyped DEF Created, HostedTyped, HostedTypeOK
  <2>3. poll' = [Idle EXCEPT !.pc = "timer", !.attempt = 1]
    BY <1>4 DEF Created
  <2>4. poll' \in Polling /\ poll'.pc = "timer"
    <3>1. 1 \in 0..(MaxPolls + 1)
      BY HostedValues
    <3> QED
      BY <2>3, <3>1, TimerValues
  <2> QED
    BY <1>4, <2>2, <2>4 DEF Created, HostedTyped, HostedTypeOK, Polling
<1>5. CASE CreateFails
  <2>1. [local EXCEPT !.status = "error"] \in Local
    BY DEF HostedTyped, HostedTypeOK, Local
  <2>2. local' \in Local
    BY <1>5, <2>1, UpdateTyped DEF CreateFails, HostedTyped, HostedTypeOK
  <2> QED
    BY <1>5, <2>2 DEF CreateFails, HostedTyped, HostedTypeOK
<1> QED
  BY <1>1, <1>2, <1>3, <1>4, <1>5

\* What is left when the local record, the list or the polling changes.
LEMMA PollTyped ==
    ASSUME HostedTyped, local' \in Local, shown' \in Shown, poll' \in Polling,
           poll'.pc \in {"ask", "read"} => poll'.attempt <= MaxPolls,
           UNCHANGED <<create, reviews, server, seen, reviewed>>
    PROVE  HostedTyped'
  BY DEF HostedTyped, HostedTypeOK, Polling

LEMMA PollingTyped ==
    ASSUME HostedTyped, Poll \/ PollAnswered \/ PollRead \/ PollFails
    PROVE  HostedTyped'
<1>1. /\ local \in Local /\ shown \in Shown /\ poll \in Polling
      /\ server \in [task : ServerTask, assets : Shown]
      /\ poll.pc \in {"ask", "read"} => poll.attempt <= MaxPolls
  BY DEF HostedTyped, HostedTypeOK, Polling
<1>2. poll.answer \in ServerTask /\ poll.assets \in Shown /\ poll.attempt \in 0..(MaxPolls + 1)
      /\ server.task \in ServerTask /\ server.assets \in Shown
  BY <1>1 DEF Polling
<1>3. \A s \in {"none", "running", "done", "error"} : [local EXCEPT !.status = s] \in Local
  BY <1>1 DEF Local
<1>4. \A s \in {"done", "error"} : [local EXCEPT !.status = s, !.server = poll.answer] \in Local
  BY <1>1, <1>2 DEF Local
<1>5. [local EXCEPT !.server = poll.answer] \in Local
  BY <1>1, <1>2 DEF Local
<1>6. CASE Poll
  <2>1. /\ local' = local \/ local' = [local EXCEPT !.status = "error"]
        /\ shown' = shown /\ UNCHANGED <<create, reviews, server, seen, reviewed>>
        /\ poll' = Idle \/ (poll' = [poll EXCEPT !.pc = "ask"] /\ ~(poll.attempt > MaxPolls))
    BY <1>6 DEF Poll
  <2>2. local' \in Local
    BY <1>1, <1>3, <2>1
  <2>3. poll' \in Polling /\ (poll'.pc \in {"ask", "read"} => poll'.attempt <= MaxPolls)
    BY <1>1, <1>2, <2>1, HostedValues DEF Polling
  <2> QED
    BY <1>1, <2>1, <2>2, <2>3, PollTyped
<1>7. CASE PollAnswered
  <2>1. /\ poll' = [poll EXCEPT !.pc = "read", !.answer = server.task, !.assets = server.assets]
        /\ poll.pc = "ask" /\ UNCHANGED <<local, shown, create, reviews, server, seen, reviewed>>
    BY <1>7 DEF PollAnswered
  <2>2. poll' \in Polling /\ poll'.attempt = poll.attempt
    BY <1>1, <1>2, <2>1 DEF Polling
  <2> QED
    BY <1>1, <2>1, <2>2, PollTyped
<1>8. CASE PollRead
  <2>1. /\ poll.pc = "read" /\ UNCHANGED <<create, reviews, server, seen, reviewed>>
        /\ shown' = shown \/ shown' = poll.assets
    BY <1>8 DEF PollRead
  <2>2. \/ /\ \E s \in {"done", "error"} : Update([local EXCEPT !.status = s, !.server = poll.answer])
           /\ poll' = Idle
        \/ /\ Update([local EXCEPT !.server = poll.answer])
           /\ poll' = [Idle EXCEPT !.pc = "timer", !.attempt = poll.attempt + 1]
    BY <1>8 DEF PollRead
  <2>3. local' \in Local
    BY <1>1, <1>4, <1>5, <2>2, UpdateTyped
  <2>4. poll' \in Polling /\ poll'.pc \notin {"ask", "read"}
    <3>1. poll.attempt + 1 \in 0..(MaxPolls + 1)
      BY <1>1, <1>2, <2>1, HostedValues
    <3> QED
      BY <2>2, <3>1, HostedValues, TimerValues
  <2> QED
    BY <1>1, <1>2, <2>1, <2>3, <2>4, PollTyped
<1>9. CASE PollFails
  <2>1. Update([local EXCEPT !.status = "error"]) /\ poll' = Idle
        /\ UNCHANGED <<shown, create, reviews, server, seen, reviewed>>
    BY <1>9 DEF PollFails
  <2>2. local' \in Local
    BY <1>1, <1>3, <2>1, UpdateTyped
  <2> QED
    BY <1>1, <2>1, <2>2, HostedValues, PollTyped
<1> QED
  BY <1>6, <1>7, <1>8, <1>9

LEMMA ReviewTyped ==
    ASSUME HostedTyped, NEW a \in Assets,
           \/ Produce(a) \/ ReviewServed(a) \/ Reviewed(a) \/ ReviewFails(a)
           \/ \E result \in {"selected", "rejected"} : Review(a, result)
    PROVE  HostedTyped'
<1>1. /\ shown \in Shown /\ reviews \in [Assets -> Judging] /\ reviews[a] \in Judging
      /\ reviewed \in 0..MaxReviews
  BY DEF HostedTyped, HostedTypeOK, Judging
<1>2. reviews[a].base \in Shown /\ reviews[a].result \in AssetStatus
  BY <1>1 DEF Judging
<1>3. CASE Produce(a)
  <2>1. "generated" \in AssetStatus
    BY DEF AssetStatus
  <2>2. SetAssets([server.assets EXCEPT ![a] = "generated"])
        /\ UNCHANGED <<local, shown, create, poll, reviews, reviewed>>
    BY <1>3 DEF Produce
  <2> QED
    BY <2>1, <2>2, AssetsTyped DEF HostedTyped, HostedTypeOK
<1>4. CASE ReviewServed(a)
  <2>1. SetAssets([server.assets EXCEPT ![a] = reviews[a].result])
        /\ reviews' = [reviews EXCEPT ![a].pc = "served"]
        /\ UNCHANGED <<local, shown, create, poll, reviewed>>
    BY <1>4 DEF ReviewServed
  <2>2. reviews' \in [Assets -> Judging]
    BY <1>1, <2>1 DEF Judging
  <2> QED
    BY <1>2, <2>1, <2>2, AssetsTyped DEF HostedTyped, HostedTypeOK, Judging
<1>5. CASE Reviewed(a)
  <2>1. /\ shown' = shown \/ shown' = Patch(reviews[a].base, a, reviews[a].result)
        /\ reviews' = [reviews EXCEPT ![a] = NoReview]
        /\ UNCHANGED <<local, create, poll, server, seen, reviewed>>
    BY <1>5 DEF Reviewed
  <2>2. shown' \in Shown
    BY <1>1, <1>2, <2>1 DEF Patch, Shown
  <2>3. reviews' \in [Assets -> Judging]
    BY <1>1, <2>1, HostedValues
  <2> QED
    BY <2>1, <2>2, <2>3 DEF HostedTyped, HostedTypeOK, Judging
<1>6. CASE ReviewFails(a)
  <2>1. /\ reviews' = [reviews EXCEPT ![a] = NoReview]
        /\ UNCHANGED <<local, shown, create, poll, server, seen, reviewed>>
    BY <1>6 DEF ReviewFails
  <2>2. reviews' \in [Assets -> Judging]
    BY <1>1, <2>1, HostedValues
  <2> QED
    BY <2>1, <2>2 DEF HostedTyped, HostedTypeOK, Judging
<1>7. ASSUME NEW result \in {"selected", "rejected"}, Review(a, result)
      PROVE  HostedTyped'
  <2>1. /\ reviews' = [reviews EXCEPT ![a] = [pc |-> "sent", base |-> shown, result |-> result]]
        /\ reviewed < MaxReviews /\ reviewed' = reviewed + 1
        /\ UNCHANGED <<local, shown, create, poll, server, seen>>
    BY <1>7 DEF Review
  <2>2. [pc |-> "sent", base |-> shown, result |-> result] \in Judging
    BY <1>1 DEF Judging, AssetStatus
  <2>3. reviews' \in [Assets -> Judging]
    BY <1>1, <2>1, <2>2
  <2>4. reviewed' \in 0..MaxReviews
    BY <1>1, <2>1, HostedValues
  <2> QED
    BY <2>1, <2>3, <2>4 DEF HostedTyped, HostedTypeOK, Judging
<1> QED
  BY <1>3, <1>4, <1>5, <1>6, <1>7

LEMMA EndTyped ==
    ASSUME HostedTyped, RemoveHosted \/ HostedReload
    PROVE  HostedTyped'
<1>1. /\ local \in Local /\ shown \in Shown /\ poll \in Polling
      /\ \A s \in {"none", "error"} : [local EXCEPT !.status = s] \in Local
  BY DEF HostedTyped, HostedTypeOK, Polling, Local
<1>2. CASE RemoveHosted
  <2>1. local' \in Local /\ shown' \in Shown
    BY <1>1, <1>2, HostedValues DEF RemoveHosted
  <2>2. poll' = Idle \/ poll' = poll
    BY <1>2 DEF RemoveHosted
  <2>3. poll' \in Polling /\ (poll'.pc \in {"ask", "read"} => poll'.attempt <= MaxPolls)
    BY <1>1, <2>2, HostedValues DEF HostedTyped
  <2> QED
    BY <1>2, <2>1, <2>3, PollTyped DEF RemoveHosted
<1>3. CASE HostedReload
  <2>1. local' \in Local /\ poll' = Idle /\ poll' \in Polling
    BY <1>1, <1>3, HostedValues DEF HostedReload
  <2>2. create' = [create EXCEPT !.pc = "done"]
        /\ reviews' = [a \in Assets |-> NoReview] /\ UNCHANGED <<shown, server, seen, reviewed>>
    BY <1>3 DEF HostedReload
  <2>3. reviews' \in [Assets -> Judging]
    BY <2>2, HostedValues
  <2> QED
    BY <2>1, <2>2, <2>3, HostedValues DEF HostedTyped, HostedTypeOK, Polling, Judging
<1> QED
  BY <1>2, <1>3

LEMMA HostedTypes ==
    /\ HostedInit => HostedTyped
    /\ HostedTyped /\ [HostedNext]_hostedVars => HostedTyped'
<1>1. ASSUME HostedInit PROVE HostedTyped
  <2>1. poll = Idle /\ poll \in Polling /\ reviews \in [Assets -> Judging]
    BY <1>1, HostedValues DEF HostedInit
  <2> QED
    BY <1>1, <2>1, HostedValues DEF HostedInit, HostedTyped, HostedTypeOK, Polling, Judging, Local,
       ServerTask
<1>2. ASSUME HostedTyped, HostedNext PROVE HostedTyped'
  <2>1. ASSUME NEW verdict \in Verdicts, ServerSettles(verdict)
        PROVE  HostedTyped'
    BY <1>2, <2>1 DEF ServerSettles, HostedTyped, HostedTypeOK, ServerTask
  <2> QED
    BY <1>2, <2>1, CreateTyped, PollingTyped, ReviewTyped, EndTyped DEF HostedNext, Page
<1>3. HostedTyped /\ UNCHANGED hostedVars => HostedTyped'
  BY DEF hostedVars, HostedTyped, HostedTypeOK
<1> QED
  BY <1>1, <1>2, <1>3

-----------------------------------------------------------------------------
RoundOrNone == {NoRound} \cup RoundIds
Turning == {"call", "call store", "answer store", "decide", "batch", "batch store", "continue"}

\* An execution has one image and one batch in a turn, and a turn more only
\* after an answer that asks for it before the last.
Budget(x) ==
    /\ x.pc \notin Turning => x.turn = 0 /\ x.used = 0
    /\ x.pc \in Turning => x.turn >= 1
    /\ x.pc \in {"call", "call store"} => x.used <= 2 * x.turn - 2
    /\ x.pc \in {"answer store", "decide", "batch", "batch store"} => x.used <= 2 * x.turn - 1
    /\ x.pc = "continue" => x.used <= 2 * x.turn
    /\ \/ x.pc \in {"batch", "batch store", "continue"}
       \/ x.pc \in {"answer store", "decide"} /\ x.asks # "nothing"
       => x.turn < MaxTurns
RunTyped(x) == x \in Run /\ Budget(x)

RunsTyped  == runs \in [Runs -> Run] /\ \A e \in Runs : Budget(runs[e])
StepTyped  == /\ rounds \in [RoundIds -> Round] /\ RunsTyped
              /\ controller \in [RoundIds -> {NoRun} \cup Runs]
              /\ cards \in [Cards -> {"none", "running", "done", "error"}]
AgentTyped == /\ StepTyped /\ created \in 0..MaxRounds /\ active \in RoundOrNone
              /\ sending \in Sending /\ deleting \in RoundOrNone

LEMMA InRange ==
    ASSUME NEW m \in Nat, NEW n \in 0..m
    PROVE  n \in Nat /\ n <= m
  OBVIOUS

LEMMA RunIs ==
    ASSUME NEW x \in Run
    PROVE  /\ x.pc \in Turning \cup {"idle", "inputs", "over"} /\ x.round \in RoundOrNone
           /\ x.turn \in Nat /\ x.turn <= MaxTurns /\ x.used \in Nat /\ x.used <= 2 * MaxTurns
           /\ x.stopped \in BOOLEAN /\ x.asks \in {"nothing", "batch", "more"}
           /\ MaxTurns \in Nat /\ MaxTurns >= 1
<1>1. /\ x.pc \in {"idle", "inputs", "call", "call store", "answer store", "decide", "batch",
                    "batch store", "continue", "over"}
      /\ x.round \in {NoRound} \cup RoundIds /\ x.turn \in 0..MaxTurns
      /\ x.used \in 0..(2 * MaxTurns) /\ x.stopped \in BOOLEAN
      /\ x.asks \in {"nothing", "batch", "more"}
  BY DEF Run
<1>2. MaxTurns \in Nat /\ MaxTurns >= 1
  <2>1. MaxTurns \in Nat \ {0}
    BY WebAgentAssumption
  <2> QED
    BY <2>1
<1>3. 2 * MaxTurns \in Nat
  BY <1>2
<1>4. x.turn \in Nat /\ x.turn <= MaxTurns
  BY <1>1, <1>2, InRange
<1>5. x.used \in Nat /\ x.used <= 2 * MaxTurns
  BY <1>1, <1>3, InRange
<1>6. x.pc \in Turning \cup {"idle", "inputs", "over"}
  BY <1>1 DEF Turning
<1> QED
  BY <1>1, <1>2, <1>4, <1>5, <1>6 DEF RoundOrNone

RunMoved(x, pc, turn, used, asks) ==
    [x EXCEPT !.pc = pc, !.turn = turn, !.used = used, !.asks = asks]

LEMMA RunMake ==
    ASSUME NEW x \in Run, NEW pc \in Turning \cup {"idle", "inputs", "over"}, NEW turn \in Nat,
           turn <= MaxTurns, NEW used \in Nat, used <= 2 * MaxTurns,
           NEW asks \in {"nothing", "batch", "more"}
    PROVE  RunMoved(x, pc, turn, used, asks) \in Run
           /\ RunMoved(x, pc, turn, used, asks).pc = pc /\ RunMoved(x, pc, turn, used, asks).turn = turn
           /\ RunMoved(x, pc, turn, used, asks).used = used
           /\ RunMoved(x, pc, turn, used, asks).asks = asks
<1>1. MaxTurns \in Nat
  <2>1. MaxTurns \in Nat \ {0}
    BY WebAgentAssumption
  <2> QED
    BY <2>1
<1>2. turn \in 0..MaxTurns /\ used \in 0..(2 * MaxTurns)
  BY <1>1
<1>3. pc \in {"idle", "inputs", "call", "call store", "answer store", "decide", "batch",
              "batch store", "continue", "over"}
  BY DEF Turning
<1> QED
  BY <1>2, <1>3 DEF Run, RunMoved

LEMMA RunsPutTyped ==
    ASSUME RunsTyped, NEW e \in Runs, NEW x, RunTyped(x), runs' = [runs EXCEPT ![e] = x]
    PROVE  RunsTyped'
<1>1. runs' \in [Runs -> Run] /\ \A f \in Runs : runs'[f] = IF f = e THEN x ELSE runs[f]
  BY DEF RunsTyped, RunTyped
<1>2. \A f \in Runs : Budget(runs'[f])
  BY <1>1 DEF RunsTyped, RunTyped
<1> QED
  BY <1>1, <1>2 DEF RunsTyped, Budget

\* An execution that has not begun, begins or is over.
Rest(pc, r) == [IdleRun EXCEPT !.pc = pc, !.round = r]
IdleIs(x)   == x \in Run /\ x.turn = 0 /\ x.used = 0

LEMMA RestMake ==
    ASSUME IdleIs(IdleRun), NEW r \in RoundOrNone,
           NEW pc \in {"idle", "inputs", "call", "call store", "answer store", "decide", "batch",
                       "batch store", "continue", "over"}
    PROVE  Rest(pc, r) \in Run /\ Rest(pc, r).pc = pc
           /\ Rest(pc, r).turn = 0 /\ Rest(pc, r).used = 0
  BY DEF Run, RoundOrNone, IdleIs, Rest

LEMMA RestTyped ==
    ASSUME NEW pc \in {"idle", "inputs", "over"}, NEW r \in RoundOrNone
    PROVE  RunTyped(Rest(pc, r))
<1>1. IdleIs(IdleRun)
  <2>1. IdleRun.turn = 0 /\ IdleRun.used = 0
    BY DEF IdleRun
  <2>2. IdleRun \in Run
    <3>1. MaxTurns \in Nat \ {0}
      BY WebAgentAssumption
    <3>2. 0 \in 0..MaxTurns /\ 0 \in 0..(2 * MaxTurns)
      BY <3>1
    <3> QED
      BY <3>2 DEF IdleRun, Run
  <2> QED
    BY <2>1, <2>2 DEF IdleIs
<1>2. Rest(pc, r) \in Run /\ Rest(pc, r).pc = pc /\ Rest(pc, r).turn = 0 /\ Rest(pc, r).used = 0
  <2>1. pc \in {"idle", "inputs", "call", "call store", "answer store", "decide", "batch",
                "batch store", "continue", "over"}
    OBVIOUS
  <2> QED
    BY <1>1, <2>1, RestMake
<1>3. Budget(Rest(pc, r))
  BY <1>2 DEF Budget, Turning
<1> QED
  BY <1>2, <1>3 DEF RunTyped

\* An execution goes on.
RunMovesTo(e, pc, turn, used, asks) ==
    runs' = [runs EXCEPT ![e] = RunMoved(runs[e], pc, turn, used, asks)]

\* What an execution that goes on may have used.
Allowed(pc, turn, used, asks) ==
    /\ turn >= 1 /\ turn <= MaxTurns /\ used <= 2 * turn
    /\ pc \in {"call", "call store"} => used <= 2 * turn - 2
    /\ pc \in {"answer store", "decide", "batch", "batch store"} => used <= 2 * turn - 1
    /\ \/ pc \in {"batch", "batch store", "continue"}
       \/ pc \in {"answer store", "decide"} /\ asks # "nothing"
       => turn < MaxTurns

LEMMA Twice ==
    ASSUME NEW m \in Nat, NEW t \in Nat, NEW u \in Nat, t <= m, u <= 2 * t
    PROVE  u <= 2 * m
  OBVIOUS

LEMMA RunGoes ==
    ASSUME RunsTyped, NEW e \in Runs, NEW pc \in Turning, NEW turn \in Nat, NEW used \in Nat,
           NEW asks \in {"nothing", "batch", "more"}, RunMovesTo(e, pc, turn, used, asks),
           Allowed(pc, turn, used, asks)
    PROVE  RunsTyped'
<1> DEFINE x == RunMoved(runs[e], pc, turn, used, asks)
<1>1. runs[e] \in Run
  BY DEF RunsTyped
<1>2. MaxTurns \in Nat
  BY <1>1, RunIs
<1>3. turn <= MaxTurns /\ used <= 2 * turn
  BY Zenon DEF Allowed
<1>4. used <= 2 * MaxTurns
  BY <1>2, <1>3, Twice
<1>5. pc \in Turning \cup {"idle", "inputs", "over"}
  BY Zenon
<1>6. x \in Run /\ x.pc = pc /\ x.turn = turn /\ x.used = used /\ x.asks = asks
  BY <1>1, <1>3, <1>4, <1>5, RunMake
<1> HIDE DEF x
<1>7. Budget(x)
  <2>1. x.pc \in Turning /\ x.turn >= 1
    BY <1>6 DEF Allowed
  <2>2. x.pc \in {"call", "call store"} => x.used <= 2 * x.turn - 2
    BY <1>6 DEF Allowed
  <2>3. x.pc \in {"answer store", "decide", "batch", "batch store"} => x.used <= 2 * x.turn - 1
    BY <1>6 DEF Allowed
  <2>4. x.pc = "continue" => x.used <= 2 * x.turn
    BY <1>6 DEF Allowed
  <2>5. \/ x.pc \in {"batch", "batch store", "continue"}
        \/ x.pc \in {"answer store", "decide"} /\ x.asks # "nothing"
        => x.turn < MaxTurns
    BY <1>6 DEF Allowed
  <2> QED
    BY <2>1, <2>2, <2>3, <2>4, <2>5 DEF Budget
<1>8. RunTyped(x)
  BY <1>6, <1>7 DEF RunTyped
<1>9. runs' = [runs EXCEPT ![e] = x]
  BY DEF RunMovesTo, x
<1> QED
  BY <1>8, <1>9, RunsPutTyped

\* A step of an execution that only moves on.
LEMMA MoveIs ==
    ASSUME RunsTyped, NEW e \in Runs, NEW pc, Moves(e, pc)
    PROVE  RunMovesTo(e, pc, runs[e].turn, runs[e].used, runs[e].asks)
<1>1. runs[e] \in Run
  BY DEF RunsTyped
<1>2. [runs[e] EXCEPT !.pc = pc]
        = RunMoved(runs[e], pc, runs[e].turn, runs[e].used, runs[e].asks)
  BY <1>1 DEF Run, RunMoved
<1> QED
  BY <1>2 DEF Moves, RunMovesTo

LEMMA RoundsTypedPut ==
    ASSUME rounds \in [RoundIds -> Round], NEW r \in RoundIds,
           NEW status \in {"absent", "running", "done", "error"},
           NEW reply \in {"none", "text", "failed"}
    PROVE  /\ [rounds EXCEPT ![r].status = status, ![r].reply = reply] \in [RoundIds -> Round]
           /\ [rounds EXCEPT ![r].reply = reply] \in [RoundIds -> Round]
<1>1. rounds[r] \in Round
  OBVIOUS
<1>2. [rounds[r] EXCEPT !.status = status, !.reply = reply] \in Round
      /\ [rounds[r] EXCEPT !.reply = reply] \in Round
  BY <1>1 DEF Round
<1> QED
  BY <1>2

LEMMA CardsTyped ==
    ASSUME cards \in [Cards -> {"none", "running", "done", "error"}], NEW C, NEW c,
           NEW s \in {"none", "running", "done", "error"}
    PROVE  /\ FailRunning(cards, C) \in [Cards -> {"none", "running", "done", "error"}]
           /\ [cards EXCEPT ![c] = s] \in [Cards -> {"none", "running", "done", "error"}]
           /\ [cards EXCEPT ![c] = IF @ = "none" THEN @ ELSE "done"]
                 \in [Cards -> {"none", "running", "done", "error"}]
           /\ [d \in Cards |-> IF d \in C THEN "none" ELSE cards[d]]
                 \in [Cards -> {"none", "running", "done", "error"}]
  BY DEF FailRunning

\* The end of an execution.
LEMMA EndsTyped ==
    ASSUME StepTyped, NEW e \in Runs, Unwind(e) \/ Broken(e) \/ Finish(e)
    PROVE  StepTyped'
<1> DEFINE r == runs[e].round
<1>1. runs[e] \in Run /\ r \in RoundOrNone
  BY RunIs DEF StepTyped, RunsTyped
<1>2. /\ Over(e)
      /\ \E C : cards' = FailRunning(cards, C)
      /\ \/ rounds' = rounds
         \/ /\ r \in RoundIds
            /\ \E s \in {"absent", "running", "done", "error"}, t \in {"none", "text", "failed"} :
                  rounds' = [rounds EXCEPT ![r].status = s, ![r].reply = t]
  BY DEF Unwind, Stopped, Broken, Finish, Running, Listed
<1> HIDE DEF r
<1>3. rounds' \in [RoundIds -> Round]
  <2>0. rounds \in [RoundIds -> Round]
    BY DEF StepTyped
  <2>1. CASE rounds' = rounds
    BY <2>0, <2>1
  <2>2. CASE rounds' # rounds
    <3>1. r \in RoundIds
      BY <1>2, <2>2
    <3>2. PICK s \in {"absent", "running", "done", "error"}, t \in {"none", "text", "failed"} :
             rounds' = [rounds EXCEPT ![r].status = s, ![r].reply = t]
      BY <1>2, <2>2
    <3>3. [rounds EXCEPT ![r].status = s, ![r].reply = t] \in [RoundIds -> Round]
      BY <2>0, <3>1, RoundsTypedPut
    <3> QED
      BY <3>2, <3>3
  <2> QED
    BY <2>1, <2>2
<1>4. cards' \in [Cards -> {"none", "running", "done", "error"}]
  BY <1>2, CardsTyped DEF StepTyped
<1>5. RunsTyped'
  <2>1. RunTyped(Rest("over", r))
    BY <1>1, RestTyped
  <2> QED
    BY <1>2, <2>1, RunsPutTyped DEF Over, StepTyped, Rest, r
<1>6. controller' \in [RoundIds -> {NoRun} \cup Runs]
  BY <1>2 DEF Over, StepTyped, NoRun
<1> QED
  BY <1>3, <1>4, <1>5, <1>6 DEF StepTyped

\* What a typed execution is.
LEMMA RunHas ==
    ASSUME RunsTyped, NEW e \in Runs
    PROVE  /\ runs[e] \in Run /\ runs[e].pc \in Turning \cup {"idle", "inputs", "over"}
           /\ runs[e].round \in RoundOrNone /\ runs[e].turn \in Nat /\ runs[e].used \in Nat
           /\ runs[e].asks \in {"nothing", "batch", "more"} /\ Budget(runs[e])
<1>1. runs[e] \in Run /\ Budget(runs[e])
  BY DEF RunsTyped
<1> QED
  BY <1>1, RunIs

LEMMA MoveTyped ==
    ASSUME RunsTyped, NEW e \in Runs, NEW pc \in Turning, Moves(e, pc),
           Allowed(pc, runs[e].turn, runs[e].used, runs[e].asks)
    PROVE  RunsTyped'
<1>1. RunMovesTo(e, pc, runs[e].turn, runs[e].used, runs[e].asks)
  BY MoveIs
<1> DEFINE t == runs[e].turn
           u == runs[e].used
           a == runs[e].asks
<1>2. /\ t \in Nat /\ u \in Nat /\ a \in {"nothing", "batch", "more"}
      /\ RunMovesTo(e, pc, t, u, a) /\ Allowed(pc, t, u, a)
  BY <1>1, RunHas
<1> HIDE DEF t, u, a
<1> QED
  BY <1>2, RunGoes

LEMMA ChangesAre ==
    ASSUME RunsTyped, NEW e \in Runs, NEW pc, NEW turn, NEW used, NEW asks
    PROVE  /\ runs' = [runs EXCEPT ![e].pc = pc, ![e].turn = turn]
                => RunMovesTo(e, pc, turn, runs[e].used, runs[e].asks)
           /\ runs' = [runs EXCEPT ![e].pc = pc, ![e].asks = asks, ![e].used = used]
                => RunMovesTo(e, pc, runs[e].turn, used, asks)
           /\ runs' = [runs EXCEPT ![e].pc = pc, ![e].used = used]
                => RunMovesTo(e, pc, runs[e].turn, used, runs[e].asks)
<1>1. runs[e] \in Run /\ runs \in [Runs -> Run]
  BY DEF RunsTyped
<1>2. /\ [runs EXCEPT ![e].pc = pc, ![e].turn = turn]
           = [runs EXCEPT ![e] = [[runs[e] EXCEPT !.pc = pc] EXCEPT !.turn = turn]]
      /\ [runs EXCEPT ![e].pc = pc, ![e].asks = asks, ![e].used = used]
           = [runs EXCEPT ![e] = [[[runs[e] EXCEPT !.pc = pc] EXCEPT !.asks = asks]
                                     EXCEPT !.used = used]]
      /\ [runs EXCEPT ![e].pc = pc, ![e].used = used]
           = [runs EXCEPT ![e] = [[runs[e] EXCEPT !.pc = pc] EXCEPT !.used = used]]
  BY <1>1
<1> DEFINE x == runs[e]
<1>3. /\ [[x EXCEPT !.pc = pc] EXCEPT !.turn = turn] = RunMoved(x, pc, turn, x.used, x.asks)
      /\ [[[x EXCEPT !.pc = pc] EXCEPT !.asks = asks] EXCEPT !.used = used]
           = RunMoved(x, pc, x.turn, used, asks)
      /\ [[x EXCEPT !.pc = pc] EXCEPT !.used = used] = RunMoved(x, pc, x.turn, used, x.asks)
  <2>1. x \in Run
    BY <1>1
  <2> HIDE DEF x
  <2> QED
    BY <2>1 DEF Run, RunMoved
<1> QED
  BY <1>2, <1>3, Zenon DEF RunMovesTo

\* The answers of a call, and the steps between two awaits.
LEMMA InputsTyped ==
    ASSUME StepTyped, NEW e \in Runs, InputsRead(e)
    PROVE  StepTyped'
<1>1. CASE Unwind(e) \/ Broken(e)
  BY <1>1, EndsTyped
<1>2. CASE /\ runs' = [runs EXCEPT ![e].pc = "call", ![e].turn = 1]
           /\ rounds' = IF Streams /\ runs[e].round \in Listed(rounds)
                        THEN [rounds EXCEPT ![runs[e].round].reply = "text"] ELSE rounds
           /\ UNCHANGED <<controller, cards>>
  <2>1. RunsTyped /\ rounds \in [RoundIds -> Round]
    BY DEF StepTyped
  <2>2. RunsTyped'
    <3> DEFINE u == runs[e].used
               a == runs[e].asks
    <3>1. u = 0 /\ a \in {"nothing", "batch", "more"}
      <4>1. runs[e].pc = "inputs"
        BY DEF InputsRead, At
      <4>2. Budget(runs[e])
        BY <2>1, RunHas
      <4> QED
        BY <2>1, <4>1, <4>2, RunHas DEF Budget, Turning
    <3>2. RunMovesTo(e, "call", 1, u, a)
      BY <1>2, <2>1, ChangesAre
    <3> HIDE DEF u, a
    <3>3. MaxTurns >= 1 /\ MaxTurns \in Nat
      <4>1. MaxTurns \in Nat \ {0}
        BY WebAgentAssumption
      <4> QED
        BY <4>1
    <3>4. Allowed("call", 1, u, a)
      BY <3>1, <3>3 DEF Allowed
    <3>5. "call" \in Turning /\ 1 \in Nat /\ u \in Nat
      BY <3>1 DEF Turning
    <3> QED
      BY <2>1, <3>1, <3>2, <3>4, <3>5, RunGoes
  <2>3. rounds' \in [RoundIds -> Round]
    <3> DEFINE r == runs[e].round
    <3>1. CASE r \in RoundIds
      <4>1. [rounds EXCEPT ![r].reply = "text"] \in [RoundIds -> Round]
        <5> HIDE DEF r
        <5> QED
          BY <2>1, <3>1, RoundsTypedPut
      <4> QED
        BY <1>2, <2>1, <4>1
    <3>2. CASE r \notin RoundIds
      BY <1>2, <2>1, <3>2 DEF Listed
    <3> QED
      BY <3>1, <3>2
  <2> QED
    BY <1>2, <2>2, <2>3 DEF StepTyped
<1> QED
  BY <1>1, <1>2 DEF InputsRead

LEMMA BudgetSteps ==
    ASSUME NEW t \in Nat, NEW u \in Nat, NEW m \in Nat
    PROVE  /\ u <= 2 * t - 2 => u <= 2 * t /\ u <= 2 * t - 1
           /\ u <= 2 * t - 1 => u <= 2 * t /\ u + 1 <= 2 * t
           /\ u <= 2 * t => u <= 2 * (t + 1) - 2 /\ u <= 2 * (t + 1)
           /\ t < m => t + 1 <= m
           /\ t + 1 >= 1
  OBVIOUS

\* Whether a step of an execution is allowed follows from where it is.
LEMMA AllowedNext ==
    ASSUME RunsTyped, NEW e \in Runs
    PROVE  LET t == runs[e].turn
               u == runs[e].used
               a == runs[e].asks
               p == runs[e].pc
           IN  /\ p = "call" => Allowed("call store", t, u, a)
               /\ p = "call store" => Allowed("call", t, u, a)
               /\ p = "answer store" => Allowed("decide", t, u, a)
               /\ p = "decide" /\ a = "more" => Allowed("continue", t, u, a)
               /\ p = "decide" /\ a = "batch" => Allowed("batch", t, u, a)
               /\ p = "batch" => Allowed("batch store", t, u, a) /\ Allowed("continue", t, u, a)
               /\ p = "batch store" => Allowed("continue", t, u, a) /\ Allowed("continue", t, u + 1, a)
               /\ p = "continue" => Allowed("call", t + 1, u, a)
<1> DEFINE x == runs[e]
           t == x.turn
           u == x.used
<1>1. t \in Nat /\ u \in Nat /\ Budget(x) /\ MaxTurns \in Nat /\ t <= MaxTurns
  BY RunHas, RunIs
<1> HIDE DEF x
<1>2. /\ u <= 2 * t - 2 => u <= 2 * t /\ u <= 2 * t - 1
      /\ u <= 2 * t - 1 => u <= 2 * t /\ u + 1 <= 2 * t
      /\ u <= 2 * t => u <= 2 * (t + 1) - 2 /\ u <= 2 * (t + 1)
      /\ t < MaxTurns => t + 1 <= MaxTurns
      /\ t + 1 >= 1
  <2> HIDE DEF t, u
  <2> QED
    BY <1>1, BudgetSteps
<1>3. x.pc = "call" => Allowed("call store", t, u, x.asks)
  <2>1. ASSUME x.pc = "call"
        PROVE  Allowed("call store", t, u, x.asks)
    BY <1>1, <1>2, <2>1, Zenon DEF Budget, Allowed, Turning
  <2> QED
    BY <2>1
<1>4. x.pc = "call store" => Allowed("call", t, u, x.asks)
  <2>1. ASSUME x.pc = "call store"
        PROVE  Allowed("call", t, u, x.asks)
    BY <1>1, <1>2, <2>1, Zenon DEF Budget, Allowed, Turning
  <2> QED
    BY <2>1
<1>5. x.pc = "answer store" => Allowed("decide", t, u, x.asks)
  <2>1. ASSUME x.pc = "answer store"
        PROVE  Allowed("decide", t, u, x.asks)
    BY <1>1, <1>2, <2>1, Zenon DEF Budget, Allowed, Turning
  <2> QED
    BY <2>1
<1>6. x.pc = "decide" /\ x.asks = "more" => Allowed("continue", t, u, x.asks)
  <2>1. ASSUME x.pc = "decide" /\ x.asks = "more"
        PROVE  Allowed("continue", t, u, x.asks)
    BY <1>1, <1>2, <2>1, Zenon DEF Budget, Allowed, Turning
  <2> QED
    BY <2>1
<1>7. x.pc = "decide" /\ x.asks = "batch" => Allowed("batch", t, u, x.asks)
  <2>1. ASSUME x.pc = "decide" /\ x.asks = "batch"
        PROVE  Allowed("batch", t, u, x.asks)
    BY <1>1, <1>2, <2>1, Zenon DEF Budget, Allowed, Turning
  <2> QED
    BY <2>1
<1>8. x.pc = "batch" => Allowed("batch store", t, u, x.asks) /\ Allowed("continue", t, u, x.asks)
  <2>1. ASSUME x.pc = "batch"
        PROVE  Allowed("batch store", t, u, x.asks) /\ Allowed("continue", t, u, x.asks)
    BY <1>1, <1>2, <2>1, Zenon DEF Budget, Allowed, Turning
  <2> QED
    BY <2>1
<1>9. x.pc = "batch store" => Allowed("continue", t, u, x.asks)
                             /\ Allowed("continue", t, u + 1, x.asks)
  <2>1. ASSUME x.pc = "batch store"
        PROVE  Allowed("continue", t, u, x.asks) /\ Allowed("continue", t, u + 1, x.asks)
    BY <1>1, <1>2, <2>1, Zenon DEF Budget, Allowed, Turning
  <2> QED
    BY <2>1
<1>10. x.pc = "continue" => Allowed("call", t + 1, u, x.asks)
  <2>1. ASSUME x.pc = "continue"
        PROVE  Allowed("call", t + 1, u, x.asks)
    BY <1>1, <1>2, <2>1, Zenon DEF Budget, Allowed, Turning
  <2> QED
    BY <2>1
<1> QED
  BY <1>3, <1>4, <1>5, <1>6, <1>7, <1>8, <1>9, <1>10, Zenon DEF x

\* The steps of an execution that only move it.
LEMMA MovesTyped ==
    ASSUME StepTyped, NEW e \in Runs,
           ToolCompleted(e) \/ CallStored(e) \/ AnswerStored(e) \/ BatchAnswered(e)
    PROVE  StepTyped'
<1>1. RunsTyped /\ cards \in [Cards -> {"none", "running", "done", "error"}]
  BY DEF StepTyped
<1> DEFINE S == {"none", "running", "done", "error"}
<1>2. \A c : Complete(c) => cards' \in [Cards -> S]
  BY <1>1, CardsTyped DEF Complete
<1>3. CASE ToolCompleted(e)
  <2>1. Moves(e, "call store") /\ runs[e].pc = "call" /\ UNCHANGED <<rounds, controller, cards>>
    BY <1>3 DEF ToolCompleted, At
  <2>2. RunsTyped'
    BY <1>1, <2>1, AllowedNext, MoveTyped DEF Turning
  <2> QED
    BY <2>1, <2>2 DEF StepTyped
<1>4. CASE CallStored(e)
  <2>1. CASE Unwind(e) \/ Broken(e)
    BY <2>1, EndsTyped
  <2>2. CASE ~(Unwind(e) \/ Broken(e))
    <3>1. /\ Moves(e, "call") /\ runs[e].pc = "call store" /\ UNCHANGED <<rounds, controller>>
          /\ Complete(<<e, "single">>)
      BY <1>4, <2>2 DEF CallStored, At
    <3>2. RunsTyped'
      BY <1>1, <3>1, AllowedNext, MoveTyped DEF Turning
    <3> QED
      BY <1>2, <3>1, <3>2 DEF StepTyped
  <2> QED
    BY <2>1, <2>2
<1>5. CASE AnswerStored(e)
  <2>1. CASE Unwind(e) \/ Broken(e)
    BY <2>1, EndsTyped
  <2>2. CASE ~(Unwind(e) \/ Broken(e))
    <3>1. /\ Moves(e, "decide") /\ runs[e].pc = "answer store" /\ UNCHANGED <<rounds, controller>>
          /\ \/ Complete(<<e, "single">>)
             \/ cards' = [cards EXCEPT ![<<e, "single">>] = "done"]
      BY <1>5, <2>2 DEF AnswerStored, At
    <3>2. RunsTyped'
      BY <1>1, <3>1, AllowedNext, MoveTyped DEF Turning
    <3>3. cards' \in [Cards -> S]
      BY <1>1, <1>2, <3>1
    <3> QED
      BY <3>1, <3>2, <3>3 DEF StepTyped
  <2> QED
    BY <2>1, <2>2
<1>6. CASE BatchAnswered(e)
  <2>1. /\ Moves(e, "batch store") \/ Moves(e, "continue")
        /\ runs[e].pc = "batch" /\ UNCHANGED <<rounds, controller>>
        /\ cards' = cards \/ cards' = FailRunning(cards, {<<e, "batch">>})
    BY <1>6 DEF BatchAnswered, At
  <2>2. RunsTyped'
    BY <1>1, <2>1, AllowedNext, MoveTyped DEF Turning
  <2>3. cards' \in [Cards -> S]
    <3>1. FailRunning(cards, {<<e, "batch">>}) \in [Cards -> S]
      BY <1>1, CardsTyped
    <3> QED
      BY <1>1, <2>1, <3>1
  <2> QED
    BY <2>1, <2>2, <2>3 DEF StepTyped
<1> QED
  BY <1>3, <1>4, <1>5, <1>6

LEMMA AnswersTyped ==
    ASSUME StepTyped, NEW e \in Runs, NEW image \in BOOLEAN,
           NEW asks \in {"nothing", "batch", "more"}, Answer(e, image, asks)
    PROVE  StepTyped'
<1>1. RunsTyped
  BY DEF StepTyped
<1> DEFINE t == runs[e].turn
           u == runs[e].used
           pc == IF image THEN "answer store" ELSE "decide"
           n == IF image THEN u + 1 ELSE u
<1>2. /\ t \in Nat /\ u \in Nat /\ t >= 1 /\ t <= MaxTurns /\ u <= 2 * t - 2
      /\ asks # "nothing" => t < MaxTurns
  <2>1. Budget(runs[e]) /\ runs[e].pc = "call" /\ t \in Nat /\ u \in Nat
    BY <1>1, RunHas DEF Answer, At
  <2>2. t <= MaxTurns
    BY <1>1, RunHas, RunIs
  <2> QED
    BY <2>1, <2>2, Zenon DEF Budget, Turning, Answer
<1>3. RunMovesTo(e, pc, t, n, asks)
  <2>1. runs' = [runs EXCEPT ![e].pc = pc, ![e].asks = asks, ![e].used = n]
    <3>1. u + 0 = u
      BY <1>2
    <3> QED
      BY <1>1, <3>1 DEF Answer, RunsTyped
  <2> HIDE DEF t, u, n
  <2>2. RunMovesTo(e, pc, runs[e].turn, n, asks)
    BY <1>1, <2>1, ChangesAre
  <2> QED
    BY <2>2 DEF t
<1>4. n \in Nat /\ n <= 2 * t /\ n <= 2 * t - 1
  <2> HIDE DEF t, u
  <2>1. u <= 2 * t - 2 => u <= 2 * t /\ u <= 2 * t - 1 /\ u + 1 <= 2 * t /\ u + 1 <= 2 * t - 1
    BY <1>2
  <2> QED
    BY <1>2, <2>1
<1> HIDE DEF t, u, n
<1>5. Allowed(pc, t, n, asks)
  BY <1>2, <1>4, Zenon DEF Allowed
<1>6. pc \in Turning
  BY DEF Turning
<1>7. RunsTyped'
  <2> HIDE DEF pc
  <2> QED
    BY <1>1, <1>2, <1>3, <1>4, <1>5, <1>6, RunGoes
<1> QED
  BY <1>7 DEF Answer, StepTyped

LEMMA DecidesTyped ==
    ASSUME StepTyped, NEW e \in Runs, Decide(e)
    PROVE  StepTyped'
<1>1. /\ RunsTyped /\ cards \in [Cards -> {"none", "running", "done", "error"}]
      /\ runs[e].pc = "decide" /\ runs[e].asks \in {"nothing", "batch", "more"}
  BY RunHas DEF StepTyped, Decide, At
<1>2. CASE runs[e].asks = "nothing"
  BY <1>2, EndsTyped DEF Decide
<1>3. CASE runs[e].asks = "more"
  <2>1. Moves(e, "continue") /\ UNCHANGED <<rounds, controller, cards>>
    BY <1>3 DEF Decide
  <2>2. RunsTyped'
    BY <1>1, <1>3, <2>1, AllowedNext, MoveTyped DEF Turning
  <2> QED
    BY <2>1, <2>2 DEF StepTyped
<1>4. CASE runs[e].asks = "batch"
  <2>1. /\ Moves(e, "batch") /\ UNCHANGED <<rounds, controller>>
        /\ cards' = [cards EXCEPT ![<<e, "batch">>] = "running"]
    BY <1>4 DEF Decide
  <2>2. RunsTyped'
    BY <1>1, <1>4, <2>1, AllowedNext, MoveTyped DEF Turning
  <2> QED
    BY <1>1, <2>1, <2>2 DEF StepTyped
<1> QED
  BY <1>1, <1>2, <1>3, <1>4

LEMMA TurnsTyped ==
    ASSUME StepTyped, NEW e \in Runs, BatchStored(e) \/ Continue(e)
    PROVE  StepTyped'
<1>1. RunsTyped
  BY DEF StepTyped
<1> DEFINE t == runs[e].turn
           u == runs[e].used
           a == runs[e].asks
<1>2. t \in Nat /\ u \in Nat /\ a \in {"nothing", "batch", "more"}
  BY <1>1, RunHas
<1>3. CASE BatchStored(e)
  <2>1. runs[e].pc = "batch store" /\ UNCHANGED <<rounds, controller>>
    BY <1>3 DEF BatchStored, At
  <2>2. CASE cards' = FailRunning(cards, {<<e, "batch">>}) /\ Moves(e, "continue")
    <3>1. RunsTyped'
      BY <1>1, <2>1, <2>2, AllowedNext, MoveTyped DEF Turning
    <3>2. cards' \in [Cards -> {"none", "running", "done", "error"}]
      BY <2>2, CardsTyped DEF StepTyped
    <3> QED
      BY <2>1, <3>1, <3>2 DEF StepTyped
  <2>3. CASE /\ Complete(<<e, "batch">>)
             /\ runs' = [runs EXCEPT ![e].pc = "continue", ![e].used = @ + 1]
    <3>1. Allowed("continue", t, u + 1, a)
      BY <1>1, <2>1, AllowedNext
    <3>2. RunMovesTo(e, "continue", t, u + 1, a)
      <4>1. runs' = [runs EXCEPT ![e].pc = "continue", ![e].used = u + 1]
        BY <1>1, <2>3 DEF RunsTyped
      <4> QED
        BY <1>1, <4>1, ChangesAre
    <3> HIDE DEF t, u, a
    <3>3. "continue" \in Turning /\ u + 1 \in Nat
      BY <1>2 DEF Turning
    <3>4. RunsTyped'
      BY <1>1, <1>2, <3>1, <3>2, <3>3, RunGoes
    <3>5. cards' \in [Cards -> {"none", "running", "done", "error"}]
      BY <2>3, CardsTyped DEF Complete, StepTyped
    <3> QED
      BY <2>1, <3>4, <3>5 DEF StepTyped
  <2> QED
    BY <1>3, <2>2, <2>3 DEF BatchStored
<1>4. CASE Continue(e)
  <2>1. CASE Finish(e) \/ Unwind(e)
    BY <2>1, EndsTyped
  <2>2. CASE ~(Finish(e) \/ Unwind(e))
    <3>1. /\ runs[e].pc = "continue" /\ UNCHANGED <<rounds, controller, cards>>
          /\ runs' = [runs EXCEPT ![e].pc = "call", ![e].turn = t + 1]
      BY <1>1, <1>4, <2>2 DEF Continue, At, RunsTyped
    <3>2. Allowed("call", t + 1, u, a)
      BY <1>1, <3>1, AllowedNext
    <3>3. RunMovesTo(e, "call", t + 1, u, a)
      BY <1>1, <3>1, ChangesAre
    <3> HIDE DEF t, u, a
    <3>4. "call" \in Turning /\ t + 1 \in Nat
      BY <1>2 DEF Turning
    <3>5. RunsTyped'
      BY <1>1, <1>2, <3>2, <3>3, <3>4, RunGoes
    <3> QED
      BY <3>1, <3>5 DEF StepTyped
  <2> QED
    BY <2>1, <2>2
<1> QED
  BY <1>3, <1>4

\* The start of a tool is noted.
LEMMA SeenTyped ==
    ASSUME RunsTyped, NEW e \in Runs, runs' = [runs EXCEPT ![e].seen = TRUE]
    PROVE  RunsTyped'
<1> DEFINE x == [runs[e] EXCEPT !.seen = TRUE]
<1>1. runs[e] \in Run /\ Budget(runs[e])
  BY DEF RunsTyped
<1>2. /\ x \in Run /\ x.pc = runs[e].pc /\ x.turn = runs[e].turn
      /\ x.used = runs[e].used /\ x.asks = runs[e].asks
  BY <1>1 DEF Run
<1>3. runs' = [runs EXCEPT ![e] = x]
  BY DEF RunsTyped
<1> HIDE DEF x
<1>4. RunTyped(x)
  BY <1>1, <1>2 DEF RunTyped, Budget
<1> QED
  BY <1>3, <1>4, RunsPutTyped

\* Every step of an execution.
LEMMA AnsweringTyped ==
    ASSUME AgentTyped, NEW e \in Runs, Answering(e)
    PROVE  AgentTyped'
<1>1. UNCHANGED <<created, active, sending, deleting>>
  BY DEF Answering, InputsRead, ToolStarted, ToolFailed, ToolCompleted, CallStored, CallEnds,
         AnswerStored, Decide, BatchAnswered, BatchStored, Continue, Answer, Outside
<1>2. StepTyped
  BY DEF AgentTyped
<1>3. CASE ToolStarted(e) \/ ToolFailed(e)
  <2>1. /\ UNCHANGED <<rounds, controller>>
        /\ \/ cards' = [cards EXCEPT ![<<e, "single">>] = "running"]
           \/ cards' = FailRunning(cards, {<<e, "single">>})
    BY <1>3 DEF ToolStarted, ToolFailed
  <2>2. cards' \in [Cards -> {"none", "running", "done", "error"}]
    BY <1>2, <2>1, CardsTyped DEF StepTyped
  <2>3. RunsTyped'
    <3>1. CASE ToolStarted(e)
      BY <1>2, <3>1, SeenTyped DEF ToolStarted, StepTyped
    <3>2. CASE ToolFailed(e)
      BY <1>2, <3>2 DEF ToolFailed, StepTyped, RunsTyped, Budget
    <3> QED
      BY <1>3, <3>1, <3>2
  <2> QED
    BY <1>1, <1>2, <2>1, <2>2, <2>3 DEF AgentTyped, StepTyped
<1>4. CASE ~(ToolStarted(e) \/ ToolFailed(e))
  <2>1. CASE CallEnds(e)
    <3>1. Unwind(e) \/ Broken(e)
      BY <2>1 DEF CallEnds
    <3>2. StepTyped'
      BY <1>2, <3>1, EndsTyped
    <3> QED
      BY <1>1, <3>2 DEF AgentTyped
  <2>2. CASE ~CallEnds(e)
    <3>1. StepTyped'
      <4>1. CASE \E image \in BOOLEAN, asks \in {"nothing", "batch", "more"} : Answer(e, image, asks)
        BY <1>2, <4>1, AnswersTyped
      <4>2. CASE InputsRead(e)
        BY <1>2, <4>2, InputsTyped
      <4>3. CASE ToolCompleted(e) \/ CallStored(e) \/ AnswerStored(e) \/ BatchAnswered(e)
        BY <1>2, <4>3, MovesTyped
      <4>4. CASE Decide(e)
        BY <1>2, <4>4, DecidesTyped
      <4>5. CASE BatchStored(e) \/ Continue(e)
        BY <1>2, <4>5, TurnsTyped
      <4> QED
        BY <1>4, <2>2, <4>1, <4>2, <4>3, <4>4, <4>5, Zenon DEF Answering
    <3> QED
      BY <1>1, <3>1 DEF AgentTyped
  <2> QED
    BY <2>1, <2>2
<1> QED
  BY <1>3, <1>4

\* The steps of the user.
LEMMA ActiveLeafTyped ==
    ASSUME NEW rs, NEW a
    PROVE  ActiveLeaf(rs, a) \in RoundOrNone
<1>1. Listed(rs) \subseteq RoundIds
  BY ChildrenListed
<1>2. Leaf(rs, NoRound) \in Listed(rs) \/ Leaf(rs, NoRound) = NoRound
  <2> DEFINE C == Children(rs, NoRound)
  <2>1. PICK f : /\ FollowsAfter(NextRound(rs), f, 0)
                 /\ Leaf(rs, NoRound) = IF C = {} THEN NoRound ELSE f[Newest(C)]
    BY LeafFollows
  <2>2. C \subseteq Listed(rs) /\ C \subseteq RoundIds
    BY ChildrenListed
  <2>3. CASE C # {}
    <3>1. Newest(C) \in C
      BY <2>2, <2>3, NewestExists
    <3>2. f[Newest(C)] = Newest(C) \/ f[Newest(C)] \in Listed(rs)
      BY <2>1, <2>2, <3>1, NextDescends, WayEnds
    <3> QED
      BY <2>1, <2>2, <2>3, <3>1, <3>2
  <2> QED
    BY <2>1, <2>3
<1> QED
  BY <1>1, <1>2 DEF ActiveLeaf, RoundOrNone

LEMMA RoundMake ==
    ASSUME NEW s \in {"absent", "running", "done", "error"}, NEW p \in RoundOrNone,
           NEW t \in {"none", "text", "failed"}
    PROVE  [status |-> s, parent |-> p, reply |-> t] \in Round
  BY DEF Round, RoundOrNone

LEMMA RoundHas ==
    ASSUME rounds \in [RoundIds -> Round], NEW r \in RoundIds
    PROVE  /\ rounds[r].status \in {"absent", "running", "done", "error"}
           /\ rounds[r].parent \in RoundOrNone /\ rounds[r].reply \in {"none", "text", "failed"}
<1>1. rounds[r] \in Round
  OBVIOUS
<1> QED
  BY <1>1 DEF Round, RoundOrNone

LEMMA SendingHas ==
    ASSUME sending \in Sending
    PROVE  sending.parent \in RoundOrNone /\ sending.edit \in RoundOrNone
  BY DEF Sending, RoundOrNone

\* A round that begins to be answered, and its execution.
LEMMA BeginsTyped ==
    ASSUME StepTyped, NEW e \in Runs, NEW r \in RoundIds, Begin(e, r), NEW x \in Round,
           rounds' = [rounds EXCEPT ![r] = x], UNCHANGED cards
    PROVE  StepTyped'
<1>1. rounds' \in [RoundIds -> Round]
  BY DEF StepTyped
<1>2. RunsTyped'
  <2>1. RunsTyped
    BY DEF StepTyped
  <2>2. r \in RoundOrNone
    BY DEF RoundOrNone
  <2>3. RunTyped(Rest("inputs", r))
    BY <2>2, RestTyped
  <2>4. runs' = [runs EXCEPT ![e] = Rest("inputs", r)]
    BY DEF Begin, Rest
  <2> QED
    BY <2>1, <2>3, <2>4, RunsPutTyped
<1>3. controller' \in [RoundIds -> {NoRun} \cup Runs]
  BY DEF Begin, StepTyped
<1> QED
  BY <1>1, <1>2, <1>3 DEF StepTyped

LEMMA SendTyped ==
    ASSUME AgentTyped, NEW edit \in RoundOrNone, Send(edit)
    PROVE  AgentTyped'
<1> DEFINE p == IF edit = NoRound THEN ActiveLeaf(rounds, active) ELSE rounds[edit].parent
<1>1. p \in RoundOrNone
  <2>1. edit = NoRound \/ edit \in RoundIds
    BY DEF RoundOrNone
  <2> QED
    BY <2>1, ActiveLeafTyped, RoundHas DEF AgentTyped, StepTyped
<1>2. sending' = [pc |-> "storing", edit |-> edit, parent |-> p]
  BY DEF Send
<1> HIDE DEF p
<1>3. sending' \in Sending
  BY <1>1, <1>2 DEF Sending, RoundOrNone
<1> QED
  BY <1>3 DEF Send, AgentTyped, StepTyped, RunsTyped, Budget

LEMMA CreatedTyped ==
    ASSUME created \in 0..MaxRounds, created + 1 \in RoundIds
    PROVE  created + 1 \in 0..MaxRounds
<1>1. MaxRounds \in Nat
  BY WebAgentAssumption
<1> QED
  BY <1>1 DEF RoundIds

LEMMA SentTyped ==
    ASSUME AgentTyped, NEW e \in Runs, Sent(e)
    PROVE  AgentTyped'
<1> DEFINE edit == sending.edit
           again == /\ edit \in Listed(rounds)
                    /\ Children(rounds, edit) = {} /\ rounds[edit].reply # "text"
           r == IF again THEN edit ELSE created + 1
           t == IF again THEN rounds[r].reply ELSE "none"
           x == [status |-> "running", parent |-> sending.parent, reply |-> t]
<1>1. /\ r \in RoundIds /\ created' = IF again THEN created ELSE created + 1
      /\ active' = r /\ sending' = NotSending /\ UNCHANGED <<deleting, cards>> /\ Begin(e, r)
  BY DEF Sent
<1>2. /\ rounds \in [RoundIds -> Round] /\ sending \in Sending /\ created \in 0..MaxRounds
      /\ deleting \in RoundOrNone /\ StepTyped
  BY DEF AgentTyped, StepTyped
<1>3. rounds' = [rounds EXCEPT ![r] = x]
  BY <1>1, <1>2 DEF Sent
<1>4. created' \in 0..MaxRounds
  <2> HIDE DEF again
  <2> QED
    BY <1>1, <1>2, CreatedTyped
<1>5. t \in {"none", "text", "failed"}
  <2> HIDE DEF again, r
  <2> QED
    BY <1>1, <1>2, RoundHas
<1>6. x \in Round
  <2> HIDE DEF t
  <2>1. sending.parent \in RoundOrNone
    BY <1>2, SendingHas
  <2> QED
    BY <1>5, <2>1, RoundMake
<1>7. StepTyped'
  <2> HIDE DEF x, r
  <2> QED
    BY <1>1, <1>2, <1>3, <1>6, BeginsTyped
<1>8. sending' \in Sending
  BY <1>1 DEF Sending, NotSending
<1> HIDE DEF r
<1> QED
  BY <1>1, <1>2, <1>4, <1>7, <1>8 DEF AgentTyped, RoundOrNone

LEMMA RegenerateTyped ==
    ASSUME AgentTyped, NEW e \in Runs, NEW q \in RoundIds, Regenerate(q, e)
    PROVE  AgentTyped'
<1> DEFINE r == IF rounds[q].status = "error" THEN q ELSE created + 1
           t == IF r = q THEN rounds[r].reply ELSE "none"
           x == [status |-> "running", parent |-> rounds[q].parent, reply |-> t]
<1>1. /\ r \in RoundIds /\ created' = IF r = q THEN created ELSE created + 1
      /\ active' = r /\ UNCHANGED <<sending, deleting, cards>> /\ Begin(e, r)
  BY DEF Regenerate
<1>2. /\ rounds \in [RoundIds -> Round] /\ sending \in Sending /\ created \in 0..MaxRounds
      /\ deleting \in RoundOrNone /\ StepTyped
  BY DEF AgentTyped, StepTyped
<1>3. rounds' = [rounds EXCEPT ![r] = x]
  BY <1>1, <1>2 DEF Regenerate
<1>4. created' \in 0..MaxRounds
  <2>1. r = q \/ r = created + 1
    OBVIOUS
  <2> HIDE DEF r
  <2> QED
    BY <1>1, <1>2, <2>1, CreatedTyped
<1>5. t \in {"none", "text", "failed"}
  <2> HIDE DEF r
  <2> QED
    BY <1>1, <1>2, RoundHas
<1>6. x \in Round
  <2> HIDE DEF t
  <2>1. rounds[q].parent \in RoundOrNone
    BY <1>2, RoundHas
  <2> QED
    BY <1>5, <2>1, RoundMake
<1>7. StepTyped'
  <2> HIDE DEF x, r
  <2> QED
    BY <1>1, <1>2, <1>3, <1>6, BeginsTyped
<1> HIDE DEF r
<1> QED
  BY <1>1, <1>2, <1>4, <1>7 DEF AgentTyped, RoundOrNone

LEMMA StopTyped ==
    ASSUME AgentTyped, NEW r \in RoundIds, Stop(r)
    PROVE  AgentTyped'
<1>1. /\ rounds \in [RoundIds -> Round] /\ RunsTyped
      /\ controller \in [RoundIds -> {NoRun} \cup Runs]
      /\ cards \in [Cards -> {"none", "running", "done", "error"}]
      /\ UNCHANGED <<created, active, sending, deleting, controller>>
  BY DEF AgentTyped, StepTyped, Stop
<1>2. rounds' \in [RoundIds -> Round]
  <2>1. [rounds EXCEPT ![r].status = "error", ![r].reply = "text"] \in [RoundIds -> Round]
    BY <1>1, RoundsTypedPut
  <2> QED
    BY <1>1, <2>1 DEF Stop, Stopped
<1>3. cards' \in [Cards -> {"none", "running", "done", "error"}]
  <2>1. FailRunning(cards, CardsOf(r)) \in [Cards -> {"none", "running", "done", "error"}]
    BY <1>1, CardsTyped
  <2> QED
    BY <2>1 DEF Stop, Stopped
<1>4. RunsTyped'
  <2>1. CASE runs' = runs
    BY <1>1, <2>1 DEF RunsTyped, Budget
  <2>2. CASE controller[r] # NoRun
    <3> DEFINE e == controller[r]
               x == [runs[e] EXCEPT !.stopped = TRUE]
    <3>1. e \in Runs
      BY <1>1, <2>2
    <3>2. runs[e] \in Run /\ Budget(runs[e])
      BY <1>1, <3>1, RunHas
    <3>3. /\ x \in Run /\ x.pc = runs[e].pc /\ x.turn = runs[e].turn /\ x.used = runs[e].used
          /\ x.asks = runs[e].asks
      <4> DEFINE z == runs[e]
                 y == [z EXCEPT !.stopped = TRUE]
      <4>1. z \in Run
        BY <3>2
      <4> HIDE DEF z
      <4>2. y \in Run /\ y.pc = z.pc /\ y.turn = z.turn /\ y.used = z.used /\ y.asks = z.asks
        BY <4>1 DEF Run
      <4> QED
        BY <4>2, Zenon DEF z
    <3>4. RunTyped(x)
      <4> HIDE DEF x
      <4> QED
        BY <3>2, <3>3 DEF RunTyped, Budget
    <3>5. runs' = [runs EXCEPT ![e] = x]
      BY <1>1, <2>2 DEF Stop
    <3> HIDE DEF e, x
    <3> QED
      BY <1>1, <3>1, <3>4, <3>5, RunsPutTyped
  <2> QED
    BY <2>1, <2>2 DEF Stop
<1> QED
  BY <1>1, <1>2, <1>3, <1>4 DEF AgentTyped, StepTyped

\* A step that leaves the executions alone.
LEMMA RunsStayTyped ==
    ASSUME AgentTyped, UNCHANGED <<created, sending, runs, controller>>,
           rounds' \in [RoundIds -> Round], active' \in RoundOrNone, deleting' \in RoundOrNone,
           cards' \in [Cards -> {"none", "running", "done", "error"}]
    PROVE  AgentTyped'
  BY DEF AgentTyped, StepTyped, RunsTyped, Budget

LEMMA EditsTyped ==
    ASSUME AgentTyped, NEW r \in RoundIds, SwitchBranch(r) \/ DeleteAnswer(r) \/ DeleteRound(r)
    PROVE  AgentTyped'
<1>1. /\ rounds \in [RoundIds -> Round] /\ active \in RoundOrNone /\ deleting \in RoundOrNone
      /\ cards \in [Cards -> {"none", "running", "done", "error"}]
  BY DEF AgentTyped, StepTyped
<1>2. CASE SwitchBranch(r)
  <2>1. Leaf(rounds, r) \in RoundIds
    <3>1. r \in Listed(rounds)
      BY <1>2 DEF SwitchBranch
    <3> QED
      BY <3>1, LeafListed, ChildrenListed
  <2> QED
    BY <1>1, <1>2, <2>1, RunsStayTyped DEF SwitchBranch, RoundOrNone
<1> DEFINE cs == [c \in Cards |-> IF c \in CardsOf(r) THEN "none" ELSE cards[c]]
<1>3. cs \in [Cards -> {"none", "running", "done", "error"}]
  BY <1>1, CardsTyped
<1>4. CASE DeleteAnswer(r)
  <2>1. [rounds EXCEPT ![r].reply = "none"] \in [RoundIds -> Round]
    BY <1>1, RoundsTypedPut
  <2> QED
    BY <1>1, <1>3, <1>4, <2>1, RunsStayTyped DEF DeleteAnswer
<1>5. CASE DeleteRound(r)
  BY <1>1, <1>3, <1>5, RunsStayTyped DEF DeleteRound, RoundOrNone
<1> QED
  BY <1>2, <1>4, <1>5

LEMMA RoundDeletedTyped ==
    ASSUME AgentTyped, RoundDeleted
    PROVE  AgentTyped'
<1>1. /\ rounds \in [RoundIds -> Round] /\ active \in RoundOrNone /\ deleting \in RoundOrNone
      /\ cards \in [Cards -> {"none", "running", "done", "error"}]
  BY DEF AgentTyped, StepTyped
<1>2. Without(rounds, deleting) \in [RoundIds -> Round]
  <2> DEFINE d == deleting
  <2>1. d # NoRound /\ d \in RoundIds
    BY <1>1 DEF RoundDeleted, RoundOrNone
  <2> HIDE DEF d
  <2>2. rounds[d].parent \in {NoRound} \cup RoundIds
    BY <1>1, <2>1, RoundHas DEF RoundOrNone
  <2>3. Absent \in Round
    BY DEF Absent, Round
  <2>4. ASSUME NEW q \in RoundIds
        PROVE  [rounds[q] EXCEPT !.parent = rounds[d].parent] \in Round
    <3> DEFINE z == rounds[q]
               p == rounds[d].parent
    <3>1. z \in Round /\ p \in {NoRound} \cup RoundIds
      BY <1>1, <2>2
    <3> HIDE DEF z, p
    <3>2. [z EXCEPT !.parent = p] \in Round
      BY <3>1 DEF Round
    <3> QED
      BY <3>2 DEF z, p
  <2>5. Without(rounds, d) \in [RoundIds -> Round]
    BY <1>1, <2>3, <2>4 DEF Without
  <2> QED
    BY <2>5 DEF d
<1>3. rounds' \in [RoundIds -> Round]
  BY <1>1, <1>2 DEF RoundDeleted
<1>4. active' \in RoundOrNone
  BY <1>1, ActiveLeafTyped DEF RoundDeleted
<1>5. deleting' \in RoundOrNone
  BY DEF RoundDeleted, RoundOrNone
<1> QED
  BY <1>1, <1>3, <1>4, <1>5, RunsStayTyped DEF RoundDeleted

LEMMA AgentReloadTyped ==
    ASSUME AgentTyped, AgentReload
    PROVE  AgentTyped'
<1>1. /\ rounds \in [RoundIds -> Round] /\ RunsTyped
      /\ cards \in [Cards -> {"none", "running", "done", "error"}]
      /\ created \in 0..MaxRounds /\ active \in RoundOrNone
  BY DEF AgentTyped, StepTyped
<1>2. rounds' \in [RoundIds -> Round]
  <2>1. ASSUME NEW r \in RoundIds
        PROVE  [rounds[r] EXCEPT !.status = "error"] \in Round
    <3> DEFINE z == rounds[r]
    <3>1. z \in Round
      BY <1>1
    <3> HIDE DEF z
    <3>2. [z EXCEPT !.status = "error"] \in Round
      BY <3>1 DEF Round
    <3> QED
      BY <3>2 DEF z
  <2> QED
    BY <1>1, <2>1 DEF AgentReload
<1>3. RunsTyped'
  <2>1. runs' = [e \in Runs |-> IF Live(e) THEN Rest("over", runs[e].round) ELSE runs[e]]
    BY DEF AgentReload, Rest
  <2>2. ASSUME NEW e \in Runs
        PROVE  RunTyped(Rest("over", runs[e].round)) /\ RunTyped(runs[e])
    <3>1. runs[e].round \in RoundOrNone /\ RunTyped(runs[e])
      BY <1>1, RunHas DEF RunTyped
    <3> QED
      BY <3>1, RestTyped
  <2>3. \A e \in Runs : RunTyped(runs'[e])
    BY <2>1, <2>2
  <2>4. \A e \in Runs : runs'[e] \in Run /\ Budget(runs'[e])
    BY <2>3 DEF RunTyped
  <2>5. runs' \in [Runs -> Run]
    BY <2>1, <2>4
  <2> QED
    BY <2>4, <2>5 DEF RunsTyped, Budget
<1>4. cards' \in [Cards -> {"none", "running", "done", "error"}]
  BY <1>1, CardsTyped DEF AgentReload
<1>5. sending' \in Sending /\ deleting' \in RoundOrNone /\ UNCHANGED <<created, active>>
      /\ controller' \in [RoundIds -> {NoRun} \cup Runs]
  BY DEF AgentReload, Sending, NotSending, RoundOrNone
<1> QED
  BY <1>1, <1>2, <1>3, <1>4, <1>5 DEF AgentTyped, StepTyped

LEMMA AgentUserTyped ==
    ASSUME AgentTyped, AgentUser
    PROVE  AgentTyped'
<1>1. CASE \E edit \in {NoRound} \cup RoundIds : Send(edit)
  BY <1>1, SendTyped DEF RoundOrNone
<1>2. CASE \E e \in Runs : Sent(e)
  BY <1>2, SentTyped
<1>3. CASE SendFails
  <2>1. sending' \in Sending
    BY <1>3 DEF SendFails, Sending, NotSending
  <2> QED
    BY <1>3, <2>1 DEF SendFails, AgentTyped, StepTyped, RunsTyped, Budget
<1>4. CASE \E r \in RoundIds, e \in Runs : Regenerate(r, e)
  BY <1>4, RegenerateTyped
<1>5. CASE \E r \in RoundIds : Stop(r)
  BY <1>5, StopTyped
<1>6. CASE \E r \in RoundIds : SwitchBranch(r) \/ DeleteAnswer(r) \/ DeleteRound(r)
  BY <1>6, EditsTyped
<1>7. CASE RoundDeleted
  BY <1>7, RoundDeletedTyped
<1>8. CASE AgentReload
  BY <1>8, AgentReloadTyped
<1> QED
  BY <1>1, <1>2, <1>3, <1>4, <1>5, <1>6, <1>7, <1>8, Zenon DEF AgentUser

\* The variables of the conversation keep their types.
LEMMA AgentTypes ==
    /\ AgentInit => AgentTyped
    /\ AgentTyped /\ [AgentNext]_agentVars => AgentTyped'
    /\ AgentTyped => AgentTypeOK
<1>1. AgentInit => AgentTyped
  <2> SUFFICES ASSUME AgentInit PROVE AgentTyped
    OBVIOUS
  <2>1. runs = [e \in Runs |-> IdleRun]
    BY DEF AgentInit
  <2>2. RunTyped(IdleRun)
    <3>1. MaxTurns \in Nat \ {0}
      BY WebAgentAssumption
    <3>2. 0 \in 0..MaxTurns /\ 0 \in 0..(2 * MaxTurns)
      BY <3>1
    <3>3. IdleRun \in Run
      BY <3>2 DEF IdleRun, Run
    <3>4. IdleRun.turn = 0 /\ IdleRun.used = 0 /\ IdleRun.pc = "idle"
      BY DEF IdleRun
    <3> QED
      BY <3>3, <3>4 DEF RunTyped, Budget, Turning
  <2>3. RunsTyped
    <3> DEFINE x == IdleRun
    <3>1. runs = [e \in Runs |-> x] /\ RunTyped(x)
      BY <2>1, <2>2
    <3> HIDE DEF x
    <3> QED
      BY <3>1 DEF RunsTyped, RunTyped
  <2>4. rounds \in [RoundIds -> Round]
    <3>1. Absent \in Round
      BY DEF Absent, Round
    <3> QED
      BY <3>1 DEF AgentInit
  <2>5. created \in 0..MaxRounds
    <3>1. MaxRounds \in Nat
      BY WebAgentAssumption
    <3> QED
      BY <3>1 DEF AgentInit
  <2>6. sending \in Sending
    BY DEF AgentInit, Sending, NotSending
  <2> QED
    BY <2>3, <2>4, <2>5, <2>6 DEF AgentInit, AgentTyped, StepTyped, RoundOrNone
<1>2. AgentTyped /\ [AgentNext]_agentVars => AgentTyped'
  <2>1. CASE UNCHANGED agentVars
    BY <2>1 DEF agentVars, AgentTyped, StepTyped, RunsTyped, Budget
  <2>2. CASE AgentNext
    BY <2>2, AgentUserTyped, AnsweringTyped DEF AgentNext
  <2> QED
    BY <2>1, <2>2
<1>3. AgentTyped => AgentTypeOK
  BY DEF AgentTyped, StepTyped, RunsTyped, AgentTypeOK, RoundOrNone
<1> QED
  BY <1>1, <1>2, <1>3

-----------------------------------------------------------------------------
Modes   == {"gallery", "agent"}
Spot    == Convs \cup {Nowhere}
Written == [mode : Modes, place : Spot, gallery : Draft, drafts : [Convs -> Draft]]
Flushes == [pc : {"idle", "writing", "failed", "closed"}, queued : BOOLEAN, batch : Stages,
            last : Stages]
Loads   == [pc : {"conversations", "tasks", "images", "done"}, loads : Nat, gallery : Draft,
            drafts : [Convs -> Draft]]

PageTyped   == /\ mode \in Modes /\ place \in Spot /\ composer \in Draft /\ gallery \in Draft
               /\ drafts \in [Convs -> Draft] /\ convs \in Stages
DraftsTyped == /\ PageTyped /\ typed \in [Places -> Draft] /\ stored \in Stages
               /\ saved \in Written /\ flush \in Flushes /\ load \in Loads

LEMMA DraftValues ==
    /\ Empty \in Draft /\ NoDrafts \in [Convs -> Draft] /\ NoConvs \in Stages
    /\ NoDrafts = [c \in Convs |-> Empty] /\ Nowhere \in Spot /\ Nowhere \notin Convs
  BY WebDraftsAssumption DEF Empty, Draft, NoDrafts, NoConvs, Stages, Spot, Nowhere

LEMMA SavedTyped ==
    ASSUME NEW m, NEW p \in Spot, NEW c \in Draft, NEW d \in [Convs -> Draft]
    PROVE  SavedDrafts(m, p, c, d) \in [Convs -> Draft]
  BY DEF SavedDrafts, Spot

LEMMA DraftAtTyped ==
    ASSUME NEW p \in Spot, NEW d \in [Convs -> Draft]
    PROVE  DraftAt(d, p) \in Draft
  BY DraftValues DEF DraftAt, Spot

LEMMA PersistTyped ==
    ASSUME PageTyped', Persist
    PROVE  saved' \in Written
<1> DEFINE d == SavedDrafts(mode', place', composer', drafts')
           k == [c \in Convs |-> IF c \in KnownIn(convs') THEN d[c] ELSE Empty]
           g == IF PersistInput THEN SavedGallery(mode', composer', gallery') ELSE Empty
<1>1. /\ mode' \in Modes /\ place' \in Spot /\ composer' \in Draft /\ gallery' \in Draft
      /\ drafts' \in [Convs -> Draft]
  BY DEF PageTyped
<1>2. d \in [Convs -> Draft]
  BY <1>1, SavedTyped
<1>3. g \in Draft
  BY <1>1, DraftValues DEF SavedGallery
<1>4. saved' = [mode |-> mode', place |-> place', gallery |-> g, drafts |-> k]
  BY DEF Persist
<1> HIDE DEF d, g
<1>5. k \in [Convs -> Draft]
  BY <1>2, DraftValues
<1> HIDE DEF k
<1> QED
  BY <1>1, <1>3, <1>4, <1>5 DEF Written

LEMMA SetTyped ==
    ASSUME DraftsTyped, PageTyped', typed' \in [Places -> Draft], stored' = stored,
           load' = load, Set
    PROVE  DraftsTyped'
<1>1. saved' \in Written
  BY PersistTyped DEF Set
<1>2. flush' \in Flushes
  <2>1. convs' \in Stages /\ flush \in Flushes
    BY DEF PageTyped, DraftsTyped
  <2> QED
    BY <2>1 DEF Set, Notify, Flushes
<1> QED
  BY <1>1, <1>2 DEF DraftsTyped

LEMMA ComposeTyped ==
    ASSUME DraftsTyped, NEW d \in Draft, Compose(d)
    PROVE  DraftsTyped'
<1>1. /\ composer' = d /\ gallery' \in {d, gallery} /\ drafts' = SavedDrafts(mode, place, d, drafts)
      /\ typed' = [typed EXCEPT ![Here] = d]
      /\ UNCHANGED <<mode, place, convs, stored, load>> /\ Set
  BY DEF Compose
<1>2. drafts' \in [Convs -> Draft]
  BY <1>1, SavedTyped DEF DraftsTyped, PageTyped
<1>3. PageTyped'
  BY <1>1, <1>2 DEF DraftsTyped, PageTyped
<1>4. typed' \in [Places -> Draft]
  BY <1>1 DEF DraftsTyped
<1> QED
  BY <1>1, <1>3, <1>4, SetTyped

LEMMA ComposerTyped ==
    ASSUME DraftsTyped,
           \/ \E text \in Texts \cup {""} : SetPrompt(text)
           \/ AddInputImage \/ RemoveInputImage \/ SetMaskDraft \/ ClearMaskDraft
    PROVE  DraftsTyped'
<1>1. composer \in Draft
  BY DEF DraftsTyped, PageTyped
<1>2. /\ composer \in [text : Texts \cup {""}, image : BOOLEAN, mask : BOOLEAN]
      /\ composer.mask => composer.image
  BY <1>1 DEF Draft
<1>3. ASSUME NEW text \in Texts \cup {""}, SetPrompt(text)
      PROVE  DraftsTyped'
  <2>1. [composer EXCEPT !.text = text] \in Draft
    BY <1>2 DEF Draft
  <2> QED
    BY <1>3, <2>1, ComposeTyped DEF SetPrompt
<1>4. CASE AddInputImage
  <2>1. [composer EXCEPT !.image = TRUE] \in Draft
    BY <1>2 DEF Draft
  <2> QED
    BY <1>4, <2>1, ComposeTyped DEF AddInputImage
<1>5. CASE RemoveInputImage
  <2>1. [composer EXCEPT !.image = FALSE, !.mask = FALSE] \in Draft
    BY <1>2 DEF Draft
  <2> QED
    BY <1>5, <2>1, ComposeTyped DEF RemoveInputImage
<1>6. CASE SetMaskDraft
  <2>1. [composer EXCEPT !.mask = TRUE] \in Draft
    BY <1>2, <1>6 DEF Draft, SetMaskDraft
  <2> QED
    BY <1>6, <2>1, ComposeTyped DEF SetMaskDraft
<1>7. CASE ClearMaskDraft
  <2>1. [composer EXCEPT !.mask = FALSE] \in Draft
    BY <1>2 DEF Draft
  <2> QED
    BY <1>7, <2>1, ComposeTyped DEF ClearMaskDraft
<1> QED
  BY <1>3, <1>4, <1>5, <1>6, <1>7

LEMMA ModesTyped ==
    ASSUME DraftsTyped, SendMessage \/ SetGalleryMode \/ SetAgentMode
    PROVE  DraftsTyped'
<1>1. /\ mode \in Modes /\ place \in Spot /\ composer \in Draft /\ gallery \in Draft
      /\ drafts \in [Convs -> Draft] /\ convs \in Stages /\ typed \in [Places -> Draft]
  BY DEF DraftsTyped, PageTyped
<1>2. SavedDrafts(mode, place, composer, drafts) \in [Convs -> Draft]
      /\ SavedGallery(mode, composer, gallery) \in Draft /\ DraftAt(drafts, place) \in Draft
  BY <1>1, SavedTyped, DraftAtTyped DEF SavedGallery
<1>3. CASE SendMessage
  <2>1. PageTyped' /\ typed' \in [Places -> Draft]
    BY <1>1, <1>3, DraftValues DEF SendMessage, PageTyped, Stages
  <2> QED
    BY <1>3, <2>1, SetTyped DEF SendMessage
<1>4. CASE SetGalleryMode
  <2>1. PageTyped' /\ typed' \in [Places -> Draft]
    BY <1>1, <1>2, <1>4 DEF SetGalleryMode, PageTyped, Modes
  <2> QED
    BY <1>4, <2>1, SetTyped DEF SetGalleryMode
<1>5. CASE SetAgentMode
  <2>1. PageTyped' /\ typed' \in [Places -> Draft]
    BY <1>1, <1>2, <1>5 DEF SetAgentMode, PageTyped, Modes
  <2> QED
    BY <1>5, <2>1, SetTyped DEF SetAgentMode
<1> QED
  BY <1>3, <1>4, <1>5

LEMMA GoTyped ==
    ASSUME DraftsTyped, NEW c \in Convs, Go(c)
    PROVE  place' \in Spot /\ drafts' \in [Convs -> Draft] /\ composer' \in Draft
<1>1. place' = c /\ drafts' = SavedDrafts(mode, place, composer, drafts)
      /\ composer' = DraftAt(drafts', c) /\ c \in Spot
  BY DEF Go, Spot
<1>2. drafts' \in [Convs -> Draft]
  BY <1>1, SavedTyped DEF DraftsTyped, PageTyped
<1> QED
  BY <1>1, <1>2, DraftAtTyped

LEMMA ConversationsTyped ==
    ASSUME DraftsTyped, NEW c \in Convs,
           CreateConversation(c) \/ OpenConversation(c) \/ DeleteConversation(c)
    PROVE  DraftsTyped'
<1>1. /\ mode \in Modes /\ place \in Spot /\ composer \in Draft /\ gallery \in Draft
      /\ drafts \in [Convs -> Draft] /\ convs \in Stages /\ typed \in [Places -> Draft]
  BY DEF DraftsTyped, PageTyped
<1>2. CASE CreateConversation(c)
  <2>1. place' \in Spot /\ drafts' \in [Convs -> Draft] /\ composer' \in Draft
    BY <1>2, GoTyped DEF CreateConversation
  <2>2. PageTyped' /\ typed' \in [Places -> Draft]
    BY <1>1, <1>2, <2>1, DraftValues DEF CreateConversation, PageTyped, Stages
  <2> QED
    BY <1>2, <2>2, SetTyped DEF CreateConversation
<1>3. CASE OpenConversation(c)
  <2>1. place' \in Spot /\ drafts' \in [Convs -> Draft] /\ composer' \in Draft
    BY <1>3, GoTyped DEF OpenConversation
  <2>2. PageTyped' /\ typed' \in [Places -> Draft]
    BY <1>1, <1>3, <2>1 DEF OpenConversation, PageTyped
  <2> QED
    BY <1>3, <2>2, SetTyped DEF OpenConversation
<1>4. CASE DeleteConversation(c)
  <2>1. PageTyped' /\ typed' \in [Places -> Draft]
    BY <1>1, <1>4, DraftValues DEF DeleteConversation, PageTyped, Stages
  <2> QED
    BY <1>4, <2>1, SetTyped DEF DeleteConversation
<1> QED
  BY <1>2, <1>3, <1>4

LEMMA FlushTyped ==
    ASSUME DraftsTyped, FlushWritten \/ FlushFails
    PROVE  DraftsTyped'
<1>1. flush \in Flushes /\ flush.batch \in Stages /\ convs \in Stages
  BY DEF DraftsTyped, PageTyped, Flushes
<1>2. flush' \in Flushes /\ stored' \in Stages
  BY <1>1 DEF FlushWritten, FlushFails, Flushes, DraftsTyped
<1> QED
  BY <1>2 DEF FlushWritten, FlushFails, DraftsTyped, PageTyped

LEMMA ReloadTyped ==
    ASSUME DraftsTyped, PageReload
    PROVE  DraftsTyped'
<1>1. /\ saved \in Written /\ saved.mode \in Modes /\ saved.place \in Spot /\ saved.gallery \in Draft
      /\ saved.drafts \in [Convs -> Draft] /\ load.loads \in Nat /\ typed \in [Places -> Draft]
  BY DEF DraftsTyped, Written, Loads
<1>2. composer' \in Draft
  <2>1. DraftAt(saved.drafts, saved.place) # Empty => saved.place \in Convs
    BY <1>1 DEF DraftAt, Spot
  <2> QED
    BY <1>1, <2>1 DEF PageReload
<1>3. PageTyped'
  BY <1>1, <1>2, DraftValues DEF PageReload, PageTyped
<1>4. load' \in Loads
  BY <1>1, DraftValues DEF PageReload, Loads
<1>5. flush' \in Flushes
  BY DraftValues DEF PageReload, Flushes
<1>6. typed' \in [Places -> Draft]
  BY <1>1, DraftValues DEF PageReload
<1> QED
  BY <1>3, <1>4, <1>5, <1>6 DEF DraftsTyped, PageReload

LEMMA StartTyped ==
    ASSUME DraftsTyped, LoadConversations \/ ReadDrafts \/ RestoreDrafts
    PROVE  DraftsTyped'
<1>1. /\ mode \in Modes /\ place \in Spot /\ composer \in Draft /\ gallery \in Draft
      /\ drafts \in [Convs -> Draft] /\ convs \in Stages /\ typed \in [Places -> Draft]
      /\ stored \in Stages /\ load \in Loads /\ flush \in Flushes /\ saved \in Written
  BY DEF DraftsTyped, PageTyped
<1>2. load.gallery \in Draft /\ load.drafts \in [Convs -> Draft]
  BY <1>1 DEF Loads
<1>3. CASE LoadConversations
  <2> DEFINE K == KnownIn(convs')
  <2>1. /\ load' = [load EXCEPT !.pc = "tasks"]
        /\ convs' = [c \in Convs |-> IF stored[c] # "absent" THEN stored[c] ELSE convs[c]]
        /\ UNCHANGED <<mode, gallery, stored, typed>>
    BY <1>3 DEF LoadConversations
  <2>2. load' \in Loads /\ convs' \in Stages
    BY <1>1, <2>1 DEF Loads, Stages
  <2>3. K \subseteq Convs /\ Convs \subseteq Nat
    BY WebDraftsAssumption DEF KnownIn
  <2>4. CASE K = {}
    <3>1. flush' = [flush EXCEPT !.pc = "idle"] /\ UNCHANGED <<place, drafts, composer, saved>>
      BY <1>3, <2>4 DEF LoadConversations
    <3>2. flush' \in Flushes
      BY <1>1, <3>1 DEF Flushes
    <3> QED
      BY <1>1, <2>1, <2>2, <3>1, <3>2 DEF DraftsTyped, PageTyped
  <2>5. CASE K # {}
    <3>1. /\ place' = IF place \in K THEN place ELSE CHOOSE c \in K : \A b \in K : c <= b
          /\ drafts' = [c \in Convs |-> IF c \in K THEN drafts[c] ELSE Empty]
          /\ composer' = IF mode = "agent" THEN DraftAt(drafts', place') ELSE composer
          /\ flush' = [flush EXCEPT !.pc = "writing", !.batch = convs'] /\ Persist
      BY <1>3, <2>5 DEF LoadConversations
    <3>2. \E c \in K : \A b \in K : c <= b
      BY <2>3, <2>5, LeastExists
    <3>3. place' \in Spot
      BY <1>1, <2>3, <3>1, <3>2 DEF Spot
    <3>4. drafts' \in [Convs -> Draft]
      BY <1>1, <3>1, DraftValues
    <3>5. composer' \in Draft
      BY <1>1, <3>1, <3>3, <3>4, DraftAtTyped
    <3>6. flush' \in Flushes
      BY <1>1, <2>2, <3>1 DEF Flushes
    <3>7. PageTyped'
      BY <1>1, <2>1, <2>2, <3>3, <3>4, <3>5 DEF PageTyped
    <3>8. saved' \in Written
      BY <3>1, <3>7, PersistTyped
    <3> QED
      BY <1>1, <2>1, <2>2, <3>6, <3>7, <3>8 DEF DraftsTyped
  <2> QED
    BY <2>4, <2>5
<1>4. CASE ReadDrafts
  <2>1. load' \in Loads
    BY <1>1, <1>4 DEF ReadDrafts, Loads
  <2> QED
    BY <1>1, <1>4, <2>1 DEF ReadDrafts, DraftsTyped, PageTyped
<1>5. CASE RestoreDrafts
  <2> DEFINE w == \E c \in Convs : load.drafts[c].image
  <2>1. /\ load' = [load EXCEPT !.pc = "done", !.gallery = Empty, !.drafts = NoDrafts]
        /\ gallery' \in {load.gallery, gallery} /\ drafts' \in {load.drafts, drafts}
        /\ composer' \in {load.gallery, DraftAt(load.drafts, place), composer}
        /\ UNCHANGED <<mode, place, convs, stored, typed>> /\ Set
    BY <1>5 DEF RestoreDrafts
  <2>2. load' \in Loads
    BY <1>1, <2>1, DraftValues DEF Loads
  <2>3. PageTyped'
    BY <1>1, <1>2, <2>1, DraftAtTyped DEF PageTyped
  <2>4. saved' \in Written
    BY <2>1, <2>3, PersistTyped DEF Set
  <2>5. flush' \in Flushes
    BY <1>1, <2>1 DEF Set, Notify, Flushes
  <2> QED
    BY <1>1, <2>1, <2>2, <2>3, <2>4, <2>5 DEF DraftsTyped
<1> QED
  BY <1>3, <1>4, <1>5

LEMMA DraftsTypes ==
    /\ DraftsInit => DraftsTyped
    /\ DraftsTyped /\ [DraftsNext]_draftVars => DraftsTyped'
    /\ DraftsTyped => DraftsTypeOK
<1>1. ASSUME DraftsInit PROVE DraftsTyped
  <2>1. PageTyped /\ typed \in [Places -> Draft] /\ stored \in Stages
    BY <1>1, DraftValues DEF DraftsInit, PageTyped, Modes
  <2>2. saved \in Written
    BY <1>1, DraftValues DEF DraftsInit, Written, Modes
  <2>3. flush \in Flushes
    BY <1>1, DraftValues DEF DraftsInit, Flushes
  <2>4. load \in Loads
    BY <1>1, DraftValues DEF DraftsInit, Loads
  <2> QED
    BY <2>1, <2>2, <2>3, <2>4 DEF DraftsTyped
<1>2. DraftsTyped /\ UNCHANGED draftVars => DraftsTyped'
  BY DEF draftVars, DraftsTyped, PageTyped
<1>3. ASSUME DraftsTyped, DraftsNext PROVE DraftsTyped'
  BY <1>3, ComposerTyped, ModesTyped, ConversationsTyped, FlushTyped, ReloadTyped, StartTyped
     DEF DraftsNext
<1>4. ASSUME DraftsTyped PROVE DraftsTypeOK
  <2>1. flush.pc \in {"idle", "writing", "failed", "closed"}
    BY <1>4 DEF DraftsTyped, Flushes
  <2>2. load.pc \in {"conversations", "tasks", "images", "done"}
    BY <1>4 DEF DraftsTyped, Loads
  <2> QED
    BY <1>4, <2>1, <2>2 DEF DraftsTypeOK, DraftsTyped, PageTyped, Modes, Spot, Stages, Written
<1> QED
  BY <1>1, <1>2, <1>3, <1>4

-----------------------------------------------------------------------------
Asked == [at : Spots, timer : Timers, items : Replies, final : BOOLEAN, rounds : 0..MaxRepolls]

CallTyped == /\ call \in Calls /\ handle \in BOOLEAN
             /\ \E n \in Nat : req \in [1..n -> Asked] /\ partials \subseteq 0..n

\* An entry of a reply more, while there is room.
LEMMA RepliesGrow ==
    /\ <<>> \in Replies
    /\ \A s \in Replies : Len(s) \in Nat
    /\ \A s \in Replies, b \in BOOLEAN : Len(s) < MaxItems => Append(s, b) \in Replies
<1>1. <<>> \in Replies
  <2>1. <<>> \in [1..0 -> BOOLEAN] /\ 0 \in 0..MaxItems
    BY WebCallsAssumption
  <2> QED
    BY <2>1 DEF Replies
<1>2. ASSUME NEW s \in Replies, NEW b \in BOOLEAN
      PROVE  Len(s) \in Nat /\ (Len(s) < MaxItems => Append(s, b) \in Replies)
  <2>1. PICK k \in 0..MaxItems : s \in [1..k -> BOOLEAN]
    BY DEF Replies
  <2>2. s \in Seq(BOOLEAN) /\ Len(s) = k
    BY <2>1
  <2> DEFINE t == Append(s, b)
  <2>3. k \in Nat /\ t \in Seq(BOOLEAN) /\ Len(t) = k + 1
    BY <2>2
  <2> HIDE DEF t
  <2>4. t \in [1..(k + 1) -> BOOLEAN]
    BY <2>3
  <2>5. ASSUME k < MaxItems
        PROVE  t \in Replies
    <3>1. k + 1 \in 0..MaxItems
      BY <2>5, WebCallsAssumption
    <3> QED
      BY <2>4, <3>1 DEF Replies
  <2> QED
    BY <2>2, <2>5 DEF t
<1> QED
  BY <1>1, <1>2

LEMMA AskedIs ==
    ASSUME CallTyped, NEW r \in DOMAIN req
    PROVE  /\ req[r] \in Asked /\ req[r].at \in Spots /\ req[r].timer \in Timers
           /\ req[r].items \in Replies /\ req[r].final \in BOOLEAN /\ req[r].rounds \in 0..MaxRepolls
           /\ r \in Nat
  BY DEF CallTyped, Asked

LEMMA AskedPut ==
    ASSUME CallTyped, NEW r \in DOMAIN req, NEW x \in Asked, req' = [req EXCEPT ![r] = x],
           call' = call, partials' = partials, handle' \in BOOLEAN
    PROVE  CallTyped'
<1>1. PICK n \in Nat : req \in [1..n -> Asked] /\ partials \subseteq 0..n
  BY DEF CallTyped
<1>2. req' \in [1..n -> Asked]
  BY <1>1
<1>3. call' \in Calls
  BY DEF CallTyped
<1> QED
  BY <1>1, <1>2, <1>3 DEF CallTyped, Asked

\* A request goes on, or is left.
LEMMA AskedGoes ==
    ASSUME CallTyped, NEW r \in DOMAIN req, NEW spot \in Spots, call' = call, partials' = partials,
           handle' \in BOOLEAN, Move(r, spot) \/ Leave(r, spot)
    PROVE  CallTyped'
<1>1. req[r] \in Asked
  BY AskedIs
<1>2. CASE Move(r, spot)
  <2> DEFINE x == [req[r] EXCEPT !.at = spot]
  <2>1. x \in Asked
    BY <1>1 DEF Asked
  <2>2. req' = [req EXCEPT ![r] = x]
    BY <1>2 DEF Move
  <2> HIDE DEF x
  <2> QED
    BY <2>1, <2>2, AskedPut
<1>3. CASE Leave(r, spot)
  <2> DEFINE x == [req[r] EXCEPT !.at = spot, !.timer = "off"]
  <2>1. x \in Asked
    BY <1>1 DEF Asked, Timers
  <2>2. req' = [req EXCEPT ![r] = x]
    BY <1>3 DEF Leave
  <2> HIDE DEF x
  <2> QED
    BY <2>1, <2>2, AskedPut
<1> QED
  BY <1>2, <1>3

LEMMA ReplyTyped ==
    ASSUME CallTyped, NEW r \in DOMAIN req, NEW s \in Replies, NEW spot \in Spots, call' = call,
           partials' = partials, handle' \in BOOLEAN, LeaveWith(r, spot, s)
    PROVE  CallTyped'
<1> DEFINE x == [req[r] EXCEPT !.at = spot, !.timer = "off", !.items = s, !.final = TRUE]
<1>1. x \in Asked
  BY AskedIs DEF Asked, Timers
<1>2. req' = [req EXCEPT ![r] = x]
  BY DEF LeaveWith
<1> HIDE DEF x
<1> QED
  BY <1>1, <1>2, AskedPut

LEMMA AfterSpots == \A s : After(s) \subseteq Spots
  BY DEF After, Spots

LEMMA RequestTypesKept ==
    ASSUME CallTyped, NEW r \in DOMAIN req, RequestStep(r)
    PROVE  CallTyped'
<1>1. /\ handle \in BOOLEAN /\ call.poll \in BOOLEAN
      /\ req[r] \in Asked /\ req[r].items \in Replies /\ req[r].rounds \in 0..MaxRepolls
      /\ MaxRepolls \in Nat
  BY AskedIs, WebCallsAssumption DEF CallTyped, Calls
<1>2. CASE \/ Refuse(r) \/ SendRequest(r) \/ Abort(r) \/ ReplyFails(r) \/ ReplyArrives(r)
           \/ StreamOpens(r) \/ BodyHasTaskId(r) \/ FalEnqueued(r) \/ StreamEnds(r)
           \/ StreamBreaks(r) \/ PollRefused(r) \/ Downloaded(r) \/ DownloadFails(r)
  <2>1. \E spot \in Spots : Move(r, spot) \/ Leave(r, spot)
    BY <1>2, AfterSpots DEF Refuse, SendRequest, Abort, ReplyFails, ReplyArrives, StreamOpens,
       BodyHasTaskId, FalEnqueued, StreamEnds, StreamBreaks, PollRefused, Downloaded,
       DownloadFails, Spots
  <2>2. call' = call /\ partials' = partials /\ handle' \in BOOLEAN
    BY <1>1, <1>2 DEF Refuse, SendRequest, Abort, ReplyFails, ReplyArrives, StreamOpens,
       BodyHasTaskId, FalEnqueued, StreamEnds, StreamBreaks, PollRefused, Downloaded,
       DownloadFails
  <2> QED
    BY <2>1, <2>2, AskedGoes
<1>3. CASE TimerFires(r)
  <2> DEFINE x == [req[r] EXCEPT !.timer = "fired"]
  <2>1. x \in Asked
    BY <1>1 DEF Asked, Timers
  <2>2. req' = [req EXCEPT ![r] = x] /\ UNCHANGED <<call, partials, handle, answer>>
    BY <1>3 DEF TimerFires
  <2> HIDE DEF x
  <2> QED
    BY <1>1, <2>1, <2>2, AskedPut
<1>4. CASE StreamPartial(r)
  <2>1. PICK n \in Nat : req \in [1..n -> Asked] /\ partials \subseteq 0..n
    BY DEF CallTyped
  <2>2. partials' \subseteq 0..n
    BY <1>4, <2>1 DEF StreamPartial
  <2>3. req' \in [1..n -> Asked] /\ call' \in Calls /\ handle' \in BOOLEAN
    BY <1>4, <2>1 DEF StreamPartial, CallTyped
  <2> QED
    BY <2>1, <2>2, <2>3 DEF CallTyped, Asked
<1>5. CASE PollAgain(r)
  <2> DEFINE x == [req[r] EXCEPT !.rounds = @ + 1]
  <2>1. req' = [req EXCEPT ![r] = x] /\ UNCHANGED <<call, partials, handle, answer>>
        /\ req[r].rounds < MaxRepolls
    BY <1>5 DEF PollAgain
  <2>2. x \in Asked
    BY <1>1, <2>1 DEF Asked
  <2> HIDE DEF x
  <2> QED
    BY <1>1, <2>1, <2>2, AskedPut
<1>6. CASE DownloadRetried(r)
  <2> DEFINE x == [req[r] EXCEPT !.at = "polling", !.items = <<>>, !.final = FALSE, !.rounds = @ + 1]
  <2>1. req' = [req EXCEPT ![r] = x] /\ UNCHANGED <<call, partials, handle, answer>>
        /\ req[r].rounds < MaxRepolls
    BY <1>6 DEF DownloadRetried
  <2>2. <<>> \in Replies /\ req[r].rounds + 1 \in 0..MaxRepolls /\ "polling" \in Spots
    BY <1>1, <2>1, RepliesGrow DEF Spots
  <2> DEFINE none == <<>>
  <2> HIDE DEF none
  <2>3. [req[r] EXCEPT !.at = "polling", !.items = none, !.final = FALSE, !.rounds = @ + 1] \in Asked
    BY <1>1, <2>2 DEF Asked, none
  <2>4. x \in Asked
    BY <2>3 DEF none
  <2> HIDE DEF x
  <2> QED
    BY <1>1, <2>1, <2>4, AskedPut
<1>7. ASSUME NEW b \in BOOLEAN, StreamItem(r, b)
      PROVE  CallTyped'
  <2> DEFINE s == Append(req[r].items, b)
             x == [req[r] EXCEPT !.items = s]
  <2>1. req' = [req EXCEPT ![r] = x] /\ UNCHANGED <<call, partials, handle, answer>>
        /\ Len(req[r].items) < MaxItems
    BY <1>7 DEF StreamItem
  <2>2. s \in Replies
    BY <1>1, <2>1, RepliesGrow
  <2> HIDE DEF s
  <2>3. x \in Asked
    BY <1>1, <2>2 DEF Asked
  <2> HIDE DEF x
  <2> QED
    BY <1>1, <2>1, <2>3, AskedPut
<1>8. ASSUME NEW s \in Replies, BodyHasImages(r, s) \/ PollSucceeds(r, s)
      PROVE  CallTyped'
  <2>1. PICK spot \in Spots : LeaveWith(r, spot, s)
    BY <1>8, AfterSpots DEF BodyHasImages, PollSucceeds
  <2>2. call' = call /\ partials' = partials /\ handle' \in BOOLEAN
    BY <1>1, <1>8 DEF BodyHasImages, PollSucceeds
  <2> QED
    BY <2>1, <2>2, ReplyTyped
<1>9. ASSUME NEW s \in Replies, StreamResult(r, s)
      PROVE  CallTyped'
  <2> DEFINE final == call.kind = "images" \/ TRUE \in Range(s)
             t == IF call.kind = "responses" /\ TRUE \notin Range(s) THEN req[r].items ELSE s
             x == [req[r] EXCEPT !.final = final, !.items = t]
  <2>1. req' = [req EXCEPT ![r] = x] /\ UNCHANGED <<call, partials, handle, answer>>
    BY <1>9 DEF StreamResult
  <2>2. final \in BOOLEAN /\ t \in Replies
    BY <1>1
  <2> HIDE DEF final, t
  <2>3. x \in Asked
    BY <1>1, <2>2 DEF Asked
  <2> HIDE DEF x
  <2> QED
    BY <1>1, <2>1, <2>3, AskedPut
<1> QED
  BY <1>2, <1>3, <1>4, <1>5, <1>6, <1>7, <1>8, <1>9 DEF RequestStep

LEMMA CallTypes ==
    /\ CallInit => CallTyped
    /\ CallTyped /\ [CallNext]_callVars => CallTyped'
    /\ CallTyped => CallTypeOK
<1>1. ASSUME CallInit PROVE CallTyped
  <2>1. req = [r \in 1..Count(call) |-> Start(call)] /\ call \in Calls /\ partials = {}
        /\ handle \in BOOLEAN
    BY <1>1 DEF CallInit
  <2>2. Count(call) \in Nat
    BY <2>1, WebCallsAssumption DEF Count, Calls
  <2>3. Start(call) \in Asked
    <3>1. 0 \in 0..MaxRepolls
      BY WebCallsAssumption
    <3> QED
      BY <3>1, RepliesGrow DEF Start, Asked, Spots, Timers
  <2>4. req \in [1..Count(call) -> Asked]
    BY <2>1, <2>3
  <2> QED
    BY <2>1, <2>2, <2>4 DEF CallTyped
<1>2. ASSUME CallTyped, Settle \/ UNCHANGED callVars
      PROVE  CallTyped'
  BY <1>2 DEF Settle, callVars, CallTyped, Asked
<1>3. ASSUME CallTyped
      PROVE  CallTypeOK
  <2>1. PICK n \in Nat : req \in [1..n -> Asked] /\ partials \subseteq 0..n
    BY <1>3 DEF CallTyped
  <2>2. Len(req) = n
    BY <2>1
  <2>3. call \in Calls /\ handle \in BOOLEAN /\ partials \subseteq 0..Len(req)
    BY <1>3, <2>1, <2>2 DEF CallTyped
  <2> QED
    BY <1>3, <2>3, AskedIs DEF CallTypeOK, Spots, Timers
<1> QED
  BY <1>1, <1>2, <1>3, RequestTypesKept DEF CallNext

-----------------------------------------------------------------------------
\* Each part keeps the types of its own variables, and a step is one part's.
ClientTyped == HostedTyped /\ AgentTyped /\ DraftsTyped /\ CallTyped
Focused     == focus \in {"hosted", "agent", "drafts", "calls"}

LEMMA PartsMove ==
    ASSUME [ClientNext]_clientVars
    PROVE  /\ [HostedNext]_hostedVars /\ [AgentNext]_agentVars
           /\ [DraftsNext]_draftVars /\ [CallNext]_callVars /\ UNCHANGED focus
<1>1. CASE UNCHANGED clientVars
  BY <1>1 DEF clientVars
<1>2. CASE ClientNext
  BY <1>2, Zenon DEF ClientNext
<1> QED
  BY <1>1, <1>2

\* In every state of the four parts, each variable has a value the page or a
\* request can hold: no poll, answer, deletion, reload, late write or reply
\* counts past its bound or leaves a half-made record (pollImageflowTask,
\* executeAgentRound, flushAgentConversationsToIndexedDB, callImageApi).
THEOREM ClientTypesHold == ClientSpec => []ClientTypeOK
<1>1. ClientInit => ClientTyped /\ Focused
  <2>1. ClientInit => HostedInit /\ AgentInit /\ DraftsInit /\ CallInit /\ Focused
    BY DEF ClientInit, Focused
  <2> QED
    BY <2>1, HostedTypes, AgentTypes, DraftsTypes, CallTypes, Zenon DEF ClientTyped
<1>2. ClientTyped /\ Focused /\ [ClientNext]_clientVars => (ClientTyped /\ Focused)'
  <2> SUFFICES ASSUME ClientTyped, Focused, [ClientNext]_clientVars
               PROVE  (ClientTyped /\ Focused)'
    OBVIOUS
  <2>1. /\ [HostedNext]_hostedVars /\ [AgentNext]_agentVars
        /\ [DraftsNext]_draftVars /\ [CallNext]_callVars /\ UNCHANGED focus
    BY PartsMove
  <2>2. ClientTyped'
    BY <2>1, HostedTypes, AgentTypes, DraftsTypes, CallTypes, Zenon DEF ClientTyped
  <2>3. Focused'
    BY <2>1 DEF Focused
  <2> QED
    BY <2>2, <2>3
<1>3. ClientTyped /\ Focused => ClientTypeOK
  <2>1. ClientTyped => HostedTypeOK /\ AgentTypeOK /\ DraftsTypeOK /\ CallTypeOK
    BY AgentTypes, DraftsTypes, CallTypes, Zenon DEF ClientTyped, HostedTyped
  <2> QED
    BY <2>1 DEF Focused, ClientTypeOK
<1> QED
  BY <1>1, <1>2, <1>3, PTL DEF ClientSpec

\* A step of the run is a step of one part and leaves the others alone, so
\* that the run follows the specification of each.
LEMMA RunFollowsParts == ClientSpec => HostedSpec /\ AgentSpec /\ DraftsSpec /\ CallSpec
<1>1. ClientInit => HostedInit /\ AgentInit /\ DraftsInit /\ CallInit
  BY DEF ClientInit
<1>2. [ClientNext]_clientVars
        => /\ [HostedNext]_hostedVars /\ [AgentNext]_agentVars
           /\ [DraftsNext]_draftVars /\ [CallNext]_callVars
  BY PartsMove
<1> QED
  BY <1>1, <1>2, PTL DEF ClientSpec, HostedSpec, AgentSpec, DraftsSpec, CallSpec

\* What the run checks of the four parts together: the page shows of an asset
\* what the server once said, running rounds are executed and form a tree,
\* what was typed is kept, conversations at rest are stored, and images keep
\* their prompts (store.ts, lib/openaiCompatibleImageApi.ts, lib/falAiImageApi.ts).
THEOREM ClientRunHolds ==
    OneAtATime /\ QuietStart /\ EveryItemHasImage
        => (ClientSpec => []( /\ ShownWasServers /\ RunningIsExecuted /\ RoundsAreATree
                              /\ TypedIsKept /\ ConversationsAreStored
                              /\ ImagesKeepTheirPrompts ))
<1> SUFFICES ASSUME OneAtATime, QuietStart, EveryItemHasImage
             PROVE  ClientSpec => []( /\ ShownWasServers /\ RunningIsExecuted /\ RoundsAreATree
                                      /\ TypedIsKept /\ ConversationsAreStored
                                      /\ ImagesKeepTheirPrompts )
  OBVIOUS
<1>1. HostedSpec => []ShownWasServers
  BY ShownWasOnceTrue
<1>2. AgentSpec => []RunningIsExecuted /\ []RoundsAreATree
  BY RunningHolds, TreeHolds
<1>3. DraftsSpec => []TypedIsKept /\ []ConversationsAreStored
  BY TypedHolds, ConversationsWereStored
<1>4. CallSpec => []ImagesKeepTheirPrompts
  BY PromptsHold
<1> QED
  BY <1>1, <1>2, <1>3, <1>4, RunFollowsParts, PTL

=============================================================================
