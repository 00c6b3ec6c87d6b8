------------------------------ MODULE WebThumbs ------------------------------
(***************************************************************************)
(* Thumbnails of the web client (store.ts and lib/db.ts): a card asks for  *)
(* the thumbnail of its image; one that is missing in IndexedDB is queued, *)
(* made in idle time by a few jobs at once, cached and announced to the    *)
(* cards that subscribed.  Images are stored, deleted and forgotten while  *)
(* all this is under way.                                                  *)
(*                                                                         *)
(* The queue keeps insertion order in the code; here any order is taken,   *)
(* visible images before the others.                                       *)
(***************************************************************************)
EXTENDS Naturals, Sequences, SequencesExt, FiniteSets

CONSTANTS
    Pictures,       \* ids of images
    Viewers,        \* cards and covers, as <<picture, number>>
    MaxConcurrent,  \* MAX_THUMBNAIL_BACKFILL_CONCURRENT
    MaxCached,      \* MAX_THUMBNAIL_CACHE_ENTRIES
    MaxQueued,      \* MAX_BACKGROUND_THUMBNAIL_BACKFILL_QUEUE
    MaxBackground,  \* MAX_BACKGROUND_THUMBNAIL_BACKFILLS_PER_SESSION
    MaxPicks,       \* bound on the selections under way
    MaxJobs         \* bound on the jobs of one picture

ASSUME WebThumbsAssumption ==
    /\ \A v \in Viewers : v[1] \in Pictures
    /\ MaxConcurrent \in Nat \ {0} /\ MaxCached \in Nat
    /\ MaxQueued \in Nat /\ MaxBackground \in Nat /\ MaxPicks \in Nat /\ MaxJobs \in Nat

VARIABLES
    pictures,   \* ids in the images store
    thumbs,     \* ids with a thumbnail of the current version in the store
    cached,     \* thumbnailCache, the oldest first
    viewer,     \* the effect of each card
    listeners,  \* thumbnailSubscribers
    queue,      \* thumbnailBackfillIds
    scheduled,  \* thumbnailBackfillScheduled
    picks,      \* getNextThumbnailBackfillBatch under way, with its candidates
    making,     \* thumbnailBackfillRunningIds
    jobs,       \* startThumbnailBackfill under way: reading, then drawing
    spent       \* backgroundThumbnailBackfillsStarted

thumbVars == <<pictures, thumbs, cached, viewer, listeners, queue, scheduled,
               picks, making, jobs, spent>>

Cached(i)   == Contains(cached, i)
Queued(p)   == {i \in Pictures : queue[i] = p}
Waiting     == Queued("visible") \cup Queued("background")
Jobs(i)     == jobs[i].reading + jobs[i].drawing
Of(v)       == v[1]

ThumbsInit ==
    /\ pictures = Pictures /\ thumbs = {}
    /\ cached = <<>>
    /\ viewer = [v \in Viewers |-> "none"] /\ listeners = {}
    /\ queue = [i \in Pictures |-> "no"] /\ scheduled = FALSE
    /\ picks = [n \in 1..MaxPicks |-> {}]
    /\ making = {} /\ jobs = [i \in Pictures |-> [reading |-> 0, drawing |-> 0]]
    /\ spent = 0

-----------------------------------------------------------------------------
(* Caching and queueing. *)

\* thumbnailCache.delete: a Map has at most one entry of a key.
Without(c, i) ==
    IF Contains(c, i) THEN RemoveAt(c, CHOOSE n \in 1..Len(c) : c[n] = i) ELSE c

\* Mutant: a full cache keeps the oldest.
CachingAll(c, i) == Append(Without(c, i), i)

\* cacheThumbnail: the newest last, the oldest out.
Caching(c, i) ==
    LET moved == Append(Without(c, i), i)
    IN  SubSeq(moved, 1 + (IF Len(moved) > MaxCached THEN Len(moved) - MaxCached ELSE 0),
               Len(moved))

\* scheduleThumbnailBackfillTick.
Ticking(q) == scheduled \/ \E i \in Pictures : q[i] # "no"

\* scheduleThumbnailBackfill for one visible picture, and for a set of others,
\* of which MaxQueued at most are queued.
QueueVisible(i) ==
    /\ queue' = IF Cached(i) \/ i \in making THEN queue ELSE [queue EXCEPT ![i] = "visible"]
    /\ scheduled' = Ticking(queue')

QueueBackground(S) ==
    /\ \E T \in SUBSET {i \in S : ~Cached(i) /\ i \notin making /\ queue[i] = "no"} :
         /\ Cardinality(T \cup Queued("background")) <= MaxQueued
         /\ queue' = [i \in Pictures |-> IF i \in T THEN "background" ELSE queue[i]]
    /\ scheduled' = Ticking(queue')

-----------------------------------------------------------------------------
(* A card's effect: subscribeImageThumbnail and ensureImageThumbnailCached. *)

Mount(v) ==
    /\ viewer[v] = "none" /\ Of(v) \in pictures
    /\ IF Cached(Of(v))
       THEN viewer' = [viewer EXCEPT ![v] = "shown"] /\ cached' = Caching(cached, Of(v))
       ELSE viewer' = [viewer EXCEPT ![v] = "reading"] /\ UNCHANGED cached
    /\ listeners' = listeners \cup {v}
    /\ UNCHANGED <<pictures, thumbs, queue, scheduled, picks, making, jobs, spent>>

\* The stored thumbnail is read; without one the picture is queued, for a
\* card that has gone as well.
EnsureRead(v) ==
    /\ viewer[v] \in {"reading", "gone"}
    /\ IF Of(v) \in thumbs
       THEN /\ cached' = Caching(cached, Of(v))
            /\ viewer' = [viewer EXCEPT ![v] = IF @ = "gone" THEN "none" ELSE "shown"]
            /\ UNCHANGED <<queue, scheduled>>
       ELSE /\ QueueVisible(Of(v))
            /\ viewer' = [viewer EXCEPT ![v] = IF @ = "gone" THEN "none" ELSE "waiting"]
            /\ UNCHANGED cached
    /\ UNCHANGED <<pictures, thumbs, listeners, picks, making, jobs, spent>>

Unmount(v) ==
    /\ viewer[v] \in {"reading", "waiting", "shown", "empty"}
    /\ viewer' = [viewer EXCEPT ![v] = IF @ = "reading" THEN "gone" ELSE "none"]
    /\ listeners' = listeners \ {v}
    /\ UNCHANGED <<pictures, thumbs, cached, queue, scheduled, picks, making, jobs, spent>>

-----------------------------------------------------------------------------
(* The backfill. *)

\* Start-up and import queue what they have stored.
Background ==
    /\ QueueBackground(pictures)
    /\ UNCHANGED <<pictures, thumbs, cached, viewer, listeners, picks, making, jobs, spent>>

\* getOrderedThumbnailBackfillIds, cut to MaxConcurrent.
Candidates ==
    LET eligible == Queued("visible") \cup (IF spent < MaxBackground THEN Queued("background") ELSE {})
    IN  {C \in SUBSET eligible :
            /\ Cardinality(C) = IF Cardinality(eligible) < MaxConcurrent
                                THEN Cardinality(eligible) ELSE MaxConcurrent
            /\ C \subseteq Queued("visible") \/ Queued("visible") \subseteq C}

\* processNextThumbnailBackfill: nothing while a job runs; without candidates
\* the queue is looked at again later.
Tick ==
    /\ scheduled
    /\ IF making # {} THEN scheduled' = FALSE /\ UNCHANGED picks
       ELSE \E C \in Candidates :
              IF C = {} THEN UNCHANGED picks /\ scheduled' = (Waiting # {})
              ELSE \E n \in 1..MaxPicks :
                     /\ picks[n] = {} /\ \A m \in 1..(n - 1) : picks[m] # {}
                     /\ picks' = [picks EXCEPT ![n] = C]
                     /\ scheduled' = FALSE
    /\ UNCHANGED <<pictures, thumbs, cached, viewer, listeners, queue, making, jobs, spent>>

\* The sizes of the candidates are read and allow a number of jobs.  A cached
\* picture's job ends at once.  Candidates counted as background ones when
\* they were read are counted so still.
Picked(n) ==
    /\ picks[n] # {}
    /\ \E S \in SUBSET picks[n] :
         /\ S # {}
         /\ S \subseteq Queued("visible") \/ (picks[n] \cap Queued("visible")) \subseteq S
         /\ \A i \in S : Jobs(i) < MaxJobs
         /\ queue' = [i \in Pictures |-> IF i \in S THEN "no" ELSE queue[i]]
         /\ making' = (making \cup S) \ {i \in S : Cached(i)}
         /\ jobs' = [i \in Pictures |-> IF i \in S /\ ~Cached(i)
                                        THEN [jobs[i] EXCEPT !.reading = @ + 1] ELSE jobs[i]]
         /\ \E k \in 0..Cardinality(S \ Queued("visible")) :
              spent' = IF spent + k > MaxBackground THEN MaxBackground ELSE spent + k
    /\ picks' = [picks EXCEPT ![n] = {}]
    /\ scheduled' = Ticking(queue')
    /\ UNCHANGED <<pictures, thumbs, cached, viewer, listeners>>

\* Mutant: the end of a job does not look at the queue.
JobEndsQuietly(i, stage) ==
    /\ jobs' = [jobs EXCEPT ![i][stage] = @ - 1]
    /\ making' = making \ {i}
    /\ UNCHANGED scheduled

\* The finally block of startThumbnailBackfill.
JobEnds(i, stage) ==
    /\ jobs' = [jobs EXCEPT ![i][stage] = @ - 1]
    /\ making' = making \ {i}
    /\ scheduled' = Ticking(queue)

\* cacheThumbnail and notifyImageThumbnail.
Announce(i) ==
    /\ cached' = Caching(cached, i)
    /\ viewer' = [v \in Viewers |-> IF Of(v) = i /\ v \in listeners THEN "shown" ELSE viewer[v]]

\* Nobody is told that a thumbnail could not be made: the cards that wait keep
\* their placeholder.
GiveUp(i) ==
    /\ viewer' = [v \in Viewers |-> IF Of(v) = i /\ viewer[v] = "waiting" THEN "empty" ELSE viewer[v]]
    /\ UNCHANGED cached

\* getImageThumbnail: a stored thumbnail, no picture, or one to be drawn.
JobReads(i) ==
    /\ jobs[i].reading > 0
    /\ IF i \in thumbs THEN Announce(i) /\ JobEnds(i, "reading")
       ELSE IF i \notin pictures
       THEN GiveUp(i) /\ JobEnds(i, "reading")
       ELSE /\ jobs' = [jobs EXCEPT ![i] = [reading |-> @.reading - 1, drawing |-> @.drawing + 1]]
            /\ UNCHANGED <<cached, viewer, making, scheduled>>
    /\ UNCHANGED <<pictures, thumbs, listeners, queue, picks, spent>>

\* The thumbnail is written, and with it the picture if its size was unknown,
\* even if it was deleted meanwhile.
JobDraws(i) ==
    /\ jobs[i].drawing > 0
    /\ thumbs' = thumbs \cup {i}
    /\ pictures' \in {pictures, pictures \cup {i}}
    /\ Announce(i)
    /\ JobEnds(i, "drawing")
    /\ UNCHANGED <<listeners, queue, picks, spent>>

JobFails(i) ==
    /\ jobs[i].drawing > 0
    /\ GiveUp(i)
    /\ JobEnds(i, "drawing")
    /\ UNCHANGED <<pictures, thumbs, listeners, queue, picks, spent>>

-----------------------------------------------------------------------------
(* Pictures come and go. *)

\* storeImageWithSize: with a thumbnail, or without if it cannot be drawn.
StorePicture(i) ==
    /\ i \notin thumbs
    /\ pictures' = pictures \cup {i}
    /\ thumbs' \in {thumbs, thumbs \cup {i}}
    /\ UNCHANGED <<cached, viewer, listeners, queue, scheduled, picks, making, jobs, spent>>

Drop(i) == Without(cached, i)

\* deleteImageIfUnreferenced: the picture is forgotten here although a card
\* may show it; it is deleted if nothing refers to it.
Forget(i) ==
    /\ i \in pictures
    /\ cached' = Drop(i)
    /\ queue' = [queue EXCEPT ![i] = "no"]
    /\ making' = making \ {i}
    /\ listeners' = {v \in listeners : Of(v) # i}
    /\ \/ pictures' = pictures \ {i} /\ thumbs' = thumbs \ {i}
       \/ UNCHANGED <<pictures, thumbs>>
    /\ UNCHANGED <<viewer, scheduled, picks, jobs, spent>>

\* deleteImage for a picture no task shows any more.
DeletePicture(i) ==
    /\ i \in pictures /\ \A v \in Viewers : Of(v) = i => viewer[v] \in {"none", "gone"}
    /\ pictures' = pictures \ {i} /\ thumbs' = thumbs \ {i}
    /\ cached' = Drop(i)
    /\ UNCHANGED <<viewer, listeners, queue, scheduled, picks, making, jobs, spent>>

-----------------------------------------------------------------------------
ThumbsNext ==
    \/ \E v \in Viewers : Mount(v) \/ EnsureRead(v) \/ Unmount(v)
    \/ Background \/ Tick
    \/ \E n \in 1..MaxPicks : Picked(n)
    \/ \E i \in Pictures :
         \/ JobReads(i) \/ JobDraws(i) \/ JobFails(i)
         \/ StorePicture(i) \/ Forget(i) \/ DeletePicture(i)

ThumbsSpec == ThumbsInit /\ [][ThumbsNext]_thumbVars

-----------------------------------------------------------------------------
(* Properties *)

ThumbsTypeOK ==
    /\ pictures \subseteq Pictures /\ thumbs \subseteq Pictures
    /\ cached \in Seq(Pictures) /\ Len(cached) <= MaxCached
    /\ viewer \in [Viewers -> {"none", "reading", "gone", "waiting", "shown", "empty"}]
    /\ listeners \subseteq Viewers
    /\ queue \in [Pictures -> {"no", "visible", "background"}]
    /\ scheduled \in BOOLEAN
    /\ picks \in [1..MaxPicks -> SUBSET Pictures]
    /\ making \subseteq {i \in Pictures : Jobs(i) > 0}
    /\ jobs \in [Pictures -> [reading: 0..MaxJobs, drawing: 0..MaxJobs]]
    /\ spent \in 0..MaxBackground

\* No wakeup of the backfill is lost: a queued picture has a tick, a selection
\* or a job ahead that looks at the queue again, and a card that still listens
\* for a missing thumbnail has its picture queued or in a job, unless the
\* thumbnail could not be made.
QueueIsServed ==
    /\ Waiting # {} => \/ scheduled
                       \/ \E n \in 1..MaxPicks : picks[n] # {}
                       \/ \E i \in Pictures : Jobs(i) > 0
    /\ \A v \in listeners :
         (viewer[v] = "waiting" /\ Of(v) \in pictures \ thumbs) =>
            Of(v) \in Waiting \/ Jobs(Of(v)) > 0

=============================================================================
