-------------------------------- MODULE WebCalls --------------------------------
(***************************************************************************)
(* One call of an image provider from the browser (api.ts,                 *)
(* openaiCompatibleImageApi.ts, falAiImageApi.ts, imageApiShared.ts).  The *)
(* call becomes one or several HTTP requests, each of which is refused,    *)
(* sent, answered by a body, a stream or a job to poll, and perhaps        *)
(* downloads the images it was given links to.  When every request has     *)
(* settled, the results are joined into one answer.                        *)
(*                                                                         *)
(* An image is <<request, item>>: the item of the reply it came in.  The   *)
(* details of an image are the actual parameters and the revised prompt    *)
(* that the answer lists beside it.                                        *)
(***************************************************************************)
EXTENDS Naturals, Sequences, FiniteSets, SequencesExt

CONSTANTS
    Counts,             \* the numbers of images asked for
    EveryItemHasImage,  \* TRUE: every completed event of an image stream carries an image
    MaxItems,           \* bound on the items of one reply
    MaxRepolls           \* bound on the fruitless polls of a job

ASSUME WebCallsAssumption ==
    /\ Counts \subseteq Nat \ {0}
    /\ EveryItemHasImage \in BOOLEAN
    /\ MaxItems \in Nat \ {0} /\ MaxRepolls \in Nat

VARIABLES
    call,       \* what is called: provider, count, switches of the profile
    req,        \* the requests of the call
    partials,   \* the request indices partial images were shown under
    handle,     \* the job id was reported to the task
    answer      \* what the call returned, or NoAnswer

callVars == <<call, req, partials, handle, answer>>
--------------------------------------------------------------------------------
Kinds == {"images", "responses", "custom", "fal", "customJob", "falJob"}
Calls == [kind : Kinds, n : Counts, codexCli : BOOLEAN, streamImages : BOOLEAN,
          taskIdPath : BOOLEAN, poll : BOOLEAN, tooLarge : BOOLEAN]
NoAnswer == [returned |-> FALSE]

(* A reply: for each of its items, whether there is an image in it. *)
Replies == UNION {[1..k -> BOOLEAN] : k \in 0..MaxItems}

Fanned == \/ call.kind = "images" /\ call.n > 1 /\ (call.codexCli \/ call.streamImages)
          \/ call.kind = "responses" /\ call.n > 1
JobKinds == {"customJob", "falJob"}
Count(c) == IF \/ c.kind = "images" /\ (c.codexCli \/ c.streamImages)
               \/ c.kind = "responses"
            THEN c.n ELSE 1

(* fal's SDK has no time limit of ours; a job that is only polled has none either. *)
Start(c) == [at    |-> IF c.kind \in JobKinds THEN "polling" ELSE "preparing",
             timer |-> IF c.kind \in {"images", "responses", "custom"} THEN "on" ELSE "off",
             items |-> <<>>, final |-> FALSE, rounds |-> 0]

CallInit ==
    /\ call \in Calls
    /\ call.tooLarge => call.kind \notin JobKinds
    /\ req = [r \in 1..Count(call) |-> Start(call)]
    /\ partials = {} /\ handle = (call.kind \in JobKinds) /\ answer = NoAnswer

ReqAt(r, places) == req[r].at \in places
Move(r, place) == req' = [req EXCEPT ![r].at = place]
(* The finally block of a request that leaves it, one way or another; final
   says that a reply came as a whole. *)
Leave(r, place) == req' = [req EXCEPT ![r].at = place, ![r].timer = "off"]
LeaveWith(r, place, s) ==
    req' = [req EXCEPT ![r].at = place, ![r].timer = "off", ![r].items = s, ![r].final = TRUE]
--------------------------------------------------------------------------------
(* Size limits of inputs and mask, and the proxy's refusal of polled jobs. *)
Refuse(r) ==
    /\ ReqAt(r, {"preparing"}) /\ call.tooLarge
    /\ Leave(r, "failed")
    /\ UNCHANGED <<call, partials, handle, answer>>

SendRequest(r) ==
    /\ ReqAt(r, {"preparing"}) /\ ~call.tooLarge /\ req[r].timer # "fired"
    /\ Move(r, "sent")
    /\ UNCHANGED <<call, partials, handle, answer>>

TimerFires(r) ==
    /\ req[r].timer = "on"
    /\ req' = [req EXCEPT ![r].timer = "fired"]
    /\ UNCHANGED <<call, partials, handle, answer>>

(* fetch and response.json() reject when the signal is aborted. *)
Abort(r) ==
    /\ req[r].timer = "fired" /\ ReqAt(r, {"preparing", "sent", "body"})
    /\ Leave(r, "failed")
    /\ UNCHANGED <<call, partials, handle, answer>>

ReplyFails(r) ==
    /\ ReqAt(r, {"sent", "body"}) /\ req[r].timer # "fired"
    /\ Leave(r, "failed")
    /\ UNCHANGED <<call, partials, handle, answer>>

ReplyArrives(r) ==
    /\ ReqAt(r, {"sent"}) /\ call.kind # "fal" /\ req[r].timer # "fired"
    /\ Move(r, "body")
    /\ UNCHANGED <<call, partials, handle, answer>>

(* The stream's promise is returned, not awaited: the finally block clears the
   timer as soon as the stream is open. *)
StreamOpens(r) ==
    /\ ReqAt(r, {"sent"}) /\ call.kind \in {"images", "responses"} /\ call.streamImages
    /\ req[r].timer # "fired"
    /\ Leave(r, "streaming")
    /\ UNCHANGED <<call, partials, handle, answer>>

(* Whether the images still have to be downloaded is the provider's choice. *)
After(s) == IF TRUE \in Range(s) THEN {"done", "downloading"} ELSE {"failed"}

BodyHasImages(r, s) ==
    /\ ReqAt(r, {"body"}) /\ req[r].timer # "fired"
    /\ call.kind = "custom" => ~call.taskIdPath
    /\ \E place \in After(s) :
         /\ call.kind = "responses" => place # "downloading"
         /\ LeaveWith(r, place, s)
    /\ UNCHANGED <<call, partials, handle, answer>>

BodyHasTaskId(r) ==
    /\ ReqAt(r, {"body"}) /\ req[r].timer # "fired"
    /\ call.kind = "custom" /\ call.taskIdPath
    /\ handle' = call.poll
    /\ Leave(r, IF call.poll THEN "polling" ELSE "failed")
    /\ UNCHANGED <<call, partials, answer>>

(* fal.subscribe reports the request id when the request is enqueued ... *)
FalEnqueued(r) ==
    /\ ReqAt(r, {"sent"}) /\ call.kind = "fal"
    /\ handle' = TRUE
    /\ Move(r, "polling")
    /\ UNCHANGED <<call, partials, answer>>
--------------------------------------------------------------------------------
(* The index is only given by the calls that fan out; 0 stands for none. *)
StreamPartial(r) ==
    /\ ReqAt(r, {"streaming"})
    /\ partials' = partials \cup {IF Fanned THEN r ELSE 0}
    /\ UNCHANGED <<call, req, handle, answer>>

StreamItem(r, hasImage) ==
    /\ ReqAt(r, {"streaming"}) /\ ~req[r].final /\ Len(req[r].items) < MaxItems
    /\ hasImage \/ ~EveryItemHasImage \/ call.kind = "responses"
    /\ req' = [req EXCEPT ![r].items = Append(@, hasImage)]
    /\ UNCHANGED <<call, partials, handle, answer>>

(* The whole result in one event takes the place of the items; a Responses
   result without an image, as the first events carry, leaves them in force. *)
StreamResult(r, s) ==
    /\ ReqAt(r, {"streaming"}) /\ ~req[r].final
    /\ req' = [req EXCEPT
         ![r].final = call.kind = "images" \/ TRUE \in Range(s),
         ![r].items = IF call.kind = "responses" /\ TRUE \notin Range(s) THEN @ ELSE s]
    /\ UNCHANGED <<call, partials, handle, answer>>

StreamEnds(r) ==
    /\ ReqAt(r, {"streaming"})
    /\ \E place \in After(req[r].items) :
         /\ place = "downloading" => call.kind = "images" /\ req[r].final
         /\ Move(r, place)
    /\ UNCHANGED <<call, partials, handle, answer>>

StreamBreaks(r) ==
    /\ ReqAt(r, {"streaming"})
    /\ Move(r, "failed")
    /\ UNCHANGED <<call, partials, handle, answer>>
--------------------------------------------------------------------------------
(* Pending, a retryable status, or an error whose text looks like the network. *)
PollAgain(r) ==
    /\ ReqAt(r, {"polling"}) /\ call.kind \notin {"fal", "falJob"}
    /\ req[r].rounds < MaxRepolls
    /\ req' = [req EXCEPT ![r].rounds = @ + 1]
    /\ UNCHANGED <<call, partials, handle, answer>>

PollRefused(r) ==
    /\ ReqAt(r, {"polling"})
    /\ Move(r, "failed")
    /\ UNCHANGED <<call, partials, handle, answer>>

PollSucceeds(r, s) ==
    /\ ReqAt(r, {"polling"})
    /\ \E place \in After(s) : LeaveWith(r, place, s)
    /\ handle' = TRUE
    /\ UNCHANGED <<call, partials, answer>>

Downloaded(r) ==
    /\ ReqAt(r, {"downloading"})
    /\ Move(r, "done")
    /\ UNCHANGED <<call, partials, handle, answer>>

DownloadFails(r) ==
    /\ ReqAt(r, {"downloading"})
    /\ Move(r, "failed")
    /\ UNCHANGED <<call, partials, handle, answer>>

(* A custom job whose images could not be fetched is polled again. *)
DownloadRetried(r) ==
    /\ ReqAt(r, {"downloading"}) /\ req[r].rounds < MaxRepolls
    /\ call.kind = "customJob" \/ (call.kind = "custom" /\ handle)
    /\ req' = [req EXCEPT ![r].at = "polling", ![r].items = <<>>, ![r].final = FALSE,
                         ![r].rounds = @ + 1]
    /\ UNCHANGED <<call, partials, handle, answer>>
--------------------------------------------------------------------------------
Numbered(r) == [i \in DOMAIN req[r].items |-> <<r, i>>]
WithImage(r) ==
    FlattenSeq([i \in DOMAIN req[r].items |-> IF req[r].items[i] THEN << <<r, i>> >> ELSE <<>>])

(* The image stream's parser lists the details of all completed events. *)
DetailsOf(r) ==
    CASE call.kind = "images" /\ ~req[r].final -> Numbered(r)
      [] call.kind \in {"images", "responses"} -> WithImage(r)
      [] OTHER -> <<>>

Succeeded == {r \in DOMAIN req : ReqAt(r, {"done"})}
(* Mutant: the failed requests are numbered among the failed ones. *)
FailedRenumbered == {k \in DOMAIN req : k <= Len(req) - Cardinality(Succeeded)}
FailedRequests == {r \in DOMAIN req : ReqAt(r, {"failed"})}
Joined(parts) ==
    FlattenSeq([r \in DOMAIN req |-> IF r \in Succeeded THEN parts[r] ELSE <<>>])

Settle ==
    /\ answer = NoAnswer
    /\ \A r \in DOMAIN req : ReqAt(r, {"done", "failed"})
    /\ answer' = [returned |-> TRUE, failed |-> FailedRequests,
                  images  |-> Joined([r \in DOMAIN req |-> WithImage(r)]),
                  details |-> Joined([r \in DOMAIN req |-> DetailsOf(r)])]
    /\ UNCHANGED <<call, req, partials, handle>>

RequestStep(r) ==
    \/ Refuse(r) \/ SendRequest(r) \/ TimerFires(r) \/ Abort(r)
    \/ ReplyFails(r) \/ ReplyArrives(r) \/ StreamOpens(r)
    \/ BodyHasTaskId(r) \/ FalEnqueued(r)
    \/ StreamPartial(r) \/ StreamEnds(r) \/ StreamBreaks(r)
    \/ PollAgain(r) \/ PollRefused(r)
    \/ Downloaded(r) \/ DownloadFails(r) \/ DownloadRetried(r)
    \/ \E hasImage \in BOOLEAN : StreamItem(r, hasImage)
    \/ \E s \in Replies : BodyHasImages(r, s) \/ StreamResult(r, s) \/ PollSucceeds(r, s)

CallNext == Settle \/ \E r \in DOMAIN req : RequestStep(r)
CallSpec == CallInit /\ [][CallNext]_callVars
--------------------------------------------------------------------------------
CallTypeOK ==
    /\ call \in Calls
    /\ \A r \in DOMAIN req :
         /\ req[r].at \in {"preparing", "sent", "body", "streaming", "polling",
                           "downloading", "done", "failed"}
         /\ req[r].timer \in {"on", "off", "fired"}
         /\ req[r].items \in Replies /\ req[r].rounds \in 0..MaxRepolls
    /\ partials \subseteq 0..Len(req) /\ handle \in BOOLEAN

(***************************************************************************)
(* Whatever order the requests settle in and whichever of them fail, the   *)
(* answer lists every image of the successful ones once, in the order of   *)
(* the requests, puts beside each image its own parameters and prompt, and *)
(* blames exactly the requests that gave no image.                         *)
(***************************************************************************)
ImagesKeepTheirPrompts == answer.returned =>
    /\ answer.details # <<>> => answer.details = answer.images
    /\ \A i, j \in DOMAIN answer.images : i < j =>
         \/ answer.images[i][1] < answer.images[j][1]
         \/ answer.images[i][1] = answer.images[j][1] /\ answer.images[i][2] < answer.images[j][2]
    /\ \A r \in DOMAIN req :
         (r \in answer.failed) # (\E i \in DOMAIN answer.images : answer.images[i][1] = r)
================================================================================
