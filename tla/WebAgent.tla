------------------------------ MODULE WebAgent ------------------------------
(***************************************************************************)
(* One conversation of the web client's agent mode (store.ts): its tree of *)
(* rounds, the executions of executeAgentRound that answer them, and the   *)
(* image cards those make.  The user may send, edit, regenerate, stop,     *)
(* switch branch and delete while executions are between two awaits.       *)
(*                                                                         *)
(* Rounds are numbered as they are created, which is their order in        *)
(* conversation.rounds.  An execution makes at most one card of the        *)
(* built-in image tool and one of a generate_image_batch call; seen says    *)
(* that the start of the tool was streamed (taskIdByToolCallId).           *)
(***************************************************************************)
EXTENDS Naturals, FiniteSets

CONSTANTS
    MaxRounds,      \* bound on the rounds created
    MaxRuns,        \* bound on the executions
    MaxTurns,       \* bound on the model calls of one execution
    MaxToolCalls,   \* agentMaxToolRounds
    Streams,        \* profile.streamImages
    OneAtATime      \* no other user action while a message or a deletion is
                    \* between two of its steps

ASSUME WebAgentAssumption ==
    /\ MaxRounds \in Nat /\ MaxRuns \in Nat /\ MaxTurns \in Nat \ {0} /\ MaxToolCalls \in Nat \ {0}
    /\ Streams \in BOOLEAN /\ OneAtATime \in BOOLEAN

VARIABLES
    rounds,     \* conversation.rounds with the assistant message of each
    created,    \* rounds created so far
    active,     \* activeRoundId, 0 for null
    sending,    \* submitAgentMessage between its check and the new round
    deleting,   \* handleDeleteMessage between removing tasks and the round
    runs,       \* the executions of executeAgentRound
    controller, \* agentRoundControllers: the execution of each round
    cards       \* the status of the tasks the executions created

agentVars == <<rounds, created, active, sending, deleting, runs, controller, cards>>

-----------------------------------------------------------------------------
RoundIds == 1..MaxRounds
Runs     == 1..MaxRuns
NoRound  == 0
NoRun    == 0
CardKinds    == {"single", "batch"}
Cards    == Runs \X CardKinds

\* reply: the assistant message, "failed" for one that reports an error.
Round == [status: {"absent", "running", "done", "error"}, parent: {NoRound} \cup RoundIds,
          reply: {"none", "text", "failed"}]
Absent == [status |-> "absent", parent |-> NoRound, reply |-> "none"]

Run == [pc: {"idle", "inputs", "call", "call store", "answer store", "decide", "batch",
             "batch store", "continue", "over"},
        round: {NoRound} \cup RoundIds, turn: 0..MaxTurns, used: 0..(2 * MaxTurns),
        stopped: BOOLEAN, asks: {"nothing", "batch", "more"}, seen: BOOLEAN]
IdleRun == [pc |-> "idle", round |-> NoRound, turn |-> 0, used |-> 0,
            stopped |-> FALSE, asks |-> "nothing", seen |-> FALSE]

Sending == [pc: {"idle", "storing"}, parent: {NoRound} \cup RoundIds,
            edit: {NoRound} \cup RoundIds]
NotSending == [pc |-> "idle", parent |-> NoRound, edit |-> NoRound]

Listed(rs)  == {r \in RoundIds : rs[r].status # "absent"}
Children(rs, p) == {r \in Listed(rs) : rs[r].parent = p}
Running     == {r \in RoundIds : rounds[r].status = "running"}
Newest(S)   == CHOOSE r \in S : \A q \in S : q <= r

\* getLatestAgentLeafId: from a round, or the newest root, to the newest
\* child as long as there is one.
Leaf(rs, from) ==
    LET down[r \in RoundIds] ==
            IF Children(rs, r) = {} \/ Newest(Children(rs, r)) <= r
            THEN r ELSE down[Newest(Children(rs, r))]
    IN  IF from # NoRound THEN down[from]
        ELSE IF Children(rs, NoRound) = {} THEN NoRound
        ELSE down[Newest(Children(rs, NoRound))]

\* The last round of getActiveAgentRounds.
ActiveLeaf(rs, a) == IF a \in Listed(rs) THEN a ELSE Leaf(rs, NoRound)

CardsOf(r) == {c \in Cards : runs[c[1]].round = r}
Live(e)    == runs[e].pc \notin {"idle", "over"}
AtRest     == OneAtATime => sending.pc = "idle" /\ deleting = NoRound

AgentInit ==
    /\ rounds = [r \in RoundIds |-> Absent]
    /\ created = 0 /\ active = NoRound
    /\ sending = NotSending /\ deleting = NoRound
    /\ runs = [e \in Runs |-> IdleRun]
    /\ controller = [r \in RoundIds |-> NoRun]
    /\ cards = [c \in Cards |-> "none"]

-----------------------------------------------------------------------------
(* How the tasks and the round of an execution are settled. *)

\* Mutant: stopped cards get a status TaskRecord does not have.
MarkStopped(cs, C) == [c \in Cards |-> IF c \in C /\ cs[c] = "running" THEN "stopped" ELSE cs[c]]

\* markAgentRoundTasksStopped and markAgentRoundTasksFailed.
FailRunning(cs, C) == [c \in Cards |-> IF c \in C /\ cs[c] = "running" THEN "error" ELSE cs[c]]

\* markAgentRoundStopped.
Stopped(r) ==
    /\ cards' = FailRunning(cards, CardsOf(r))
    /\ rounds' = IF r \in Running
                 THEN [rounds EXCEPT ![r].status = "error", ![r].reply = "text"]
                 ELSE rounds

\* The finally block: the controller is dropped unless it is a newer one's.
Over(e) ==
    /\ runs' = [runs EXCEPT ![e] = [IdleRun EXCEPT !.pc = "over", !.round = runs[e].round]]
    /\ controller' = [controller EXCEPT ![runs[e].round] =
                         IF controller[runs[e].round] = e THEN NoRun ELSE @]

\* The catch block of a stopped execution, and of one that failed.
Unwind(e) == Stopped(runs[e].round) /\ Over(e)

\* Mutant: the cards of a failed execution go on running.
BreakRound(e) ==
    LET r == runs[e].round
    IN  /\ rounds' = IF r \in Listed(rounds)
                     THEN [rounds EXCEPT ![r].status = "error", ![r].reply = "failed"]
                     ELSE rounds
        /\ UNCHANGED cards
        /\ Over(e)

Broken(e) ==
    LET r == runs[e].round
    IN  /\ cards' = FailRunning(cards, CardsOf(r))
        /\ rounds' = IF r \in Listed(rounds)
                     THEN [rounds EXCEPT ![r].status = "error", ![r].reply = "failed"]
                     ELSE rounds
        /\ Over(e)

\* After the loop: cards of the built-in tool without an image fail, and the
\* round is done whatever its status has become.
Finish(e) ==
    LET r == runs[e].round
    IN  /\ cards' = FailRunning(cards, {c \in CardsOf(r) : c[2] = "single"})
        /\ rounds' = IF r \in Listed(rounds)
                     THEN [rounds EXCEPT ![r].status = "done", ![r].reply = "text"]
                     ELSE rounds
        /\ Over(e)

-----------------------------------------------------------------------------
(* The user. *)

\* executeAgentRound up to its first await.
Begin(e, r) ==
    /\ runs[e].pc = "idle" /\ \A f \in 1..(e - 1) : runs[f].pc # "idle"
    /\ runs' = [runs EXCEPT ![e] = [IdleRun EXCEPT !.pc = "inputs", !.round = r]]
    /\ controller' = [controller EXCEPT ![r] = e]

\* submitAgentMessage: refused while a round runs.  edit: agentEditingRoundId.
Send(edit) ==
    /\ AtRest /\ sending.pc = "idle"
    /\ Running = {}
    /\ edit \in {NoRound} \cup Listed(rounds)
    /\ sending' = [pc |-> "storing", edit |-> edit,
                   parent |-> IF edit = NoRound THEN ActiveLeaf(rounds, active)
                              ELSE rounds[edit].parent]
    /\ UNCHANGED <<rounds, created, active, deleting, runs, controller, cards>>

\* The images are stored.  A round without children and without an answer is
\* written again, else the message is a new round.
Sent(e) ==
    LET edit == sending.edit
        again == /\ edit \in Listed(rounds)
                 /\ Children(rounds, edit) = {} /\ rounds[edit].reply # "text"
        r == IF again THEN edit ELSE created + 1
    IN  /\ sending.pc = "storing" /\ r \in RoundIds
        /\ rounds' = [rounds EXCEPT ![r] = [status |-> "running", parent |-> sending.parent,
                                            reply |-> IF again THEN @.reply ELSE "none"]]
        /\ created' = IF again THEN created ELSE created + 1
        /\ active' = r
        /\ sending' = NotSending
        /\ Begin(e, r)
        /\ UNCHANGED <<deleting, cards>>

\* The images cannot be stored, or the mask does not fit.
SendFails ==
    /\ sending.pc = "storing"
    /\ sending' = NotSending
    /\ UNCHANGED <<rounds, created, active, deleting, runs, controller, cards>>

\* regenerateAgentAssistantMessage: a failed round is run again, another gets
\* a sibling.
Regenerate(r, e) ==
    LET new == IF rounds[r].status = "error" THEN r ELSE created + 1
    IN  /\ AtRest /\ r \in Listed(rounds)
        /\ Running = {}
        /\ new \in RoundIds
        /\ rounds' = [rounds EXCEPT ![new] = [status |-> "running", parent |-> rounds[r].parent,
                                              reply |-> IF new = r THEN @.reply ELSE "none"]]
        /\ created' = IF new = r THEN created ELSE created + 1
        /\ active' = new
        /\ Begin(e, new)
        /\ UNCHANGED <<sending, deleting, cards>>

\* stopAgentResponse.
Stop(r) ==
    /\ AtRest /\ r \in Running
    /\ runs' = IF controller[r] = NoRun THEN runs
               ELSE [runs EXCEPT ![controller[r]].stopped = TRUE]
    /\ Stopped(r)
    /\ UNCHANGED <<created, active, sending, deleting, controller>>

\* handleSwitchBranch: to the leaf below a sibling.
SwitchBranch(r) ==
    /\ AtRest /\ r \in Listed(rounds)
    /\ Cardinality(Children(rounds, rounds[r].parent)) > 1
    /\ active' = Leaf(rounds, r)
    /\ UNCHANGED <<rounds, created, sending, deleting, runs, controller, cards>>

\* handleDeleteMessage: the tasks first; the answer goes with them, or the
\* round, when it is the user's message.
DeleteAnswer(r) ==
    /\ AtRest /\ r \in Listed(rounds) \ Running /\ rounds[r].reply # "none"
    /\ cards' = [c \in Cards |-> IF c \in CardsOf(r) THEN "none" ELSE cards[c]]
    /\ rounds' = [rounds EXCEPT ![r].reply = "none"]
    /\ UNCHANGED <<created, active, sending, deleting, runs, controller>>

DeleteRound(r) ==
    /\ AtRest /\ deleting = NoRound /\ r \in Listed(rounds)
    /\ cards' = [c \in Cards |-> IF c \in CardsOf(r) THEN "none" ELSE cards[c]]
    /\ deleting' = r
    /\ UNCHANGED <<rounds, created, active, sending, runs, controller>>

\* Mutant: the children of a deleted round keep their parent.
WithoutOrphaning(rs, r) == [rs EXCEPT ![r] = Absent]

\* deleteAgentRoundFromConversation: the children take the round's parent.
Without(rs, r) ==
    [q \in RoundIds |-> IF q = r THEN Absent
                        ELSE IF q \in Children(rs, r) THEN [rs[q] EXCEPT !.parent = rs[r].parent]
                        ELSE rs[q]]

RoundDeleted ==
    /\ deleting # NoRound
    /\ deleting' = NoRound
    /\ rounds' = IF deleting \in Listed(rounds) THEN Without(rounds, deleting) ELSE rounds
    /\ active' = IF active = deleting THEN ActiveLeaf(rounds', NoRound) ELSE active
    /\ UNCHANGED <<created, sending, runs, controller, cards>>

\* A reload: normalizeAgentRound makes running rounds failed ones, and
\* runInitStore the tasks; executions are lost.
AgentReload ==
    /\ \E e \in Runs : Live(e)
    /\ rounds' = [r \in RoundIds |-> IF r \in Running
                                     THEN [rounds[r] EXCEPT !.status = "error"] ELSE rounds[r]]
    /\ cards' = FailRunning(cards, Cards)
    /\ runs' = [e \in Runs |-> IF Live(e) THEN [IdleRun EXCEPT !.pc = "over", !.round = runs[e].round]
                               ELSE runs[e]]
    /\ controller' = [r \in RoundIds |-> NoRun]
    /\ sending' = NotSending /\ deleting' = NoRound
    /\ UNCHANGED <<created, active>>

-----------------------------------------------------------------------------
(* executeAgentRound. *)

At(e, pc) == runs[e].pc = pc
Moves(e, pc) == runs' = [runs EXCEPT ![e].pc = pc]
Outside   == UNCHANGED <<created, active, sending, deleting>>

\* buildAgentApiInput and the mask; the answer's message of a stream is
\* started.  A missing mask fails the round.
InputsRead(e) ==
    /\ At(e, "inputs")
    /\ \/ /\ runs[e].stopped /\ Unwind(e)
       \/ /\ ~runs[e].stopped /\ Broken(e)
       \/ /\ ~runs[e].stopped
          /\ runs' = [runs EXCEPT ![e].pc = "call", ![e].turn = 1]
          /\ rounds' = IF Streams /\ runs[e].round \in Listed(rounds)
                       THEN [rounds EXCEPT ![runs[e].round].reply = "text"] ELSE rounds
          /\ UNCHANGED <<controller, cards>>
    /\ Outside

\* onImageToolStarted, onImageToolFailed and onImageToolCompleted: nothing
\* after a stop.
ToolStarted(e) ==
    /\ Streams /\ At(e, "call") /\ ~runs[e].stopped
    /\ runs[e].turn = 1 /\ ~runs[e].seen
    /\ runs' = [runs EXCEPT ![e].seen = TRUE]
    /\ cards' = [cards EXCEPT ![<<e, "single">>] = "running"]
    /\ UNCHANGED <<rounds, controller>> /\ Outside

ToolFailed(e) ==
    /\ Streams /\ At(e, "call") /\ ~runs[e].stopped
    /\ cards[<<e, "single">>] = "running"
    /\ cards' = FailRunning(cards, {<<e, "single">>})
    /\ UNCHANGED <<rounds, runs, controller>> /\ Outside

ToolCompleted(e) ==
    /\ Streams /\ At(e, "call") /\ ~runs[e].stopped
    /\ cards[<<e, "single">>] = "running"
    /\ Moves(e, "call store")
    /\ UNCHANGED <<rounds, controller, cards>> /\ Outside

\* completeAgentImageTask after the image is stored: the card is done, unless
\* it was removed; its status is not looked at again.
Complete(c) == cards' = [cards EXCEPT ![c] = IF @ = "none" THEN @ ELSE "done"]

\* The call goes on when the image is stored; when it cannot be, the callback
\* rejects and the call with it.
CallStored(e) ==
    /\ At(e, "call store")
    /\ \/ /\ Complete(<<e, "single">>)
          /\ Moves(e, "call")
          /\ UNCHANGED <<rounds, controller>>
       \/ IF runs[e].stopped THEN Unwind(e) ELSE Broken(e)
    /\ Outside

\* The answer of callAgentResponsesApi: an image of the built-in tool, and
\* function calls that need outputs.
Answer(e, image, asks) ==
    /\ At(e, "call") /\ ~runs[e].stopped
    /\ asks # "nothing" => runs[e].turn < MaxTurns
    /\ runs' = [runs EXCEPT ![e].pc = IF image THEN "answer store" ELSE "decide",
                            ![e].asks = asks,
                            ![e].used = @ + (IF image THEN 1 ELSE 0)]
    /\ UNCHANGED <<rounds, controller, cards>> /\ Outside

\* The request is aborted, fails, or times out.
CallEnds(e) ==
    /\ At(e, "call")
    /\ IF runs[e].stopped THEN Unwind(e) ELSE Broken(e)
    /\ Outside

\* The image is stored: it completes the card of the call whose start was seen,
\* and any other image gets a new card.
AnswerStored(e) ==
    /\ At(e, "answer store")
    /\ \/ /\ Moves(e, "decide")
          /\ IF runs[e].seen THEN Complete(<<e, "single">>)
             ELSE cards' = [cards EXCEPT ![<<e, "single">>] = "done"]
          /\ UNCHANGED <<rounds, controller>>
       \/ IF runs[e].stopped THEN Unwind(e) ELSE Broken(e)
    /\ Outside

\* No function call: the round ends.  A batch: its card comes before its
\* request.
Decide(e) ==
    /\ At(e, "decide")
    /\ CASE runs[e].asks = "nothing" -> Finish(e)
         [] runs[e].asks = "more" -> Moves(e, "continue") /\ UNCHANGED <<rounds, controller, cards>>
         [] runs[e].asks = "batch" ->
              /\ Moves(e, "batch")
              /\ cards' = [cards EXCEPT ![<<e, "batch">>] = "running"]
              /\ UNCHANGED <<rounds, controller>>
    /\ Outside

\* callBatchImageSingle never rejects; a stopped one has no image.
BatchAnswered(e) ==
    /\ At(e, "batch")
    /\ \/ /\ ~runs[e].stopped
          /\ Moves(e, "batch store")
          /\ UNCHANGED cards
       \/ /\ Moves(e, "continue")
          /\ cards' = FailRunning(cards, {<<e, "batch">>})
    /\ UNCHANGED <<rounds, controller>> /\ Outside

\* An image that cannot be stored fails its card, and the batch goes on.
BatchStored(e) ==
    /\ At(e, "batch store")
    /\ \/ /\ Complete(<<e, "batch">>)
          /\ runs' = [runs EXCEPT ![e].pc = "continue", ![e].used = @ + 1]
       \/ /\ cards' = FailRunning(cards, {<<e, "batch">>})
          /\ Moves(e, "continue")
    /\ UNCHANGED <<rounds, controller>> /\ Outside

\* Mutant: the abort signal is not read again at the top of the loop.
ContinueAfterStop(e) ==
    /\ At(e, "continue")
    /\ IF runs[e].used >= MaxToolCalls \/ runs[e].round \notin Listed(rounds)
       THEN Finish(e)
       ELSE /\ runs' = [runs EXCEPT ![e].pc = "call", ![e].turn = @ + 1]
            /\ UNCHANGED <<rounds, controller, cards>>
    /\ Outside

\* The budget is spent or the round is gone: the end.  Else the next turn,
\* unless stopped.
Continue(e) ==
    /\ At(e, "continue")
    /\ IF runs[e].used >= MaxToolCalls \/ runs[e].round \notin Listed(rounds)
       THEN Finish(e)
       ELSE IF runs[e].stopped THEN Unwind(e)
       ELSE /\ runs' = [runs EXCEPT ![e].pc = "call", ![e].turn = @ + 1]
            /\ UNCHANGED <<rounds, controller, cards>>
    /\ Outside

-----------------------------------------------------------------------------
AgentUser ==
    \/ \E edit \in {NoRound} \cup RoundIds : Send(edit)
    \/ \E e \in Runs : Sent(e)
    \/ SendFails
    \/ \E r \in RoundIds, e \in Runs : Regenerate(r, e)
    \/ \E r \in RoundIds : Stop(r) \/ SwitchBranch(r) \/ DeleteAnswer(r) \/ DeleteRound(r)
    \/ RoundDeleted
    \/ AgentReload

Answering(e) ==
    \/ InputsRead(e) \/ ToolStarted(e) \/ ToolFailed(e) \/ ToolCompleted(e)
    \/ CallStored(e) \/ CallEnds(e) \/ AnswerStored(e) \/ Decide(e)
    \/ BatchAnswered(e) \/ BatchStored(e) \/ Continue(e)
    \/ \E image \in BOOLEAN, asks \in {"nothing", "batch", "more"} : Answer(e, image, asks)

AgentNext == AgentUser \/ \E e \in Runs : Answering(e)

AgentSpec == AgentInit /\ [][AgentNext]_agentVars

\* IndexedDB answers and requests time out, except that of a stream: its
\* timer is cleared before the stream is read.
Awaited(e) == ~At(e, "call") /\ Answering(e)
AgentFairSpec == AgentSpec /\ \A e \in Runs : WF_agentVars(Awaited(e))

-----------------------------------------------------------------------------
(* Properties *)

\* The variables keep their types.
AgentTypeOK ==
    /\ rounds \in [RoundIds -> Round]
    /\ created \in 0..MaxRounds
    /\ active \in {NoRound} \cup RoundIds
    /\ sending \in Sending
    /\ deleting \in {NoRound} \cup RoundIds
    /\ runs \in [Runs -> Run]
    /\ controller \in [RoundIds -> {NoRun} \cup Runs]
    /\ cards \in [Cards -> {"none", "running", "done", "error"}]

\* A round or an image card that is shown as running has an execution that
\* will settle it: no stop, failure, deletion or reload leaves one spinning.
RunningIsExecuted ==
    /\ \A r \in Running : \E e \in Runs : Live(e) /\ runs[e].round = r
    /\ \A c \in Cards : cards[c] = "running" => Live(c[1])

\* Deleting rounds, regenerating and sending keep the rounds a tree: every
\* parent is listed and older than its child, and the active round is listed.
RoundsAreATree ==
    /\ \A r \in Listed(rounds) : rounds[r].parent \in {NoRound} \cup (Listed(rounds) \cap 1..(r - 1))
    /\ active \in Listed(rounds) \/ (active = NoRound /\ Listed(rounds) = {})

\* An execution that was stopped outside a call of the model ends.
StoppedRunEnds ==
    \A e \in Runs : (runs[e].stopped /\ runs[e].pc \notin {"call", "call store"})
                        ~> runs[e].pc = "over"

=============================================================================
