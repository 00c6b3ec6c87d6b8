---------------------------- MODULE TaskLifecycle ----------------------------
(***************************************************************************)
(* What the backend promises about one generation task: it is submitted    *)
(* once, tried at most 1 + MaxRetries times, sent back to the queue only   *)
(* while it has delivered nothing, and settled at most once, with a final  *)
(* status that agrees with the images it has.                              *)
(***************************************************************************)
EXTENDS Integers

CONSTANTS Tasks, Requested, MaxRetries

VARIABLES status, tries, images     \* images: how many are registered

vars == <<status, tries, images>>

Init ==
    /\ status = [t \in Tasks |-> "none"]
    /\ tries = [t \in Tasks |-> 0]
    /\ images = [t \in Tasks |-> 0]

Move(t, from, to) ==
    /\ status[t] = from
    /\ status' = [status EXCEPT ![t] = to]
    /\ UNCHANGED <<tries, images>>

Submit(t) == Move(t, "none", "queued")
Reject(t) == Move(t, "queued", "enqueue_failed")
Begin(t)  == tries[t] > 0 /\ Move(t, "queued", "running")
Retry(t)  == images[t] = 0 /\ tries[t] <= MaxRetries /\ Move(t, "running", "queued")

Try(t) ==
    /\ status[t] = "queued"
    /\ tries[t] <= MaxRetries
    /\ tries' = [tries EXCEPT ![t] = @ + 1]
    /\ UNCHANGED <<status, images>>

Deliver(t) ==
    /\ status[t] = "running"
    /\ images' = [images EXCEPT ![t] = @ + 1]
    /\ UNCHANGED <<status, tries>>

Settle(t) ==
    \/ images[t] = 0 /\ Move(t, "running", "failed")
    \/ images[t] > 0 /\ Move(t, "running", "partially_completed")
    \/ images[t] >= Requested[t] /\ Move(t, "running", "completed")

Next == \E t \in Tasks :
    \/ Submit(t) \/ Reject(t) \/ Try(t) \/ Begin(t)
    \/ Deliver(t) \/ Retry(t) \/ Settle(t)

Spec == Init /\ [][Next]_vars
=============================================================================
