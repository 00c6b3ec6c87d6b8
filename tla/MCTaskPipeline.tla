--------------------------- MODULE MCTaskPipeline ---------------------------
(* Small instances of TaskPipeline for TLC. *)
EXTENDS TaskPipeline, TLC

RequestOne == [t \in Tasks |-> 1]
RequestTwo == [t \in Tasks |-> 2]

NoFaults == {}

\* Everything that can fail without a process outliving its lease and without
\* a reply being lost.
CrashFaults == {"crash", "redis_error", "store_error"}

\* All but the two timing faults.
LossyFaults == CrashFaults \cup {"lost_reply"}

OnlyOverrun    == {"overrun"}
OnlySlowUnlock == {"slow_unlock"}

Symmetry == Permutations(Tasks) \cup Permutations(Workers) \cup Permutations(Clients)
=============================================================================
