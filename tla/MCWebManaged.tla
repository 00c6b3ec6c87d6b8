----------------------------- MODULE MCWebManaged -----------------------------
\* The settings window by itself, for a user who changes other settings while
\* the managed scope is incomplete.
EXTENDS WebManaged, TLC

MCScopeParent == ("p1" :> "w1") @@ ("c1" :> "p1")
MCSample      == [w |-> "ws", p |-> "ps", c |-> "cs"]
===============================================================================
