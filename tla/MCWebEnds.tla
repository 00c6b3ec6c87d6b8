------------------------------- MODULE MCWebEnds -------------------------------
(***************************************************************************)
(* What must end in the web client: a task of the page, a task followed on *)
(* the server and a stopped execution of the agent.  Each behaviour        *)
(* follows one of the three and is fair to that one.                       *)
(***************************************************************************)
EXTENDS WebTasks, WebHosted, WebAgent

CONSTANTS a1, t1
VARIABLE focus

endVars == <<focus, vars, hostedVars, agentVars>>

EndsInit ==
    /\ focus \in {"tasks", "hosted", "agent"}
    /\ Init /\ HostedInit /\ AgentInit

EndsNext ==
    /\ UNCHANGED focus
    /\ \/ focus = "tasks"  /\ Next       /\ UNCHANGED <<hostedVars, agentVars>>
       \/ focus = "hosted" /\ HostedNext /\ UNCHANGED <<vars, agentVars>>
       \/ focus = "agent"  /\ AgentNext  /\ UNCHANGED <<vars, hostedVars>>

EndsSpec ==
    /\ EndsInit /\ [][EndsNext]_endVars
    /\ Fairness /\ WF_hostedVars(Page) /\ \A e \in Runs : WF_agentVars(Awaited(e))

\* A task the page runs itself leaves "running" in the database, and so does
\* the record of a task it follows on the server.
TasksEnd == WatchedTaskEnds /\ HostedTaskEnds
================================================================================
