------------------------------ MODULE MCWebClient ------------------------------
(***************************************************************************)
(* Four parts of the web client in one run: each behaviour follows one of  *)
(* them, chosen at the start, while the others keep their initial state.   *)
(* They share no state, so nothing is lost, and the run asks of each of    *)
(* them what it promises.                                                  *)
(***************************************************************************)
EXTENDS WebHosted, WebAgent, WebDrafts, WebCalls

CONSTANTS a1, a2
VARIABLE focus

clientVars == <<focus, hostedVars, agentVars, draftVars, callVars>>

ClientInit ==
    /\ focus \in {"hosted", "agent", "drafts", "calls"}
    /\ HostedInit /\ AgentInit /\ DraftsInit /\ CallInit
    /\ focus # "calls" => call.kind = "falJob" /\ call = [call EXCEPT
         !.n = 1, !.codexCli = FALSE, !.streamImages = FALSE, !.taskIdPath = FALSE,
         !.poll = FALSE]

ClientNext ==
    /\ UNCHANGED focus
    /\ \/ /\ focus = "hosted" /\ HostedNext
          /\ UNCHANGED <<agentVars, draftVars, callVars>>
       \/ /\ focus = "agent" /\ AgentNext
          /\ UNCHANGED <<hostedVars, draftVars, callVars>>
       \/ /\ focus = "drafts" /\ DraftsNext
          /\ UNCHANGED <<hostedVars, agentVars, callVars>>
       \/ /\ focus = "calls" /\ CallNext
          /\ UNCHANGED <<hostedVars, agentVars, draftVars>>

ClientSpec == ClientInit /\ [][ClientNext]_clientVars

\* Every part's variables keep their types.
ClientTypeOK ==
    CASE focus = "hosted" -> HostedTypeOK
      [] focus = "agent"  -> AgentTypeOK
      [] focus = "drafts" -> DraftsTypeOK
      [] focus = "calls"  -> CallTypeOK
================================================================================
