-------------------------------- MODULE Outbox --------------------------------
(***************************************************************************)
(* The two kinds of rows in workflow_outbox and where they come from: the    *)
(* stages of runs, published to Pub/Sub (WorkflowDispatch), and the sessions *)
(* agent calls leave behind (AgentCalls), cleaned up by AgentSessionCleanup. *)
(* A consumer claims rows of its own topic only, so the parts never meet in  *)
(* a row; AgentCalls knows of the cleanup what SessionCleanup promises.      *)
(***************************************************************************)
EXTENDS WorkflowDispatch, AgentSessionCleanup, AgentCalls

outboxVars == <<vars, dispatchVars, callVars>>

OutboxTypeOK == TypeOK /\ DispatchTypeOK /\ CallTypeOK

OutboxInit == Init /\ DispatchInit /\ CallInit

NoCleanups == Init /\ \A s \in Session : session[s] = "none"

\* Bound: only one of the parts moves in a behaviour.
OutboxNext ==
  \/ Next /\ UNCHANGED <<dispatchVars, callVars>> /\ DispatchInit /\ CallInit
  \/ DispatchNext /\ UNCHANGED <<vars, callVars>> /\ NoCleanups /\ CallInit
  \/ CallNext /\ UNCHANGED <<vars, dispatchVars>> /\ NoCleanups /\ DispatchInit

OutboxSpec ==
  /\ OutboxInit
  /\ [][OutboxNext]_outboxVars
  /\ Fairness
  /\ DispatchFairness
  /\ CallFairness
=============================================================================
