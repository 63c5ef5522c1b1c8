---------------------------- MODULE MCAgentRuns ----------------------------
(***************************************************************************)
(* The model-checking root of AgentRuns: the .cfg files give the bounds on *)
(* runs and events and the connections, which are model values.  The runs  *)
(* are numbered in the order of their turns.                               *)
(***************************************************************************)
EXTENDS AgentRuns
=============================================================================
