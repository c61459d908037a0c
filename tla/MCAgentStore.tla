---------------------------- MODULE MCAgentStore ----------------------------
(***************************************************************************)
(* AgentStore for TLC.  All tasks of the instance take the same session,   *)
(* so one is as good as another.                                           *)
(***************************************************************************)
EXTENDS AgentStore

TaskSymmetry == Permutations(Tasks)

=============================================================================
