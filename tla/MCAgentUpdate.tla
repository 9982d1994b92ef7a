--------------------------- MODULE MCAgentUpdate ---------------------------
(***************************************************************************)
(* Model-checking instance of AgentUpdate: three versions, the newest of    *)
(* which cannot run, two acts of the operators and one death of the helper.  *)
(***************************************************************************)
EXTENDS AgentUpdate
=============================================================================
