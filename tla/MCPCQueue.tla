------------------------------ MODULE MCPCQueue ------------------------------
(***************************************************************************)
(* Model-checking instance of PCQueue: the queue holds at most MaxLen      *)
(* elements, nothing else is bounded.                                      *)
(***************************************************************************)
EXTENDS PCQueue

CONSTANT MaxLen

MCNext == QNext /\ Len(queue') <= MaxLen

MCSpec == QInit /\ [][MCNext]_qvars /\ QFairness
=============================================================================
