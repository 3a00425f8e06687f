------------------------------ MODULE MCSyncPool ------------------------------
(***************************************************************************)
(* Bounds for SyncPool.  The run checks a liveness property and therefore  *)
(* uses no symmetry.                                                       *)
(***************************************************************************)
EXTENDS SyncPool

CONSTANTS k1, k2

TwoClients == {k1, k2}
=============================================================================
