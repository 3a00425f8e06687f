----------------------------- MODULE MCAsyncPool -----------------------------
(***************************************************************************)
(* Model-checking instances of AsyncPool.  Connections and operations are  *)
(* interchangeable: no action or safety property tells two of them apart.  *)
(* The liveness runs do not use the symmetry.                              *)
(***************************************************************************)
EXTENDS AsyncPool, TLC

Symmetry == Permutations(Consumers) \cup Permutations(Values)
=============================================================================
