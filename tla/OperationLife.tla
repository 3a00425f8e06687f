---------------------------- MODULE OperationLife ----------------------------
(***************************************************************************)
(* What the asynchronous half of DatabaseWorkerPool promises about the     *)
(* operations handed to it (Execute, AsyncQuery, DelayQueryHolder,         *)
(* CommitTransaction, AsyncCommitTransaction, KeepAlive), without workers, *)
(* queue, locks or destructors: each is completed exactly once, in no      *)
(* promised order, unless the pool has begun to take connections down.     *)
(* From then on an operation may also be dropped (deleted unexecuted, its  *)
(* future broken) or stranded (never executed, never deleted, its future   *)
(* pending for ever).  AsyncPool implements this specification.            *)
(***************************************************************************)
CONSTANT Ops

VARIABLES status,    \* what has become of each operation
          closing    \* some connection is being, or was, taken down

lifeVars == <<status, closing>>

LifeInit == /\ status = [o \in Ops |-> "new"]
            /\ closing = FALSE

Submit(o) == /\ status[o] = "new"
             /\ status' = [status EXCEPT ![o] = "submitted"]
             /\ UNCHANGED closing

Complete(o) == /\ status[o] = "submitted"
               /\ status' = [status EXCEPT ![o] = "completed"]
               /\ UNCHANGED closing

BeginClose == /\ closing' = TRUE
              /\ UNCHANGED status

Strand(o) == /\ closing
             /\ status[o] = "submitted"
             /\ status' = [status EXCEPT ![o] = "stranded"]
             /\ UNCHANGED closing

Drop(S) == /\ closing
           /\ \A o \in S : status[o] = "submitted"
           /\ status' = [o \in Ops |-> IF o \in S THEN "dropped" ELSE status[o]]
           /\ UNCHANGED closing

LifeNext == \/ \E o \in Ops : Submit(o) \/ Complete(o) \/ Strand(o)
            \/ BeginClose
            \/ \E S \in SUBSET Ops : Drop(S)

LifeSpec == LifeInit /\ [][LifeNext]_lifeVars
=============================================================================
