--------------------------- MODULE AsyncPoolProofs ---------------------------
(***************************************************************************)
(* Proofs about AsyncPool, for any number of connections, operations,      *)
(* configured threads and retries: the pool only ever takes steps of the   *)
(* queue (so what is proved of PCQueue holds of it), and every operation   *)
(* is accounted for.                                                       *)
(***************************************************************************)
EXTENDS AsyncPool, PCQueueProofs

-----------------------------------------------------------------------------
(***************************************************************************)
(* The pool uses the queue as specified.                                   *)
(***************************************************************************)

\* Every step of the pool is a step of the queue or leaves the queue alone.
LEMMA PoolStepIsQueueStep == [PNext]_vars => [QNext]_qvars
<1> SUFFICES ASSUME [PNext]_vars
             PROVE  [QNext]_qvars
  OBVIOUS
<1>1. ASSUME NEW o \in Ops, Execute(o) \/ AsyncQuery(o)
      PROVE  QNext
  BY <1>1 DEF Execute, AsyncQuery, Enqueue, QNext, Ops
<1>2. ASSUME NEW c \in Conns, WorkerStep(c) \/ WorkerWake(c)
      PROVE  [QNext]_qvars
  BY <1>2 DEF WorkerStep, WorkerWake, WorkerSleep, WorkerTake, WorkerReturn,
              WorkerCheck, WorkerFinish, QNext, Conns
<1>3. CASE OpenStep
  BY <1>3 DEF OpenStep, ConstructAsync, OpenAsync, OpenAsyncFail, OpenSyncFail,
              OpenAsyncIncompatible, AsyncDone, OpenSync, OpenSyncIncompatible,
              SyncDone, Retry, Prepared, PrepareFail, CloseThen
<1>4. CASE Close
  BY <1>4 DEF Close, CloseThen
<1>5. CASE DestroyPool
  BY <1>5 DEF DestroyPool, CancelAndDelete, QNext
<1>6. CASE DestroyStep
  BY <1>6 DEF DestroyStep, SetToken, CancelQueue, JoinAndClose, CancelAndDelete, QNext
<1>7. CASE Ended \/ UNCHANGED vars
  BY <1>7 DEF Ended, vars
<1> QED
  BY <1>1, <1>2, <1>3, <1>4, <1>5, <1>6, <1>7 DEF PNext

\* The pool implements the specification of its queue.
THEOREM PoolUsesQueue == PSpec => QSpec
<1>1. PInit => QInit
  BY DEF PInit
<1> QED
  BY <1>1, PoolStepIsQueueStep, PTL DEF PSpec, QSpec

\* No wake-up is lost in the pool: while a worker sleeps, every queued
\* operation has a worker that was notified for it.
THEOREM PoolLosesNoWakeup == PSpec => []NoLostWakeup
BY PoolUsesQueue, NoWakeupIsLost, PTL

-----------------------------------------------------------------------------
(***************************************************************************)
(* The types.                                                              *)
(***************************************************************************)

\* Where the controlling thread is tells which of its variables mean something.
ControlOK == /\ pc = "open" => cur \in Conns
             /\ pc = "destroy" => dying # <<>>
             /\ after \notin {"open", "destroy"}

TInv == PTypeOK /\ ControlOK

\* Steps of the worker threads and of clients preserve the types.
LEMMA TInvThreads ==
  ASSUME TInv, QTypeOK',
         \/ \E o \in Ops : Execute(o) \/ AsyncQuery(o)
         \/ \E c \in Conns : WorkerStep(c) \/ WorkerWake(c)
  PROVE  TInv'
<1> USE DEF TInv, PTypeOK, ControlOK, WorkerPC
<1>1. ASSUME NEW o \in Ops, Execute(o) \/ AsyncQuery(o)
      PROVE  TInv'
  BY <1>1 DEF Execute, AsyncQuery, Enqueue, wvars, cvars, dvars
<1>2. ASSUME NEW c \in Conns, WorkerSleep(c) \/ WorkerReturn(c) \/ WorkerWake(c)
      PROVE  TInv'
  BY <1>2 DEF WorkerSleep, WorkerReturn, WorkerWake, wvars, ovars, cvars, dvars
<1>3. ASSUME NEW c \in Conns, WorkerTake(c)
      PROVE  TInv'
  <2>1. Head(queue) \in Ops
    BY <1>3 DEF WorkerTake, WaitTake, QTypeOK, Ops
  <2> QED
    BY <1>3, <2>1 DEF WorkerTake, ovars, cvars, dvars
<1>4. ASSUME NEW c \in Conns, WorkerCheck(c)
      PROVE  TInv'
  BY <1>4 DEF WorkerCheck, ovars, cvars, dvars
<1>5. ASSUME NEW c \in Conns, WorkerFinish(c)
      PROVE  TInv'
  BY <1>5 DEF WorkerFinish, Resolved, cvars, dvars
<1> QED
  BY <1>1, <1>2, <1>3, <1>4, <1>5 DEF WorkerStep

\* What Destroy leaves the controlling thread with.
LEMMA DestroyTypes ==
  ASSUME NEW s \in Seq(Conns), NEW next \in ControlPC \ {"open", "destroy"},
         Destroy(s, next)
  PROVE  /\ dying' \in Seq(Conns)
         /\ stage' \in {"token", "cancel", "join"}
         /\ pc' \in ControlPC
         /\ after' \in ControlPC
         /\ after' \notin {"open", "destroy"}
         /\ pc' # "open"
         /\ pc' = "destroy" => dying' # <<>>
<1>1. CASE s = <<>>
  BY <1>1 DEF Destroy
<1>2. CASE s # <<>>
  BY <1>2 DEF Destroy, ControlPC
<1> QED
  BY <1>1, <1>2

\* Steps of opening and closing preserve the types.
LEMMA TInvControl ==
  ASSUME TInv, QTypeOK', OpenStep \/ Close
  PROVE  TInv'
<1> USE DEF TInv, PTypeOK, ControlOK, ControlPC, WorkerPC
<1>1. ASSUME NEW c \in Conns, ConstructAsync(c)
      PROVE  TInv'
  BY <1>1 DEF ConstructAsync, ovars, dvars
<1>2. CASE OpenAsync
  BY <1>2 DEF OpenAsync, wvars, ovars, dvars
<1>3. ASSUME NEW error \in Errors, OpenAsyncFail(error)
      PROVE  TInv'
  <2>1. Append(async, cur) \in Seq(Conns)
    BY <1>3 DEF OpenAsyncFail
  <2>2. AfterError(error) \in ControlPC \ {"open", "destroy"}
    BY DEF AfterError
  <2> HIDE DEF ControlPC
  <2>3. /\ dying' \in Seq(Conns)
        /\ stage' \in {"token", "cancel", "join"}
        /\ pc' \in ControlPC
        /\ after' \in ControlPC
        /\ ControlOK'
    BY <1>3, <2>1, <2>2, DestroyTypes DEF OpenAsyncFail
  <2>4. UNCHANGED <<wvars, handle, ovars, i, opens>> /\ async' = <<>> /\ cur' = NoConn
    BY <1>3 DEF OpenAsyncFail
  <2> QED
    BY <2>3, <2>4 DEF wvars, ovars
<1>4. ASSUME NEW error \in Errors, OpenSyncFail(error)
      PROVE  TInv'
  <2>1. AfterError(error) \in ControlPC /\ AfterError(error) \notin {"open", "destroy"}
    BY DEF AfterError
  <2> QED
    BY <1>4, <2>1 DEF OpenSyncFail, wvars, ovars, dvars
<1>5. CASE OpenAsyncIncompatible
  <2>1. <<cur>> \in Seq(Conns)
    BY <1>5 DEF OpenAsyncIncompatible
  <2>2. "failed" \in ControlPC \ {"open", "destroy"}
    OBVIOUS
  <2> HIDE DEF ControlPC
  <2>3. /\ dying' \in Seq(Conns)
        /\ stage' \in {"token", "cancel", "join"}
        /\ pc' \in ControlPC
        /\ after' \in ControlPC
        /\ ControlOK'
    BY <1>5, <2>1, <2>2, DestroyTypes DEF OpenAsyncIncompatible
  <2>4. /\ UNCHANGED <<wvars, ovars, async, i, opens>> /\ cur' = NoConn
        /\ handle' \in [Conns -> {"null", "open", "closed"}]
    BY <1>5 DEF OpenAsyncIncompatible
  <2> QED
    BY <2>3, <2>4 DEF wvars, ovars
<1>6. CASE AsyncDone \/ OpenSync \/ OpenSyncIncompatible \/ SyncDone \/ Retry \/ Prepared
  BY <1>6 DEF AsyncDone, OpenSync, OpenSyncIncompatible, SyncDone, Retry, Prepared,
              wvars, ovars, dvars
<1>7. ASSUME NEW next \in {"failed", "closed"}, CloseThen(next)
      PROVE  TInv'
  <2>1. next \in ControlPC \ {"open", "destroy"}
    BY <1>7
  <2> HIDE DEF ControlPC
  <2>2. /\ dying' \in Seq(Conns)
        /\ stage' \in {"token", "cancel", "join"}
        /\ pc' \in ControlPC
        /\ after' \in ControlPC
        /\ ControlOK'
    BY <1>7, <2>1, DestroyTypes DEF CloseThen
  <2>3. UNCHANGED <<wvars, handle, ovars, cur, i, opens>> /\ async' = <<>>
    BY <1>7 DEF CloseThen
  <2> QED
    BY <2>2, <2>3 DEF wvars, ovars
<1> QED
  BY <1>1, <1>2, <1>3, <1>4, <1>5, <1>6, <1>7 DEF OpenStep, PrepareFail, Close

\* Steps of destructors preserve the types.
LEMMA TInvDestroy ==
  ASSUME TInv, QTypeOK', DestroyPool \/ DestroyStep
  PROVE  TInv'
<1> USE DEF TInv, PTypeOK, ControlOK, ControlPC
<1>1. CASE DestroyPool
  BY <1>1 DEF DestroyPool, CancelAndDelete, Destroy, wvars
<1>2. CASE SetToken
  BY <1>2 DEF SetToken, ovars
<1>3. CASE CancelQueue
  BY <1>3 DEF CancelQueue, CancelAndDelete, wvars
<1>4. CASE JoinAndClose
  <2>1. Tail(dying) \in Seq(Conns) /\ Head(dying) \in Conns
    BY <1>4 DEF JoinAndClose
  <2> QED
    BY <1>4, <2>1 DEF JoinAndClose, Closed, wvars, ovars
<1> QED
  BY <1>1, <1>2, <1>3, <1>4 DEF DestroyStep

\* Every step of the pool preserves the types; those of the queue come from the
\* queue's own invariant.
LEMMA TInvStep == TInv /\ QInv /\ [PNext]_vars => TInv'
<1> SUFFICES ASSUME TInv, QInv, [PNext]_vars
             PROVE  TInv'
  OBVIOUS
<1>1. QTypeOK'
  BY PoolStepIsQueueStep, QInvStep DEF QInv
<1>2. CASE Ended \/ UNCHANGED vars
  BY <1>1, <1>2 DEF Ended, vars, wvars, ovars, cvars, dvars, TInv, PTypeOK, ControlOK
<1> QED
  BY <1>1, <1>2, TInvThreads, TInvControl, TInvDestroy DEF PNext

\* Initially the types are right.
LEMMA TInvInit == PInit => TInv
<1> SUFFICES ASSUME PInit
             PROVE  TInv
  OBVIOUS
<1>1. QTypeOK
  BY QInvInit DEF PInit, QInv
<1>2. <<>> \in Seq(Conns)
  OBVIOUS
<1> QED
  BY <1>1, <1>2 DEF PInit, TInv, PTypeOK, ControlOK, WorkerPC, ControlPC

\* In every behaviour of the pool the types are right.
THEOREM PTypeCorrect == PSpec => []PTypeOK
<1>1. PSpec => []QInv
  BY PoolUsesQueue, QInvInit, QInvStep, PTL DEF QSpec
<1>2. TInv => PTypeOK
  BY DEF TInv
<1> QED
  BY <1>1, <1>2, TInvInit, TInvStep, PTL DEF PSpec

-----------------------------------------------------------------------------
(***************************************************************************)
(* Every operation is accounted for.                                       *)
(***************************************************************************)

\* No element occurs twice in q.
Distinct(q) == \A j, k \in 1..Len(q) : q[j] = q[k] => j = k

Elements(q) == {q[k] : k \in 1..Len(q)}

\* Appending a new element to a queue without duplicates.
LEMMA AppendElements ==
  ASSUME NEW S, NEW q \in Seq(S), NEW v \in S
  PROVE  /\ Elements(Append(q, v)) = Elements(q) \cup {v}
         /\ Distinct(q) /\ v \notin Elements(q) => Distinct(Append(q, v))
<1>1. /\ Len(Append(q, v)) = Len(q) + 1
      /\ Len(q) \in Nat
      /\ \A k \in 1..Len(q) : Append(q, v)[k] = q[k]
      /\ Append(q, v)[Len(q) + 1] = v
  OBVIOUS
<1>2. 1..(Len(q) + 1) = 1..Len(q) \cup {Len(q) + 1}
  BY <1>1
<1>3. Elements(Append(q, v)) = Elements(q) \cup {v}
  BY <1>1, <1>2 DEF Elements
<1>4. ASSUME Distinct(q), v \notin Elements(q)
      PROVE  Distinct(Append(q, v))
  BY <1>1, <1>2, <1>4 DEF Elements, Distinct
<1> QED
  BY <1>3, <1>4

\* Popping the front of a queue without duplicates.
LEMMA TailElements ==
  ASSUME NEW S, NEW q \in Seq(S), q # <<>>, Distinct(q)
  PROVE  /\ Elements(Tail(q)) = Elements(q) \ {Head(q)}
         /\ Head(q) \in Elements(q)
         /\ Head(q) \in S
         /\ Distinct(Tail(q))
<1>1. /\ Len(q) \in Nat \ {0}
      /\ Len(Tail(q)) = Len(q) - 1
      /\ Head(q) = q[1]
      /\ \A k \in 1..(Len(q) - 1) : Tail(q)[k] = q[k + 1]
  OBVIOUS
<1>2. Head(q) \in Elements(q) /\ Head(q) \in S
  BY <1>1 DEF Elements
<1>3. Elements(Tail(q)) \subseteq Elements(q) \ {Head(q)}
  BY <1>1 DEF Elements, Distinct
<1>4. ASSUME NEW e \in Elements(q), e # Head(q)
      PROVE  e \in Elements(Tail(q))
  <2>1. PICK k \in 1..Len(q) : e = q[k]
    BY DEF Elements
  <2>2. k - 1 \in 1..(Len(q) - 1) /\ Tail(q)[k - 1] = q[k]
    BY <1>1, <1>4, <2>1
  <2> QED
    BY <1>1, <2>1, <2>2 DEF Elements
<1>5. Distinct(Tail(q))
  BY <1>1 DEF Distinct
<1> QED
  BY <1>2, <1>3, <1>4, <1>5

\* What a worker holds, by where it is: an operation while it executes one,
\* none when it asks the queue for the next.
Hands == \A c \in Conns : /\ wpc[c] = "run" => wop[c] # NoOp
                          /\ wpc[c] \in {"none", "loop"} => wop[c] = NoOp

\* The invariant that the four properties need together: who holds what tells
\* that a worker finishes a live operation, which the futures rely on.
OInv == Accounting /\ Hands /\ StrandedOnlyByToken /\ FutureTracksOperation

\* Steps that neither move nor delete an operation: they may start a worker,
\* but touch no other thread, and a token is only ever set.
LEMMA OInvElsewhere ==
  ASSUME TInv, OInv, UNCHANGED <<queue, wop, obj, fut>>,
         \A c \in Conns : wpc'[c] = wpc[c] \/ (wpc[c] = "none" /\ wpc'[c] = "loop"),
         \A c \in Conns : token[c] => token'[c]
  PROVE  OInv'
<1>1. Accounting'
  BY DEF OInv, Accounting, Live, Held, Queued
<1>2. Hands'
  BY DEF OInv, Hands
<1>3. StrandedOnlyByToken'
  BY DEF OInv, StrandedOnlyByToken
<1>4. FutureTracksOperation'
  BY DEF OInv, FutureTracksOperation
<1> QED
  BY <1>1, <1>2, <1>3, <1>4 DEF OInv

\* A client submits an operation.
LEMMA OInvEnqueue ==
  ASSUME TInv, OInv, NEW o \in Ops, NEW future \in {"none", "pending"}, Enqueue(o, future)
  PROVE  OInv'
<1> USE DEF OInv
<1>1. queue \in Seq(Ops) /\ queue' = Append(queue, o)
  BY DEF TInv, PTypeOK, QTypeOK, Ops, Enqueue, Push
<1>2. UNCHANGED <<wpc, wop, token>>
  BY DEF Enqueue, wvars
<1>3. o \notin Live /\ Live' = Live \cup {o}
  BY DEF Enqueue, Live, TInv, PTypeOK
<1>4. /\ Queued = Elements(queue) /\ Queued' = Elements(queue')
      /\ Distinct(queue)
  BY DEF Queued, Elements, Accounting, Distinct
<1>5. o \notin Elements(queue) /\ o \notin Held
  BY <1>3, <1>4 DEF Accounting
<1>6. Queued' = Queued \cup {o} /\ Distinct(queue')
  BY <1>1, <1>4, <1>5, AppendElements
<1>7. Held' = Held
  BY <1>2 DEF Held
<1>8. Accounting'
  BY <1>2, <1>3, <1>5, <1>6, <1>7 DEF Accounting, Distinct
<1>9. Hands' /\ StrandedOnlyByToken'
  BY <1>2 DEF Hands, StrandedOnlyByToken
<1>10. FutureTracksOperation'
  BY DEF Enqueue, FutureTracksOperation, TInv, PTypeOK
<1> QED
  BY <1>8, <1>9, <1>10

\* A worker pops an operation: it moves from the queue to the worker's hands.
LEMMA OInvTake ==
  ASSUME TInv, OInv, NEW c \in Conns, WorkerTake(c)
  PROVE  OInv'
<1> USE DEF OInv
<1>1. /\ queue \in Seq(Ops) /\ queue # <<>> /\ queue' = Tail(queue)
      /\ wop' = [wop EXCEPT ![c] = Head(queue)]
      /\ wpc' = [wpc EXCEPT ![c] = "check"]
      /\ UNCHANGED <<token, obj, fut>>
  BY DEF TInv, PTypeOK, QTypeOK, Ops, WorkerTake, WaitTake, ovars
<1>2. /\ Queued = Elements(queue) /\ Queued' = Elements(queue')
      /\ Distinct(queue)
  BY DEF Queued, Elements, Accounting, Distinct
<1>3. /\ Queued' = Queued \ {Head(queue)} /\ Head(queue) \in Queued
      /\ Head(queue) \in Ops
      /\ Distinct(queue')
  BY <1>1, <1>2, TailElements
<1>4. wop \in [Conns -> Ops \cup {NoOp}] /\ wpc \in [Conns -> WorkerPC]
  BY DEF TInv, PTypeOK
<1>5. wop[c] = NoOp
  BY DEF WorkerTake, Hands
<1>6. Head(queue) # NoOp
  BY <1>3, PoolAssumption
<1>7. Held' = Held \cup {Head(queue)}
  BY <1>1, <1>4, <1>5, <1>6 DEF Held
<1>8. Head(queue) \notin Held
  BY <1>3 DEF Accounting
<1>9. \A d, e \in Conns : wop'[d] = wop'[e] => d = e \/ wop'[d] = NoOp
  <2>1. \A d \in Conns : wop[d] # Head(queue)
    BY <1>6, <1>8 DEF Held
  <2> QED
    BY <1>1, <1>4, <2>1 DEF Accounting
<1>10. Accounting'
  BY <1>1, <1>3, <1>7, <1>8, <1>9 DEF Accounting, Live, Distinct
<1>11. Hands' /\ StrandedOnlyByToken'
  BY <1>1, <1>4 DEF Hands, StrandedOnlyByToken
<1>12. FutureTracksOperation'
  BY <1>1 DEF FutureTracksOperation
<1> QED
  BY <1>10, <1>11, <1>12

\* A worker has executed its operation and deletes it.
LEMMA OInvFinish ==
  ASSUME TInv, OInv, NEW c \in Conns, WorkerFinish(c)
  PROVE  OInv'
<1> USE DEF OInv
<1>1. /\ UNCHANGED <<queue, token>>
      /\ wop' = [wop EXCEPT ![c] = NoOp]
      /\ wpc' = [wpc EXCEPT ![c] = "loop"]
      /\ obj' = [obj EXCEPT ![wop[c]] = "done"]
      /\ fut' = [fut EXCEPT ![wop[c]] = Resolved(wop[c])]
  BY DEF WorkerFinish, qvars
<1>2. /\ wop \in [Conns -> Ops \cup {NoOp}] /\ wpc \in [Conns -> WorkerPC]
      /\ obj \in [Ops -> {"unborn", "live", "done", "dropped"}]
      /\ fut \in [Ops -> {"none", "pending", "ready", "broken"}]
  BY DEF TInv, PTypeOK
<1>3. wop[c] # NoOp /\ wop[c] \in Ops
  BY <1>2 DEF WorkerFinish, Hands
<1>4. wop[c] \in Held /\ obj[wop[c]] = "live"
  BY <1>3 DEF Held, Live, Accounting
<1>5. Live' = Live \ {wop[c]}
  BY <1>1, <1>2, <1>3 DEF Live
<1>6. Held' = Held \ {wop[c]}
  BY <1>1, <1>2, <1>3 DEF Held, Accounting
<1>7. Queued' = Queued
  BY <1>1 DEF Queued
<1>8. \A d, e \in Conns : wop'[d] = wop'[e] => d = e \/ wop'[d] = NoOp
  BY <1>1, <1>2 DEF Accounting
<1>9. Accounting'
  BY <1>1, <1>4, <1>5, <1>6, <1>7, <1>8 DEF Accounting
<1>10. Hands' /\ StrandedOnlyByToken'
  BY <1>1, <1>2 DEF Hands, StrandedOnlyByToken
<1>11. FutureTracksOperation'
  BY <1>1, <1>2, <1>3, <1>4 DEF FutureTracksOperation, Resolved
<1> QED
  BY <1>9, <1>10, <1>11

\* A worker's other steps: it looks at what it got, or at its token.
LEMMA OInvWorker ==
  ASSUME TInv, OInv, NEW c \in Conns,
         WorkerSleep(c) \/ WorkerReturn(c) \/ WorkerCheck(c) \/ WorkerWake(c)
  PROVE  OInv'
<1> USE DEF OInv
<1>1. UNCHANGED <<queue, wop, token, obj, fut>>
  BY DEF WorkerSleep, WorkerReturn, WorkerCheck, WorkerWake, WaitBlock, WaitReturn,
         SpuriousWake, qvars, wvars, ovars
<1>2. Accounting' /\ FutureTracksOperation'
  BY <1>1 DEF Accounting, FutureTracksOperation, Live, Held, Queued
<1>3. wpc \in [Conns -> WorkerPC]
  BY DEF TInv, PTypeOK
<1>4. CASE WorkerCheck(c)
  BY <1>1, <1>2, <1>3, <1>4 DEF WorkerCheck, Hands, StrandedOnlyByToken
<1>5. CASE WorkerReturn(c)
  BY <1>1, <1>2, <1>3, <1>5 DEF WorkerReturn, Hands, StrandedOnlyByToken
<1>6. CASE WorkerSleep(c) \/ WorkerWake(c)
  BY <1>1, <1>2, <1>6 DEF WorkerSleep, WorkerWake, wvars, Hands, StrandedOnlyByToken
<1> QED
  BY <1>4, <1>5, <1>6

\* A Cancel of the queue, by a worker's destructor or by the pool's.
LEMMA OInvCancel ==
  ASSUME TInv, OInv, CancelAndDelete, UNCHANGED wvars
  PROVE  OInv'
<1> USE DEF OInv
<1>1. /\ queue' = <<>>
      /\ obj' = [o \in Ops |-> IF o \in Queued THEN "dropped" ELSE obj[o]]
      /\ fut' = [o \in Ops |-> IF o \in Queued /\ fut[o] = "pending" THEN "broken" ELSE fut[o]]
      /\ UNCHANGED <<wpc, wop, token>>
  BY DEF CancelAndDelete, Cancel, wvars
<1>2. Queued' = {} /\ Len(queue') = 0
  BY <1>1 DEF Queued
<1>3. Live' = Live \ Queued
  BY <1>1 DEF Live
<1>4. Held' = Held
  BY <1>1 DEF Held
<1>5. Accounting'
  BY <1>1, <1>2, <1>3, <1>4 DEF Accounting
<1>6. Hands' /\ StrandedOnlyByToken'
  BY <1>1 DEF Hands, StrandedOnlyByToken
<1>7. \A o \in Queued : obj[o] = "live"
  BY DEF Accounting, Live
<1>8. FutureTracksOperation'
  BY <1>1, <1>7 DEF FutureTracksOperation
<1> QED
  BY <1>5, <1>6, <1>8

\* Every step of the pool preserves the invariant.
LEMMA OInvStep == TInv /\ OInv /\ [PNext]_vars => OInv'
<1> SUFFICES ASSUME TInv, OInv, [PNext]_vars
             PROVE  OInv'
  OBVIOUS
<1>t. /\ wpc \in [Conns -> WorkerPC]
      /\ token \in [Conns -> BOOLEAN]
      /\ pc = "destroy" => Head(dying) \in Conns
  BY DEF TInv, PTypeOK, ControlOK
<1>1. ASSUME NEW o \in Ops, Execute(o) \/ AsyncQuery(o)
      PROVE  OInv'
  BY <1>1, OInvEnqueue DEF Execute, AsyncQuery
<1>2. ASSUME NEW c \in Conns, WorkerStep(c) \/ WorkerWake(c)
      PROVE  OInv'
  BY <1>2, OInvTake, OInvFinish, OInvWorker DEF WorkerStep
<1>3. ASSUME NEW c \in Conns, ConstructAsync(c)
      PROVE  OInv'
  BY <1>3, <1>t, OInvElsewhere DEF ConstructAsync, qvars, ovars
<1>4. CASE UNCHANGED <<qvars, wvars, ovars>>
  BY <1>4, OInvElsewhere DEF qvars, wvars, ovars
<1>5. CASE SetToken
  BY <1>5, <1>t, OInvElsewhere DEF SetToken, qvars, ovars
<1>6. CASE DestroyPool \/ CancelQueue
  BY <1>6, OInvCancel DEF DestroyPool, CancelQueue
<1>7. CASE OpenStep /\ ~\E c \in Conns : ConstructAsync(c)
  <2>1. UNCHANGED <<qvars, wvars, ovars>>
    BY <1>7 DEF OpenStep, OpenAsync, OpenAsyncFail, OpenSyncFail,
                OpenAsyncIncompatible, AsyncDone, OpenSync, OpenSyncIncompatible,
                SyncDone, Retry, Prepared, PrepareFail, CloseThen
  <2> QED
    BY <2>1, <1>4
<1>8. CASE Close \/ JoinAndClose \/ Ended \/ UNCHANGED vars
  <2>1. UNCHANGED <<qvars, wvars, ovars>>
    BY <1>8 DEF Close, CloseThen, JoinAndClose, Ended, vars
  <2> QED
    BY <2>1, <1>4
<1> QED
  BY <1>1, <1>2, <1>3, <1>5, <1>6, <1>7, <1>8 DEF PNext, DestroyStep

\* Initially there is no operation.
LEMMA OInvInit == PInit => OInv
<1> SUFFICES ASSUME PInit
             PROVE  OInv
  OBVIOUS
<1>1. queue = <<>> /\ Queued = {} /\ Live = {} /\ Held = {}
  BY DEF PInit, QInit, Queued, Live, Held
<1> QED
  BY <1>1 DEF PInit, OInv, Accounting, Hands, StrandedOnlyByToken, FutureTracksOperation

\* The types and the invariant hold in every behaviour of the pool.
LEMMA OInvHolds == PSpec => [](TInv /\ OInv)
<1>1. PSpec => []QInv
  BY PoolUsesQueue, QInvInit, QInvStep, PTL DEF QSpec
<1> QED
  BY <1>1, TInvInit, TInvStep, OInvInit, OInvStep, PTL DEF PSpec

\* Whatever the order in which clients push, workers pop and destructors cancel,
\* every operation that was not deleted is in exactly one place, and so none is
\* executed or deleted twice and none is lost without a trace.
THEOREM OperationsAccounted == PSpec => []Accounting
<1>1. OInv => Accounting
  BY DEF OInv
<1> QED
  BY <1>1, OInvHolds, PTL

\* A worker abandons an operation only when its own connection is destroyed.
THEOREM OnlyTokenStrands == PSpec => []StrandedOnlyByToken
<1>1. OInv => StrandedOnlyByToken
  BY DEF OInv
<1> QED
  BY <1>1, OInvHolds, PTL

\* A future never lies: ready means executed, broken means dropped, pending
\* means that the operation still exists.
THEOREM FuturesTellTheTruth == PSpec => []FutureTracksOperation
<1>1. OInv => FutureTracksOperation
  BY DEF OInv
<1> QED
  BY <1>1, OInvHolds, PTL

-----------------------------------------------------------------------------
(***************************************************************************)
(* Every worker thread has an owner, and every operation an open handle.   *)
(***************************************************************************)

\* The connections somebody will still destroy, with their worker.
Owned == Elements(async) \cup Elements(dying) \cup {cur}

\* A connection has one owner: the vector, the function constructing it or the
\* destruction under way; a worker thread that runs belongs to an owned one.
Ownership ==
    /\ Distinct(async)
    /\ Distinct(dying)
    /\ Elements(async) \cap Elements(dying) = {}
    /\ cur \notin Elements(async)
    /\ pc # "open" => cur = NoConn
    /\ pc # "destroy" => dying = <<>>
    /\ \A c \in Conns : /\ wpc[c] = "none" => c \notin Owned
                        /\ wpc[c] \notin {"none", "exited"} => c \in Owned

\* Load has returned true, so that there may be operations; or the pool's
\* destructor runs.
Loaded == pc \in {"opened", "closed", "gone"} \/ (pc = "destroy" /\ after \in {"closed", "gone"})

\* The handles of the connections of a loaded pool are open until each is joined.
Handles ==
    /\ \A c \in Elements(async) : handle[c] = "open"
    /\ Loaded => \A c \in Elements(dying) : handle[c] = "open"

\* The destructor of the pool leaves no connection in the vector.
Emptied == pc = "gone" \/ (pc = "destroy" /\ after = "gone") => async = <<>>

\* A pool that was opened has a connection to take down: when it is closed, a
\* token has been set.
Closing == shutdown \/ \E c \in Conns : token[c]

Staffed ==
    /\ pc \in {"async", "open"} /\ i > 0 => async # <<>>
    /\ pc \in {"sync", "prepare", "opened"} => async # <<>>
    /\ pc = "closed" => Closing
    /\ pc = "destroy" /\ stage # "token" => token[Head(dying)]
    /\ after \in {"failed", "retry", "closed", "gone"}

\* The invariant of the controlling thread.
CInv == /\ Ownership
        /\ Handles
        /\ Emptied
        /\ Live # {} => Loaded
        /\ Staffed

\* Steps of clients and workers: the controlling thread does not move, a worker
\* moves only if it runs, and only a loaded pool takes new operations.
LEMMA CInvThreads ==
  ASSUME TInv, CInv, UNCHANGED <<cvars, handle, token, shutdown>>,
         \A c \in Conns : \/ wpc'[c] = wpc[c]
                          \/ wpc[c] \notin {"none", "exited"} /\ wpc'[c] # "none",
         Live' \subseteq Live \/ Loaded
  PROVE  CInv'
<1>1. UNCHANGED <<pc, async, cur, i, dying, stage, after>>
  BY DEF cvars, dvars
<1>2. UNCHANGED <<Owned, Loaded, Elements(async), Elements(dying), Closing>>
  BY <1>1 DEF Owned, Loaded, Elements, Closing
<1>3. Ownership'
  BY <1>1, <1>2 DEF CInv, Ownership, Distinct
<1>4. Handles' /\ Emptied' /\ (Live' # {} => Loaded')
  BY <1>1, <1>2 DEF CInv, Handles, Emptied
<1>5. Staffed'
  BY <1>1, <1>2 DEF CInv, Staffed
<1> QED
  BY <1>3, <1>4, <1>5 DEF CInv

\* A client submits an operation.
LEMMA CInvEnqueue ==
  ASSUME TInv, CInv, NEW o \in Ops, Execute(o) \/ AsyncQuery(o)
  PROVE  CInv'
<1>1. UNCHANGED <<cvars, handle, wpc, token, shutdown>>
  BY DEF Execute, AsyncQuery, Enqueue, Push, wvars
<1>2. Loaded
  BY DEF Execute, AsyncQuery, Enqueue, Serving, Loaded
<1> QED
  BY <1>1, <1>2, CInvThreads

\* A worker thread takes a step.
LEMMA CInvWorker ==
  ASSUME TInv, OInv, CInv, NEW c \in Conns, WorkerStep(c) \/ WorkerWake(c)
  PROVE  CInv'
<1>1. UNCHANGED <<cvars, handle, token, shutdown>>
  BY DEF WorkerStep, WorkerWake, WorkerSleep, WorkerTake, WorkerReturn, WorkerCheck,
         WorkerFinish, SpuriousWake, WaitBlock, WaitTake, WaitReturn, wvars, qvars
<1>2. wpc \in [Conns -> WorkerPC] /\ obj \in [Ops -> {"unborn", "live", "done", "dropped"}]
  BY DEF TInv, PTypeOK
<1>3. \A d \in Conns : \/ wpc'[d] = wpc[d]
                       \/ wpc[d] \notin {"none", "exited"} /\ wpc'[d] # "none"
  BY <1>2 DEF WorkerStep, WorkerWake, WorkerSleep, WorkerTake, WorkerReturn, WorkerCheck,
              WorkerFinish, wvars
<1>4. Live' \subseteq Live
  <2>1. obj' = obj \/ obj' = [obj EXCEPT ![wop[c]] = "done"]
    BY DEF WorkerStep, WorkerWake, WorkerSleep, WorkerTake, WorkerReturn, WorkerCheck,
           WorkerFinish, ovars
  <2> QED
    BY <2>1, <1>2 DEF Live
<1> QED
  BY <1>1, <1>3, <1>4, CInvThreads

\* A connection is constructed, with its worker.
LEMMA CInvConstruct ==
  ASSUME TInv, CInv, NEW c \in Conns, ConstructAsync(c)
  PROVE  CInv'
<1>1. /\ pc = "async" /\ pc' = "open" /\ cur' = c
      /\ wpc[c] = "none" /\ wpc' = [wpc EXCEPT ![c] = "loop"]
      /\ UNCHANGED <<async, dying, stage, after, i, handle, obj, token, shutdown>>
  BY DEF ConstructAsync, ovars, dvars, qvars
<1>2. wpc \in [Conns -> WorkerPC] /\ NoConn \notin Conns
  BY PoolAssumption DEF TInv, PTypeOK
<1>3. UNCHANGED <<Elements(async), Elements(dying), Live, Closing>>
  BY <1>1 DEF Elements, Live, Closing
<1>4. c \notin Elements(async) /\ cur = NoConn
  BY <1>1 DEF CInv, Ownership, Owned
<1>5. Ownership'
  <2>1. Owned' = (Owned \ {NoConn}) \cup {c} \/ Owned' = Owned \cup {c}
    BY <1>1, <1>3, <1>4 DEF Owned
  <2>2. ASSUME NEW d \in Conns
        PROVE  /\ wpc'[d] = "none" => d \notin Owned'
               /\ wpc'[d] \notin {"none", "exited"} => d \in Owned'
    BY <2>1, <1>1, <1>2 DEF CInv, Ownership
  <2>3. Distinct(async)' /\ Distinct(dying)'
    BY <1>1 DEF CInv, Ownership, Distinct
  <2> QED
    BY <2>2, <2>3, <1>1, <1>3, <1>4 DEF CInv, Ownership
<1>6. Handles' /\ Emptied' /\ (Live' # {} => Loaded')
  BY <1>1, <1>3 DEF CInv, Handles, Emptied, Loaded
<1>7. Staffed'
  BY <1>1, <1>3 DEF CInv, Staffed
<1> QED
  BY <1>5, <1>6, <1>7 DEF CInv

\* The connection under construction is opened and becomes the vector's.
LEMMA CInvOpen ==
  ASSUME TInv, CInv, OpenAsync
  PROVE  CInv'
<1>1. /\ pc = "open" /\ pc' = "async" /\ cur \in Conns /\ cur' = NoConn
      /\ async \in Seq(Conns) /\ async' = Append(async, cur)
      /\ handle' = [handle EXCEPT ![cur] = "open"]
      /\ handle \in [Conns -> {"null", "open", "closed"}]
      /\ UNCHANGED <<wpc, dying, stage, after, obj>>
  BY DEF OpenAsync, TInv, PTypeOK, ControlOK, wvars, ovars, dvars
<1>2. dying = <<>> /\ dying' = <<>> /\ Elements(dying) = {} /\ Elements(dying)' = {}
  BY <1>1 DEF CInv, Ownership, Elements
<1>3. /\ Elements(async)' = Elements(async) \cup {cur}
      /\ Distinct(async)' 
  BY <1>1, AppendElements DEF CInv, Ownership
<1>3a. Elements(async) \subseteq Conns
  BY <1>1 DEF Elements
<1>4. Owned' = Owned \cup {NoConn}
  BY <1>1, <1>2, <1>3 DEF Owned
<1>5. Ownership'
  BY <1>1, <1>2, <1>3, <1>3a, <1>4, PoolAssumption DEF CInv, Ownership, Distinct
<1>6. Handles'
  BY <1>1, <1>2, <1>3, <1>3a DEF CInv, Handles
<1>7. Emptied' /\ (Live' # {} => Loaded')
  BY <1>1 DEF CInv, Emptied, Loaded, Live
<1>8. Staffed'
  BY <1>1 DEF CInv, Staffed
<1> QED
  BY <1>5, <1>6, <1>7, <1>8 DEF CInv

\* Owned connections are handed over for destruction: those of s go, those of
\* rest stay in the vector; together they are what was owned.
LEMMA CInvDestroy ==
  ASSUME TInv, CInv, pc # "destroy", pc # "gone",
         NEW s \in Seq(Conns), NEW next \in {"failed", "retry", "closed", "gone"},
         Destroy(s, next), cur' = NoConn,
         async' \in Seq(Conns), Distinct(async'), Distinct(s),
         Elements(async') \cap Elements(s) = {},
         Elements(async') \cup Elements(s) = (Owned \ {NoConn}),
         next = "gone" => async' = <<>>,
         \A c \in Elements(async') : handle'[c] = "open",
         next \in {"closed", "gone"} => \A c \in Elements(s) : handle'[c] = "open",
         next = "closed" => s # <<>>,
         UNCHANGED wpc, Live' = {} \/ next \in {"closed", "gone"}
  PROVE  CInv'
<1>1. /\ dying' = s /\ stage' = "token" /\ after' = next
      /\ pc' = IF s = <<>> THEN next ELSE "destroy"
  BY DEF Destroy
<1>2. Elements(<<>>) = {}
  BY DEF Elements
<1>3. NoConn \notin Elements(s) /\ NoConn \notin Elements(async')
  OBVIOUS
<1>4. /\ Elements(async)' = Elements(async')
      /\ Elements(dying)' = Elements(s)
      /\ Distinct(async)' /\ Distinct(dying)'
  BY <1>1 DEF Elements, Distinct
<1>5. Owned' = Owned \cup {NoConn}
  BY <1>4 DEF Owned
<1>6. Ownership'
  <2>1. ASSUME NEW d \in Conns
        PROVE  /\ wpc'[d] = "none" => d \notin Owned'
               /\ wpc'[d] \notin {"none", "exited"} => d \in Owned'
    BY <1>5, PoolAssumption DEF CInv, Ownership
  <2>2. pc' # "destroy" => dying' = <<>>
    BY <1>1
  <2> QED
    BY <2>1, <2>2, <1>3, <1>4 DEF Ownership
<1>7. Handles'
  <2>1. Loaded' => s = <<>> \/ next \in {"closed", "gone"}
    BY <1>1 DEF Loaded
  <2> QED
    BY <2>1, <1>2, <1>4 DEF Handles
<1>8. Emptied' /\ (Live' # {} => Loaded')
  BY <1>1 DEF Emptied, Loaded
<1>9. Staffed'
  BY <1>1 DEF Staffed
<1> QED
  BY <1>6, <1>7, <1>8, <1>9 DEF CInv

\* Open fails, at the asynchronous connection under construction.
LEMMA CInvOpenFails ==
  ASSUME TInv, CInv, OpenAsyncIncompatible \/ \E error \in Errors : OpenAsyncFail(error)
  PROVE  CInv'
<1>1. /\ pc = "open" /\ cur \in Conns /\ async \in Seq(Conns) /\ cur' = NoConn
      /\ handle \in [Conns -> {"null", "open", "closed"}]
      /\ UNCHANGED <<wpc, obj>>
  BY DEF OpenAsyncIncompatible, OpenAsyncFail, TInv, PTypeOK, ControlOK, wvars, ovars
<1>2. /\ Elements(dying) = {} /\ Live' = {} /\ Distinct(async) /\ cur \notin Elements(async)
      /\ Elements(async) \subseteq Conns
      /\ \A c \in Elements(async) : handle[c] = "open"
  BY <1>1 DEF CInv, Ownership, Elements, Loaded, Live, Handles
<1>3. Owned \ {NoConn} = Elements(async) \cup {cur}
  BY <1>1, <1>2, PoolAssumption DEF Owned
<1>4. Elements(<<>>) = {} /\ Distinct(<<>>) /\ <<>> \in Seq(Conns)
  BY DEF Elements, Distinct
<1>5. CASE \E error \in Errors : OpenAsyncFail(error)
  <2>1. PICK error \in Errors : OpenAsyncFail(error)
    BY <1>5
  <2>2. /\ Destroy(Append(async, cur), AfterError(error))
        /\ async' = <<>>
        /\ AfterError(error) \in {"retry", "failed"}
    BY <2>1 DEF OpenAsyncFail, AfterError
  <2>3. /\ Append(async, cur) \in Seq(Conns)
        /\ Elements(Append(async, cur)) = Elements(async) \cup {cur}
        /\ Distinct(Append(async, cur))
    BY <1>1, <1>2, AppendElements
  <2> QED
    BY <2>2, <2>3, <1>1, <1>2, <1>3, <1>4, CInvDestroy
<1>6. CASE OpenAsyncIncompatible
  <2>1. /\ Destroy(<<cur>>, "failed")
        /\ async' = async
        /\ handle' = [handle EXCEPT ![cur] = "open"]
    BY <1>6 DEF OpenAsyncIncompatible
  <2>2. <<cur>> \in Seq(Conns) /\ Elements(<<cur>>) = {cur} /\ Distinct(<<cur>>)
    BY <1>1 DEF Elements, Distinct
  <2> QED
    BY <2>1, <2>2, <1>1, <1>2, <1>3, CInvDestroy
<1> QED
  BY <1>5, <1>6

\* The vector is cleared: by PrepareStatements, Close or the pool's destructor.
LEMMA CInvClear ==
  ASSUME TInv, CInv, PrepareFail \/ Close \/ DestroyPool
  PROVE  CInv'
<1>1. /\ pc \in {"prepare", "opened", "closed", "failed"}
      /\ async \in Seq(Conns) /\ async' = <<>> /\ cur' = cur
      /\ UNCHANGED <<wpc, handle>>
  BY DEF PrepareFail, Close, CloseThen, DestroyPool, TInv, PTypeOK, wvars
<1>2. /\ cur = NoConn /\ Elements(dying) = {} /\ Distinct(async)
      /\ Elements(async) \subseteq Conns
      /\ \A c \in Elements(async) : handle[c] = "open"
  BY <1>1 DEF CInv, Ownership, Elements, Handles
<1>3. Owned \ {NoConn} = Elements(async)
  BY <1>1, <1>2, PoolAssumption DEF Owned
<1>4. Elements(<<>>) = {} /\ Distinct(<<>>) /\ <<>> \in Seq(Conns)
  BY DEF Elements, Distinct
<1>5. CASE PrepareFail
  <2>1. pc = "prepare" /\ Destroy(async, "failed") /\ UNCHANGED obj
    BY <1>5 DEF PrepareFail, CloseThen, ovars
  <2>2. Live' = {}
    BY <2>1 DEF CInv, Loaded, Live
  <2> QED
    BY <2>1, <2>2, <1>1, <1>2, <1>3, <1>4, CInvDestroy
<1>6. CASE Close
  <2>1. pc = "opened" /\ Destroy(async, "closed")
    BY <1>6 DEF Close, CloseThen
  <2>2. async # <<>>
    BY <2>1 DEF CInv, Staffed
  <2> QED
    BY <2>1, <2>2, <1>1, <1>2, <1>3, <1>4, CInvDestroy
<1>7. CASE DestroyPool
  <2>1. Destroy(async, "gone")
    BY <1>7 DEF DestroyPool
  <2> QED
    BY <2>1, <1>1, <1>2, <1>3, <1>4, CInvDestroy
<1> QED
  BY <1>5, <1>6, <1>7

\* The other steps of opening: only the controlling thread moves.
LEMMA CInvControl ==
  ASSUME TInv, CInv,
         \/ AsyncDone \/ OpenSync \/ OpenSyncIncompatible \/ SyncDone \/ Retry \/ Prepared
         \/ \E error \in Errors : OpenSyncFail(error)
  PROVE  CInv'
<1>1. /\ UNCHANGED <<wpc, token, handle, obj, shutdown, async, cur, dying, stage, after>>
      /\ pc \notin {"open", "destroy", "gone"} /\ pc' \notin {"open", "destroy", "gone", "closed"}
      /\ pc \notin {"opened", "closed"}
  BY DEF AsyncDone, OpenSync, OpenSyncIncompatible, SyncDone, Retry, Prepared,
         OpenSyncFail, AfterError, wvars, ovars, dvars, qvars
<1>2. UNCHANGED <<Owned, Elements(async), Elements(dying), Live>>
  BY <1>1 DEF Owned, Elements, Live
<1>3. Ownership'
  BY <1>1, <1>2 DEF CInv, Ownership, Distinct
<1>4. Handles' /\ Emptied' /\ (Live' # {} => Loaded')
  BY <1>1, <1>2 DEF CInv, Handles, Emptied, Loaded, Ownership, Elements
<1>5. Staffed'
  <2>1. i \in Nat /\ AsyncThreads \in Nat \ {0}
    BY PoolAssumption DEF TInv, PTypeOK
  <2>2. /\ pc' = "async" => pc = "retry" /\ i' = 0
        /\ pc' \in {"sync", "prepare", "opened"} =>
             pc \in {"sync", "prepare"} \/ (pc = "async" /\ i = AsyncThreads)
    BY DEF AsyncDone, OpenSync, OpenSyncIncompatible, SyncDone, Retry, Prepared,
           OpenSyncFail, AfterError
  <2> QED
    BY <1>1, <2>1, <2>2 DEF CInv, Staffed
<1> QED
  BY <1>3, <1>4, <1>5 DEF CInv

\* The destructor of the first dying connection: its token, then the queue.
LEMMA CInvTokenCancel ==
  ASSUME TInv, CInv, SetToken \/ CancelQueue
  PROVE  CInv'
<1>1. /\ UNCHANGED <<wpc, handle, pc, async, cur, i, dying, after>>
      /\ pc = "destroy" /\ dying # <<>> /\ Head(dying) \in Conns
      /\ token \in [Conns -> BOOLEAN]
      /\ obj \in [Ops -> {"unborn", "live", "done", "dropped"}]
  BY DEF SetToken, CancelQueue, wvars, TInv, PTypeOK, ControlOK
<1>2. UNCHANGED <<Owned, Elements(async), Elements(dying), Loaded>>
  BY <1>1 DEF Owned, Elements, Loaded
<1>3. Live' \subseteq Live
  BY <1>1 DEF SetToken, CancelQueue, CancelAndDelete, Live, ovars
<1>4. Ownership'
  BY <1>1, <1>2 DEF CInv, Ownership, Distinct
<1>5. Handles' /\ Emptied' /\ (Live' # {} => Loaded')
  BY <1>1, <1>2, <1>3 DEF CInv, Handles, Emptied
<1>6. Staffed'
  BY <1>1 DEF CInv, Staffed, SetToken, CancelQueue, wvars
<1> QED
  BY <1>4, <1>5, <1>6 DEF CInv

\* The worker of the first dying connection is joined and its handle closed.
LEMMA CInvJoin ==
  ASSUME TInv, CInv, JoinAndClose
  PROVE  CInv'
<1>1. /\ pc = "destroy" /\ stage = "join" /\ stage' = "token"
      /\ dying \in Seq(Conns) /\ dying # <<>> /\ dying' = Tail(dying)
      /\ wpc[Head(dying)] = "exited"
      /\ handle' = [handle EXCEPT ![Head(dying)] = Closed(Head(dying))]
      /\ handle \in [Conns -> {"null", "open", "closed"}]
      /\ pc' = IF Tail(dying) = <<>> THEN after ELSE "destroy"
      /\ after \notin {"open", "destroy"}
      /\ UNCHANGED <<wpc, token, obj, shutdown, async, cur, i, after>>
  BY DEF JoinAndClose, TInv, PTypeOK, ControlOK, wvars, ovars, qvars
<1>2. /\ Elements(dying)' = Elements(dying) \ {Head(dying)}
      /\ Head(dying) \in Elements(dying) /\ Head(dying) \in Conns
      /\ Distinct(dying)'
  BY <1>1, TailElements DEF CInv, Ownership
<1>3. UNCHANGED <<Elements(async), Live, Closing>>
  BY <1>1 DEF Elements, Live, Closing
<1>4. cur = NoConn
  BY <1>1 DEF CInv, Ownership
<1>5. Owned' = Owned \ {Head(dying)}
  BY <1>1, <1>2, <1>3, <1>4, PoolAssumption DEF Owned, CInv, Ownership
<1>6. Ownership'
  BY <1>1, <1>2, <1>3, <1>4, <1>5 DEF CInv, Ownership, Distinct
<1>7. Handles'
  <2>1. Elements(async) \subseteq Conns /\ Elements(dying) \subseteq Conns
    BY <1>1 DEF TInv, PTypeOK, Elements
  <2>2. Head(dying) \notin Elements(async)
    BY <1>2 DEF CInv, Ownership
  <2>3. Loaded' => Loaded \/ dying' = <<>>
    BY <1>1 DEF Loaded
  <2>4. dying' = <<>> => Elements(dying)' = {}
    BY DEF Elements
  <2> QED
    BY <1>1, <1>2, <1>3, <2>1, <2>2, <2>3, <2>4 DEF CInv, Handles
<1>8. Emptied'
  BY <1>1 DEF CInv, Emptied
<1>9. Live' # {} => Loaded'
  BY <1>1, <1>3 DEF CInv, Loaded
<1>10. Staffed'
  <2>1. Closing'
    BY <1>1, <1>2, <1>3 DEF CInv, Staffed, Closing
  <2>2. after \notin {"async", "sync", "prepare", "opened"}
    BY DEF CInv, Staffed
  <2> QED
    BY <1>1, <2>1, <2>2 DEF CInv, Staffed
<1> QED
  BY <1>6, <1>7, <1>8, <1>9, <1>10 DEF CInv

\* Every step of the pool preserves the invariant of the controlling thread.
LEMMA CInvStep == TInv /\ OInv /\ CInv /\ [PNext]_vars => CInv'
<1> SUFFICES ASSUME TInv, OInv, CInv, [PNext]_vars
             PROVE  CInv'
  OBVIOUS
<1>1. CASE OpenStep
  BY <1>1, CInvConstruct, CInvOpen, CInvOpenFails, CInvClear, CInvControl DEF OpenStep
<1>2. CASE DestroyStep
  BY <1>2, CInvTokenCancel, CInvJoin DEF DestroyStep
<1>3. CASE Ended \/ UNCHANGED vars
  <2>1. UNCHANGED <<cvars, handle, token, shutdown, wpc, obj>>
    BY <1>3 DEF Ended, vars, qvars, wvars, ovars
  <2>2. Live' = Live
    BY <2>1 DEF Live
  <2> QED
    BY <2>1, <2>2, CInvThreads
<1> QED
  BY <1>1, <1>2, <1>3, CInvEnqueue, CInvWorker, CInvClear DEF PNext

\* Initially nothing is owned and nothing runs.
LEMMA CInvInit == PInit => CInv
<1> SUFFICES ASSUME PInit
             PROVE  CInv
  OBVIOUS
<1>1. Elements(async) = {} /\ Elements(dying) = {} /\ Live = {} /\ i = 0 /\ ~(i > 0)
  BY DEF PInit, Elements, Live
<1>2. Owned = {NoConn}
  BY <1>1 DEF PInit, Owned
<1>3. Ownership
  BY <1>1, <1>2, PoolAssumption DEF PInit, Ownership, Distinct
<1> QED
  BY <1>1, <1>3 DEF PInit, CInv, Handles, Emptied, Staffed

\* The invariants of the operations and of the controlling thread hold together.
LEMMA CInvHolds == PSpec => [](TInv /\ OInv /\ CInv)
BY OInvHolds, CInvInit, CInvStep, PTL DEF PSpec

\* A worker executes only on a connection whose handle is open, whichever way
\* Open failed before and whenever the pool is closed.
THEOREM WorkersRunOnOpenHandles == PSpec => []RunsOnOpenHandle
<1>1. TInv /\ OInv /\ CInv => RunsOnOpenHandle
  <2> SUFFICES ASSUME TInv, OInv, CInv, NEW c \in Conns, wpc[c] = "run"
               PROVE  wop[c] # NoOp /\ handle[c] = "open"
    BY DEF RunsOnOpenHandle
  <2>1. wop[c] # NoOp
    BY DEF OInv, Hands
  <2>2. Loaded
    BY <2>1 DEF OInv, Accounting, Held, CInv
  <2>3. c \in Elements(async) \cup Elements(dying)
    BY <2>2, PoolAssumption DEF CInv, Ownership, Owned, Loaded
  <2> QED
    BY <2>1, <2>2, <2>3 DEF CInv, Handles
<1> QED
  BY <1>1, CInvHolds, PTL

\* When the queue is destroyed no worker is left that could touch it.
THEOREM WorkersEndBeforeQueue == PSpec => []QueueOutlivesWorkers
<1>1. CInv => QueueOutlivesWorkers
  <2> SUFFICES ASSUME CInv, pc = "gone"
               PROVE  \A c \in Conns : wpc[c] \in {"none", "exited"}
    BY DEF QueueOutlivesWorkers
  <2>1. async = <<>> /\ dying = <<>> /\ cur = NoConn
    BY DEF CInv, Emptied, Ownership
  <2>2. Owned = {NoConn}
    BY <2>1 DEF Owned, Elements
  <2> QED
    BY <2>2, PoolAssumption DEF CInv, Ownership
<1> QED
  BY <1>1, CInvHolds, PTL

-----------------------------------------------------------------------------
(***************************************************************************)
(* A pool that opens at the first attempt serves.  (At a later one it may  *)
(* not: Cancel of the shared queue is final, see the run pool_reopen.)     *)
(***************************************************************************)

\* Until something fails or is closed.
Rising == opens = 1 /\ pc \in {"async", "open", "sync", "prepare", "opened"}

\* A worker without an operation was sent home by the queue, and only Close and
\* a failed Open do that.
FirstInv ==
    /\ opens >= 1
    /\ \A c \in Conns : wpc[c] = "check" /\ wop[c] = NoOp => shutdown
    /\ Rising => /\ ~shutdown
                 /\ \A c \in Conns : ~token[c] /\ wpc[c] # "exited"

\* Steps of clients and workers.
LEMMA FirstThreads ==
  ASSUME TInv, FirstInv,
         \/ \E o \in Ops : Execute(o) \/ AsyncQuery(o)
         \/ \E c \in Conns : WorkerStep(c) \/ WorkerWake(c)
  PROVE  FirstInv'
<1>1. UNCHANGED <<cvars, token, shutdown>>
  BY DEF Execute, AsyncQuery, Enqueue, Push, WorkerStep, WorkerWake, WorkerSleep, WorkerTake,
         WorkerReturn, WorkerCheck, WorkerFinish, SpuriousWake, WaitBlock, WaitTake, WaitReturn,
         wvars, qvars
<1>2. UNCHANGED Rising /\ opens' = opens
  BY <1>1 DEF Rising, cvars
<1>3. wpc \in [Conns -> WorkerPC] /\ wop \in [Conns -> Ops \cup {NoOp}] /\ NoOp \notin Ops
  BY PoolAssumption DEF TInv, PTypeOK
<1>4. CASE \E o \in Ops : Execute(o) \/ AsyncQuery(o)
  <2>1. UNCHANGED <<wpc, wop>>
    BY <1>4 DEF Execute, AsyncQuery, Enqueue, wvars
  <2> QED
    BY <1>1, <1>2, <2>1 DEF FirstInv
<1>5. ASSUME NEW c \in Conns, WorkerStep(c) \/ WorkerWake(c) PROVE FirstInv'
  <2>1. ASSUME NEW d \in Conns, wpc'[d] = "check", wop'[d] = NoOp PROVE shutdown
    <3>1. CASE wpc[d] = "check" /\ wop[d] = NoOp
      BY <3>1 DEF FirstInv
    <3>2. CASE WorkerTake(c) /\ c = d
      <4>1. Head(queue) \in Ops /\ wop'[d] = Head(queue)
        BY <1>3, <3>2 DEF WorkerTake, WaitTake, TInv, PTypeOK, QTypeOK, Ops
      <4> QED
        BY <1>3, <2>1, <4>1
    <3>3. CASE WorkerReturn(c)
      BY <1>3, <2>1, <3>1, <3>3 DEF WorkerReturn, WaitReturn
    <3> QED
      BY <1>3, <1>5, <2>1, <3>1, <3>2, <3>3 DEF WorkerStep, WorkerWake, WorkerSleep, WorkerTake,
         WorkerCheck, WorkerFinish, wvars
  <2>2. ASSUME NEW d \in Conns, wpc'[d] = "exited", wpc[d] # "exited" PROVE token[d] \/ shutdown
    <3>1. WorkerCheck(c) /\ c = d
      BY <1>3, <1>5, <2>2 DEF WorkerStep, WorkerWake, WorkerSleep, WorkerTake, WorkerReturn,
         WorkerCheck, WorkerFinish, wvars
    <3> QED
      BY <1>3, <2>2, <3>1 DEF WorkerCheck, FirstInv
  <2> QED
    BY <1>1, <1>2, <2>1, <2>2 DEF FirstInv
<1> QED
  BY <1>4, <1>5

\* Steps of the controlling thread: after a destructor nothing rises, and the
\* next attempt is not the first.
LEMMA FirstControl ==
  ASSUME TInv, CInv, FirstInv, OpenStep \/ Close \/ DestroyPool \/ DestroyStep
  PROVE  FirstInv'
<1>1. wpc \in [Conns -> WorkerPC] /\ wop \in [Conns -> Ops \cup {NoOp}] /\ opens \in Nat
  BY DEF TInv, PTypeOK
<1>2. CASE OpenStep
  <2>1. UNCHANGED <<wop, token, shutdown>>
    BY <1>2 DEF OpenStep, ConstructAsync, OpenAsync, OpenAsyncFail, OpenSyncFail, OpenAsyncIncompatible,
       AsyncDone, OpenSync, OpenSyncIncompatible, SyncDone, Retry, Prepared, PrepareFail, CloseThen,
       wvars, qvars
  <2>2. \A d \in Conns : wpc'[d] = wpc[d] \/ wpc'[d] = "loop"
    BY <1>1, <1>2 DEF OpenStep, ConstructAsync, OpenAsync, OpenAsyncFail, OpenSyncFail, OpenAsyncIncompatible,
       AsyncDone, OpenSync, OpenSyncIncompatible, SyncDone, Retry, Prepared, PrepareFail, CloseThen,
       wvars
  <2>3. (opens' = opens /\ (Rising' => Rising)) \/ opens' = opens + 1
    <3>1. CASE Retry
      BY <3>1 DEF Retry
    <3>2. CASE ~Retry
      <4>1. opens' = opens /\ pc \in {"async", "open", "sync", "prepare"}
        BY <1>2, <3>2 DEF OpenStep, ConstructAsync, OpenAsync, OpenAsyncFail, OpenSyncFail,
           OpenAsyncIncompatible, AsyncDone, OpenSync, OpenSyncIncompatible, SyncDone, Prepared,
           PrepareFail, CloseThen
      <4> QED
        BY <4>1 DEF Rising
    <3> QED
      BY <3>1, <3>2
  <2>4. opens' >= 1 /\ (Rising' => Rising)
    BY <1>1, <2>3 DEF FirstInv, Rising
  <2> QED
    BY <2>1, <2>2, <2>4 DEF FirstInv
<1>3. CASE Close \/ DestroyPool \/ DestroyStep
  <2>1. UNCHANGED <<wpc, wop, opens>>
    BY <1>3 DEF Close, CloseThen, DestroyPool, DestroyStep, SetToken, CancelQueue, JoinAndClose, wvars
  <2>2. ~Rising'
    <3>1. after \notin {"async", "open", "sync", "prepare", "opened"}
      BY DEF CInv, Staffed
    <3> QED
      BY <1>3, <3>1 DEF Rising, Close, CloseThen, DestroyPool, Destroy, DestroyStep, SetToken,
         CancelQueue, JoinAndClose
  <2>3. shutdown' = shutdown \/ shutdown' = TRUE
    BY <1>3 DEF Close, CloseThen, DestroyPool, DestroyStep, SetToken, CancelQueue, JoinAndClose,
       CancelAndDelete, Cancel, qvars
  <2> QED
    BY <2>1, <2>2, <2>3 DEF FirstInv
<1> QED
  BY <1>2, <1>3

\* A pool that was opened at the loader's first attempt serves: its queue is not
\* shut down and each of its workers is alive.
THEOREM FirstOpenServes == PSpec => [](opens = 1 => OpenedPoolServes)
<1>1. PInit => FirstInv
  BY DEF PInit, QInit, FirstInv, Rising
<1>2. TInv /\ CInv /\ FirstInv /\ [PNext]_vars => FirstInv'
  <2> SUFFICES ASSUME TInv, CInv, FirstInv, [PNext]_vars PROVE FirstInv'
    OBVIOUS
  <2>1. CASE Ended \/ UNCHANGED vars
    BY <2>1 DEF Ended, vars, qvars, wvars, cvars, FirstInv, Rising
  <2> QED
    BY <2>1, FirstThreads, FirstControl DEF PNext
<1>3. TInv /\ FirstInv => (opens = 1 => OpenedPoolServes)
  <2> SUFFICES ASSUME TInv, FirstInv, opens = 1, pc = "opened"
               PROVE  ~shutdown /\ \A k \in 1..Len(async) : wpc[async[k]] # "exited"
    BY DEF OpenedPoolServes
  <2>1. ~shutdown /\ \A c \in Conns : wpc[c] # "exited"
    BY DEF FirstInv, Rising
  <2>2. \A k \in 1..Len(async) : async[k] \in Conns
    BY DEF TInv, PTypeOK
  <2> QED
    BY <2>1, <2>2
<1> QED
  BY <1>1, <1>2, <1>3, CInvHolds, PTL DEF PSpec

-----------------------------------------------------------------------------
(***************************************************************************)
(* The pool implements OperationLife.                                      *)
(***************************************************************************)

\* Which operations are abandoned in the hands of a worker that has ended.
Abandoned(o) == \E c \in Conns : wop[c] = o /\ wpc[c] = "exited"

\* What has become of an operation depends on its object and its worker only.
LEMMA StatusUnchanged ==
  ASSUME NEW o \in Ops, obj'[o] = obj[o], Abandoned(o)' <=> Abandoned(o)
  PROVE  Status(o)' = Status(o)
BY DEF Status, Abandoned

\* Steps that neither touch an object, nor end a worker, nor take a connection
\* down, are not visible.
LEMMA LifeStutter ==
  ASSUME UNCHANGED <<obj, shutdown, token>>,
         \A o \in Ops : Abandoned(o)' <=> Abandoned(o)
  PROVE  UNCHANGED Life!lifeVars
<1>1. \A o \in Ops : Status(o)' = Status(o)
  BY StatusUnchanged
<1>2. [o \in Ops |-> Status(o)]' = [o \in Ops |-> Status(o)]
  BY <1>1
<1> QED
  BY <1>2 DEF Life!lifeVars

\* A client's Enqueue is a Submit.
LEMMA LifeEnqueue ==
  ASSUME TInv, OInv, NEW o \in Ops, Execute(o) \/ AsyncQuery(o)
  PROVE  Life!Submit(o)
<1>1. /\ obj[o] = "unborn" /\ obj' = [obj EXCEPT ![o] = "live"]
      /\ obj \in [Ops -> {"unborn", "live", "done", "dropped"}]
      /\ UNCHANGED <<wpc, wop, token, shutdown>>
  BY DEF Execute, AsyncQuery, Enqueue, Push, wvars, TInv, PTypeOK
<1>2. ~ \E c \in Conns : wop[c] = o
  BY <1>1, PoolAssumption DEF OInv, Accounting, Held, Live
<1>3. Status(o) = "new" /\ Status(o)' = "submitted"
  BY <1>1, <1>2 DEF Status
<1>4. \A p \in Ops : p # o => Status(p)' = Status(p)
  BY <1>1, StatusUnchanged DEF Abandoned
<1>5. [p \in Ops |-> Status(p)]' = [[p \in Ops |-> Status(p)] EXCEPT ![o] = "submitted"]
  BY <1>3, <1>4
<1> QED
  BY <1>1, <1>3, <1>5 DEF Life!Submit

\* The end of a call is a Complete.
LEMMA LifeFinish ==
  ASSUME TInv, OInv, NEW c \in Conns, WorkerFinish(c)
  PROVE  wop[c] \in Ops /\ Life!Complete(wop[c])
<1>1. /\ wpc[c] = "run" /\ wpc' = [wpc EXCEPT ![c] = "loop"]
      /\ wop' = [wop EXCEPT ![c] = NoOp]
      /\ obj' = [obj EXCEPT ![wop[c]] = "done"]
      /\ wpc \in [Conns -> WorkerPC] /\ wop \in [Conns -> Ops \cup {NoOp}]
      /\ obj \in [Ops -> {"unborn", "live", "done", "dropped"}]
      /\ UNCHANGED <<token, shutdown>>
  BY DEF WorkerFinish, TInv, PTypeOK, qvars
<1>2. wop[c] \in Ops /\ wop[c] # NoOp /\ obj[wop[c]] = "live"
  BY <1>1 DEF OInv, Hands, Accounting, Held, Live
<1>3. \A d \in Conns : wop[d] = wop[c] => d = c
  BY <1>2 DEF OInv, Accounting
<1>4. Status(wop[c]) = "submitted"
  BY <1>1, <1>2, <1>3 DEF Status
<1>5. ASSUME NEW p \in Ops, p # wop[c]
      PROVE  Status(p)' = Status(p)
  <2>1. Abandoned(p)' <=> Abandoned(p)
    BY <1>1, <1>5, PoolAssumption DEF Abandoned
  <2> QED
    BY <1>1, <1>5, <2>1, StatusUnchanged
<1>6. ASSUME NEW p \in Ops, p = wop[c]
      PROVE  Status(p)' = "completed"
  BY <1>1, <1>6 DEF Status
<1>7. [p \in Ops |-> Status(p)]' = [[p \in Ops |-> Status(p)] EXCEPT ![wop[c]] = "completed"]
  BY <1>2, <1>5, <1>6
<1> QED
  BY <1>1, <1>2, <1>4, <1>7 DEF Life!Complete

\* A worker that finds its token set abandons its operation: a Strand.  In
\* every other outcome of its test nothing is visible.
LEMMA LifeCheck ==
  ASSUME TInv, OInv, NEW c \in Conns, WorkerCheck(c)
  PROVE  \/ wop[c] \in Ops /\ Life!Strand(wop[c])
         \/ UNCHANGED Life!lifeVars
<1>1. /\ wpc[c] = "check"
      /\ wpc' = [wpc EXCEPT ![c] = IF token[c] \/ wop[c] = NoOp THEN "exited" ELSE "run"]
      /\ wpc \in [Conns -> WorkerPC] /\ wop \in [Conns -> Ops \cup {NoOp}]
      /\ UNCHANGED <<wop, obj, token, shutdown>>
  BY DEF WorkerCheck, TInv, PTypeOK, qvars, ovars
<1>2. ASSUME NEW p \in Ops, p # wop[c] \/ ~token[c]
      PROVE  Abandoned(p)' <=> Abandoned(p)
  BY <1>1, <1>2, PoolAssumption DEF Abandoned
<1>3. CASE wop[c] = NoOp \/ ~token[c]
  BY <1>1, <1>2, <1>3, LifeStutter, PoolAssumption
<1>4. CASE wop[c] # NoOp /\ token[c]
  <2>1. wop[c] \in Ops /\ obj[wop[c]] = "live"
    BY <1>1, <1>4 DEF OInv, Accounting, Held, Live
  <2>2. \A d \in Conns : wop[d] = wop[c] => d = c
    BY <1>4 DEF OInv, Accounting
  <2>3. Status(wop[c]) = "submitted"
    BY <1>1, <2>1, <2>2 DEF Status
  <2>4. ASSUME NEW p \in Ops, p = wop[c]
        PROVE  Status(p)' = "stranded"
    BY <1>1, <1>4, <2>1, <2>4 DEF Status
  <2>5. ASSUME NEW p \in Ops, p # wop[c]
        PROVE  Status(p)' = Status(p)
    BY <1>1, <1>2, <2>5, StatusUnchanged
  <2>6. [p \in Ops |-> Status(p)]' = [[p \in Ops |-> Status(p)] EXCEPT ![wop[c]] = "stranded"]
    BY <2>1, <2>4, <2>5
  <2> QED
    BY <1>1, <1>4, <2>1, <2>3, <2>6 DEF Life!Strand
<1> QED
  BY <1>3, <1>4

\* A worker's other steps are not visible.
LEMMA LifeWorker ==
  ASSUME TInv, OInv, NEW c \in Conns,
         WorkerSleep(c) \/ WorkerWake(c) \/ WorkerTake(c) \/ WorkerReturn(c)
  PROVE  UNCHANGED Life!lifeVars
<1>1. /\ UNCHANGED <<obj, token, shutdown>>
      /\ wpc \in [Conns -> WorkerPC] /\ wop \in [Conns -> Ops \cup {NoOp}]
  BY DEF WorkerSleep, WorkerWake, WorkerTake, WorkerReturn, WaitBlock, SpuriousWake,
         WaitTake, WaitReturn, wvars, ovars, TInv, PTypeOK
<1>2. \/ UNCHANGED <<wpc, wop>>
      \/ /\ wpc[c] = "loop" /\ wpc' = [wpc EXCEPT ![c] = "check"]
         /\ wop' = wop \/ wop' = [wop EXCEPT ![c] = Head(queue)]
  BY DEF WorkerSleep, WorkerWake, WorkerTake, WorkerReturn, wvars
<1>3. \A o \in Ops : Abandoned(o)' <=> Abandoned(o)
  BY <1>1, <1>2 DEF Abandoned
<1> QED
  BY <1>1, <1>3, LifeStutter

\* A Cancel drops what is queued: by then a connection is being taken down, or
\* there is nothing in the queue.
LEMMA LifeCancel ==
  ASSUME TInv, OInv, CInv, CancelQueue \/ DestroyPool
  PROVE  Life!BeginClose \/ Life!Drop(Queued)
<1>1. /\ obj' = [o \in Ops |-> IF o \in Queued THEN "dropped" ELSE obj[o]]
      /\ shutdown' = TRUE /\ UNCHANGED <<wpc, wop, token>>
      /\ Closing'
  BY DEF CancelQueue, DestroyPool, CancelAndDelete, Cancel, wvars, Closing
<1>2. /\ Queued \subseteq Ops
      /\ \A o \in Queued : obj[o] = "live" /\ ~ \E c \in Conns : wop[c] = o
  BY PoolAssumption DEF OInv, Accounting, Live, Held
<1>3. \A o \in Ops : o \notin Queued => Status(o)' = Status(o)
  BY <1>1, StatusUnchanged DEF Abandoned
<1>4. CASE Closing
  <2>1. \A o \in Queued : Status(o) = "submitted"
    BY <1>2 DEF Status
  <2>2. \A o \in Ops : o \in Queued => Status(o)' = "dropped"
    BY <1>1 DEF Status
  <2>3. [o \in Ops |-> Status(o)]'
          = [o \in Ops |-> IF o \in Queued THEN "dropped" ELSE Status(o)]
    BY <2>2, <1>3
  <2>4. \A o \in Queued : [p \in Ops |-> Status(p)][o] = "submitted"
    BY <1>2, <2>1
  <2> QED
    BY <1>1, <1>2, <1>4, <2>3, <2>4 DEF Life!Drop, Closing
<1>5. CASE ~Closing
  <2>1. pc = "failed"
    BY <1>5 DEF CancelQueue, DestroyPool, CInv, Staffed, Closing, TInv, PTypeOK, ControlOK
  <2>2. Queued = {}
    BY <2>1 DEF CInv, Loaded, OInv, Accounting
  <2>3. [o \in Ops |-> Status(o)]' = [o \in Ops |-> Status(o)]
    BY <2>2, <1>3
  <2> QED
    BY <1>1, <2>3 DEF Life!BeginClose
<1> QED
  BY <1>4, <1>5

\* Every step of the pool is a step of OperationLife or is not visible there.
LEMMA LifeStep == TInv /\ OInv /\ CInv /\ [PNext]_vars => [Life!LifeNext]_Life!lifeVars
<1> SUFFICES ASSUME TInv, OInv, CInv, [PNext]_vars
             PROVE  [Life!LifeNext]_Life!lifeVars
  OBVIOUS
<1>1. ASSUME NEW o \in Ops, Execute(o) \/ AsyncQuery(o)
      PROVE  Life!LifeNext
  BY <1>1, LifeEnqueue DEF Life!LifeNext
<1>2. ASSUME NEW c \in Conns, WorkerStep(c) \/ WorkerWake(c)
      PROVE  [Life!LifeNext]_Life!lifeVars
  BY <1>2, LifeFinish, LifeCheck, LifeWorker DEF WorkerStep, Life!LifeNext
<1>3. CASE CancelQueue \/ DestroyPool
  <2>1. Queued \in SUBSET Ops
    BY DEF OInv, Accounting, Live
  <2> QED
    BY <1>3, <2>1, LifeCancel DEF Life!LifeNext
<1>4. CASE SetToken
  <2>1. UNCHANGED <<obj, wop, wpc>> /\ Closing'
    BY <1>4 DEF SetToken, ovars, TInv, PTypeOK, ControlOK, Closing
  <2>2. \A o \in Ops : Status(o)' = Status(o)
    BY <2>1, StatusUnchanged DEF Abandoned
  <2>3. Life!BeginClose
    BY <2>1, <2>2 DEF Life!BeginClose, Closing
  <2> QED
    BY <2>3 DEF Life!LifeNext
<1>5. ASSUME NEW c \in Conns, ConstructAsync(c)
      PROVE  UNCHANGED Life!lifeVars
  <2>1. /\ UNCHANGED <<obj, wop, shutdown, token>> /\ wpc \in [Conns -> WorkerPC]
        /\ wpc[c] = "none" /\ wpc' = [wpc EXCEPT ![c] = "loop"]
    BY <1>5 DEF ConstructAsync, ovars, qvars, TInv, PTypeOK
  <2>2. \A o \in Ops : Abandoned(o)' <=> Abandoned(o)
    BY <2>1 DEF Abandoned
  <2> QED
    BY <2>1, <2>2, LifeStutter
<1>6. CASE UNCHANGED <<obj, wvars, shutdown>>
  BY <1>6, LifeStutter DEF wvars, Abandoned
<1>7. CASE OpenStep /\ ~\E c \in Conns : ConstructAsync(c)
  <2>1. UNCHANGED <<obj, wvars, shutdown>>
    BY <1>7 DEF OpenStep, OpenAsync, OpenAsyncFail, OpenSyncFail,
                OpenAsyncIncompatible, AsyncDone, OpenSync, OpenSyncIncompatible,
                SyncDone, Retry, Prepared, PrepareFail, CloseThen, qvars, ovars
  <2> QED
    BY <2>1, <1>6
<1>8. CASE Close \/ JoinAndClose \/ Ended \/ UNCHANGED vars
  <2>1. UNCHANGED <<obj, wvars, shutdown>>
    BY <1>8 DEF Close, CloseThen, JoinAndClose, Ended, vars, qvars, ovars
  <2> QED
    BY <2>1, <1>6
<1> QED
  BY <1>1, <1>2, <1>3, <1>4, <1>5, <1>7, <1>8 DEF PNext, DestroyStep

\* The pool implements OperationLife: until a connection is taken down an
\* operation can only be completed, once, and afterwards what is dropped or
\* stranded was never executed.
THEOREM PoolImplementsOperationLife == PSpec => ImplementsOperationLife
<1>1. PInit => Life!LifeInit
  BY DEF PInit, QInit, Life!LifeInit, Status
<1> QED
  BY <1>1, LifeStep, CInvHolds, PTL DEF PSpec, ImplementsOperationLife, Life!LifeSpec
=============================================================================
