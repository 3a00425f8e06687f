------------------------ MODULE MySQLTransactionProofs ------------------------
(***************************************************************************)
(* Proofs about MySQLTransaction, for any number of connections, tasks,    *)
(* queries, retries, losses and errors: a task that meets no connection    *)
(* loss and none of whose START TRANSACTION, COMMIT and ROLLBACK fails is  *)
(* atomic and its caller is told the truth; a query becomes durable at     *)
(* most once more than its task met such faults; a transaction is left     *)
(* open on a connection only by such a failed statement.                   *)
(***************************************************************************)
EXTENDS MySQLTransaction, TLAPS

-----------------------------------------------------------------------------
(***************************************************************************)
(* The invariant.                                                          *)
(***************************************************************************)

\* The variables have their types.
TTypeOK ==
    /\ pc \in [Conns -> {"idle", "exec", "reconnect", "returned", "lock"}]
    /\ task \in [Conns -> Tasks \cup {NoTask}]
    /\ idx \in [Conns -> Nat]
    /\ code \in [Conns -> {"ok", "zero", "deadlock", "other", "empty"}]
    /\ looping \in [Conns -> BOOLEAN]
    /\ rounds \in [Conns -> Nat]
    /\ attempts \in [Conns -> Nat]
    /\ up \in [Conns -> BOOLEAN]
    /\ open \in [Conns -> BOOLEAN]
    /\ pend \in [Conns -> [Tasks -> [Queries -> Nat]]]
    /\ status \in [Tasks -> {"new", "running", "ok", "failed", "returned"}]
    /\ kind \in [Tasks -> Kinds]
    /\ size \in [Tasks -> 0..MaxQueries]
    /\ conn \in [Tasks -> Conns \cup {NoConn}]
    /\ durable \in [Tasks -> [Queries -> Nat]]
    /\ lost \in [Tasks -> Nat]
    /\ inside \in [Tasks -> BOOLEAN]
    /\ refused \in [Tasks -> Nat]
    /\ holder \in Conns \cup {NoConn}
    /\ alive \in BOOLEAN
    /\ losses \in Nat
    /\ errors \in Nat

\* A connection is busy with a running task, which knows its connection: no two
\* connections execute the same task.
Busy(c) ==
    /\ pc[c] = "idle" <=> task[c] = NoTask
    /\ pc[c] # "idle" => status[task[c]] = "running" /\ conn[task[c]] = c

\* A control statement of a task of c failed.
Blamed(c) == \E t \in Tasks : conn[t] = c /\ refused[t] > 0

\* What the server session of c holds: only executions of tasks of c; a
\* transaction is open because ExecuteTransaction is at work, or was left open.
Session(c) ==
    /\ ~open[c] => pend[c] = Empty
    /\ ~up[c] => ~open[c]
    /\ open[c] => Blamed(c) \/ (pc[c] = "exec" /\ idx[c] # 0 /\ kind[task[c]] # "basic")
    /\ pc[c] = "reconnect" => ~up[c] /\ lost[task[c]] > 0
    /\ \A t \in Tasks : conn[t] # c => \A q \in Queries : pend[c][t][q] = 0

\* Where ExecuteTransaction, or Execute, is: which statement, with which code so
\* far; only a transaction with queries is retried.
Progress(c) ==
    LET t == task[c]
    IN /\ pc[c] \in {"exec", "reconnect"} =>
            /\ size[t] > 0
            /\ idx[c] \in 0..(size[t] + 1) \/ idx[c] = Rollback
            /\ code[c] = "ok" <=> idx[c] # Rollback
            /\ code[c] # "empty"
            /\ kind[t] = "basic" => idx[c] = 1 /\ size[t] = 1 /\ (open[c] => inside[t])
            /\ ~up[c] /\ pc[c] = "exec" => idx[c] \in {0, 1, Rollback}
       /\ pc[c] = "idle" => ~looping[c]
       /\ looping[c] => size[t] > 0 /\ kind[t] # "basic"
       /\ pc[c] = "lock" => size[t] > 0 /\ kind[t] = "async"
       /\ pc[c] = "returned" /\ code[c] # "empty" => size[t] > 0
       /\ pc[c] = "returned" /\ code[c] = "empty" => size[t] = 0
       /\ pc[c] \in {"exec", "reconnect", "returned"} /\ code[c] = "zero" =>
            ~up[c] /\ pc[c] # "reconnect"

\* The faults that task t met.
Faults(t) == lost[t] + refused[t]

\* How often a query of the task of c is durable, at most: once more than the
\* faults only when the task has succeeded; what the open transaction holds of
\* it is one execution more only of the queries of this round; a transaction
\* that runs outside a server transaction owes that to a fault it has not used
\* up yet.
Bounded(c) ==
    LET t == task[c]
    IN pc[c] # "idle" => \A q \in Queries :
         /\ ~(pc[c] = "returned" /\ code[c] = "ok") =>
              /\ durable[t][q] <= Faults(t)
              /\ durable[t][q] + pend[c][t][q]
                   <= Faults(t) + (IF pc[c] = "exec" /\ q < idx[c] THEN 1 ELSE 0)
         /\ /\ pc[c] \in {"exec", "reconnect"}
            /\ up[c] \/ pc[c] = "reconnect"
            /\ ~open[c]
            /\ kind[t] # "basic"
            /\ idx[c] \in 1..size[t]
            /\ q >= idx[c]
            => durable[t][q] < Faults(t)

\* A task that met no fault, on a connection that is up, executes its queries in
\* one server transaction, each once, and returns 0 when all are durable.
Faultless(c) ==
    LET t == task[c]
    IN pc[c] # "idle" /\ NoFault(t) =>
         /\ pc[c] = "exec" /\ up[c] /\ kind[t] # "basic" /\ idx[c] \in 1..(size[t] + 1) =>
              /\ open[c]
              /\ \A q \in 1..size[t] : pend[c][t][q] = IF q < idx[c] THEN 1 ELSE 0
         /\ pc[c] = "returned" /\ code[c] = "ok" /\ ~inside[t] => Done(t, 1)

\* Nobody will revive the connection.
Dead(c) == ~up[c] /\ pc[c] # "reconnect"

\* The transaction that is open on the connection of t holds nothing of t.
Released(t) == conn[t] \in Conns => \A q \in Queries : pend[conn[t]][t][q] = 0

\* What has become of a task.
Outcome(t) ==
    /\ status[t] = "new" => /\ \A q \in Queries : durable[t][q] = 0
                            /\ lost[t] = 0 /\ refused[t] = 0
                            /\ size[t] = 0 /\ conn[t] = NoConn /\ ~inside[t]
    /\ status[t] = "running" => conn[t] \in Conns /\ task[conn[t]] = t
    /\ status[t] # "new" => conn[t] \in Conns
    /\ inside[t] => kind[t] = "basic" /\ size[t] = 1
    /\ refused[t] = 0 /\ ~inside[t] => \/ Released(t)
                                       \/ /\ status[t] = "running"
                                          /\ pc[conn[t]] = "exec" /\ idx[conn[t]] # 0
    /\ status[t] # "new" =>
         \A q \in Queries : durable[t][q] + pend[conn[t]][t][q] <= 1 + Faults(t)
    /\ NoFault(t) /\ ~inside[t] =>
         /\ status[t] = "failed" => Done(t, 0)
         /\ status[t] = "ok" => Done(t, 1) \/ (Done(t, 0) /\ Dead(conn[t]))
         /\ status[t] = "returned" => Done(t, 0) \/ Done(t, 1)

ConnOK(c) == Busy(c) /\ Session(c) /\ Progress(c) /\ Bounded(c) /\ Faultless(c)

TInv == /\ TTypeOK
        /\ \A c \in Conns : ConnOK(c)
        /\ \A t \in Tasks : Outcome(t)

-----------------------------------------------------------------------------
(***************************************************************************)
(* The types.                                                              *)
(***************************************************************************)

\* Executions, counted per task and query, are added up.
LEMMA PlusType ==
  ASSUME NEW a \in [Tasks -> [Queries -> Nat]], NEW b \in [Tasks -> [Queries -> Nat]]
  PROVE  /\ Plus(a, b) \in [Tasks -> [Queries -> Nat]]
         /\ \A t \in Tasks, q \in Queries : Plus(a, b)[t][q] = a[t][q] + b[t][q]
<1>1. \A t \in Tasks : [q \in Queries |-> a[t][q] + b[t][q]] \in [Queries -> Nat]
  OBVIOUS
<1> QED
  BY <1>1 DEF Plus

\* What a statement does, when the server executes it.
LEMMA StatementTypes ==
  ASSUME TTypeOK, NEW c \in Conns
  PROVE  /\ Empty \in [Tasks -> [Queries -> Nat]]
         /\ Once(task[c], idx[c]) \in [Tasks -> [Queries -> Nat]]
         /\ Applied(c) \in [Tasks -> [Queries -> Nat]]
         /\ PendAfter(c) \in [Tasks -> [Queries -> Nat]]
         /\ OpenAfter(c) \in BOOLEAN
<1>1. Empty \in [Tasks -> [Queries -> Nat]] /\ Once(task[c], idx[c]) \in [Tasks -> [Queries -> Nat]]
  BY DEF Empty, Once
<1>2. pend[c] \in [Tasks -> [Queries -> Nat]]
  BY DEF TTypeOK
<1>3. Applied(c) \in [Tasks -> [Queries -> Nat]]
  BY <1>1, <1>2 DEF Applied
<1>4. PendAfter(c) \in [Tasks -> [Queries -> Nat]]
  BY <1>1, <1>2, PlusType DEF PendAfter
<1>5. OpenAfter(c) \in BOOLEAN
  BY DEF OpenAfter, TTypeOK
<1> QED
  BY <1>1, <1>3, <1>4, <1>5

\* Where the thread is after a statement.
LEMMA ExecutedTypes ==
  ASSUME TTypeOK, NEW c \in Conns, NEW success \in BOOLEAN,
         NEW e \in {"ok", "zero", "deadlock", "other"}, Executed(c, success, e)
  PROVE  /\ pc' \in [Conns -> {"idle", "exec", "reconnect", "returned", "lock"}]
         /\ code' \in [Conns -> {"ok", "zero", "deadlock", "other", "empty"}]
         /\ idx' \in [Conns -> Nat]
<1>1. Rollback \in Nat
  BY TransactionAssumption DEF Rollback
<1> QED
  BY <1>1 DEF TTypeOK, Executed

\* A statement is executed, or not.
LEMMA TypesExecute ==
  ASSUME TTypeOK, NEW c \in Conns,
         \/ Succeed(c) \/ Deadlock(c) \/ Refuse(c) \/ Abort(c)
         \/ ReopenGiveUp(c) \/ ExecuteDead(c)
  PROVE  TTypeOK'
<1>1. CASE Succeed(c)
  <2>1. Executed(c, TRUE, "ok") /\ durable' = Plus(durable, Applied(c))
    BY <1>1 DEF Succeed
  <2>2. durable' \in [Tasks -> [Queries -> Nat]]
    BY <2>1, PlusType, StatementTypes DEF TTypeOK
  <2>3. /\ pend' \in [Conns -> [Tasks -> [Queries -> Nat]]]
        /\ open' \in [Conns -> BOOLEAN]
    BY <1>1, StatementTypes DEF Succeed, TTypeOK
  <2>4. UNCHANGED <<task, looping, rounds, attempts, up, tvars, holder, alive, bvars>>
    BY <1>1 DEF Succeed
  <2> QED
    BY <2>1, <2>2, <2>3, <2>4, ExecutedTypes DEF TTypeOK, tvars, bvars
<1>e. ASSUME ServerError(c)
      PROVE  errors' \in Nat /\ refused' \in [Tasks -> Nat]
  <2>1. /\ errors' = errors + 1
        /\ refused' = [refused EXCEPT ![task[c]] = IF IsQuery(c) THEN refused[task[c]]
                                                  ELSE refused[task[c]] + 1]
    BY <1>e DEF ServerError
  <2>2. task[c] \in Tasks => (IF IsQuery(c) THEN refused[task[c]] ELSE refused[task[c]] + 1) \in Nat
    BY DEF TTypeOK
  <2>3. refused' \in [Tasks -> Nat]
    BY <2>1, <2>2, Zenon DEF TTypeOK
  <2> QED
    BY <2>1, <2>3 DEF TTypeOK
<1>2. CASE Deadlock(c)
  <2>1. /\ Executed(c, FALSE, "deadlock") /\ EndTransaction(c) /\ ServerError(c)
        /\ UNCHANGED <<task, looping, rounds, attempts, up, tvars, durable, holder, alive, losses>>
    BY <1>2 DEF Deadlock
  <2>2. pend' \in [Conns -> [Tasks -> [Queries -> Nat]]] /\ open' \in [Conns -> BOOLEAN]
    BY <2>1, StatementTypes DEF EndTransaction, TTypeOK
  <2> QED
    BY <1>e, <2>1, <2>2, ExecutedTypes DEF TTypeOK, tvars
<1>3. CASE Refuse(c)
  <2>1. /\ Executed(c, FALSE, "other") /\ ServerError(c)
        /\ UNCHANGED <<task, looping, rounds, attempts, svars, tvars, durable, holder, alive, losses>>
    BY <1>3 DEF Refuse
  <2> QED
    BY <1>e, <2>1, ExecutedTypes DEF TTypeOK, tvars, svars
<1>4. CASE Abort(c)
  <2>1. errors' \in Nat
    BY <1>4 DEF Abort, TTypeOK
  <2> QED
    BY <1>4, <2>1 DEF Abort, TTypeOK, cvars, svars, tvars
<1>5. CASE ReopenGiveUp(c) \/ ExecuteDead(c)
  <2>1. /\ Executed(c, FALSE, "zero")
        /\ UNCHANGED <<task, looping, rounds, svars, tvars, durable, holder, alive, bvars>>
        /\ attempts' \in [Conns -> Nat]
    BY <1>5, TransactionAssumption DEF ReopenGiveUp, ExecuteDead, TTypeOK
  <2> QED
    BY <2>1, ExecutedTypes DEF TTypeOK, tvars, svars, bvars
<1> QED
  BY <1>1, <1>2, <1>3, <1>4, <1>5

\* The connection is lost, or comes back.
LEMMA TypesReconnect ==
  ASSUME TTypeOK, NEW c \in Conns,
         \/ \E executed \in BOOLEAN : Lose(c, executed)
         \/ Reopen(c) \/ ReopenAgain(c) \/ ReopenAbort(c)
  PROVE  TTypeOK'
<1>1. ASSUME NEW executed \in BOOLEAN, Lose(c, executed)
      PROVE  TTypeOK'
  <2>1. durable' \in [Tasks -> [Queries -> Nat]]
    BY <1>1, PlusType, StatementTypes DEF Lose, TTypeOK
  <2>2. pend' \in [Conns -> [Tasks -> [Queries -> Nat]]] /\ open' \in [Conns -> BOOLEAN]
    BY <1>1, StatementTypes DEF Lose, EndTransaction, TTypeOK
  <2>3. lost' \in [Tasks -> Nat]
    <3>1. task[c] \in Tasks => lost[task[c]] + 1 \in Nat
      BY DEF TTypeOK
    <3>2. lost' = [lost EXCEPT ![task[c]] = lost[task[c]] + 1]
      BY <1>1 DEF Lose
    <3> QED
      BY <3>1, <3>2, Zenon DEF TTypeOK
  <2>4. /\ pc' = [pc EXCEPT ![c] = "reconnect"]
        /\ up' = [up EXCEPT ![c] = FALSE]
        /\ losses' = losses + 1
        /\ UNCHANGED <<task, idx, code, looping, rounds, attempts, status, kind, size, conn,
                       inside, holder, alive, errors, refused>>
    BY <1>1 DEF Lose
  <2> QED
    BY <2>1, <2>2, <2>3, <2>4, TransactionAssumption DEF TTypeOK
<1>2. CASE ReopenAbort(c)
  BY <1>2 DEF ReopenAbort, TTypeOK, cvars, svars, tvars, bvars
<1>4. CASE Reopen(c)
  <2>1. attempts' \in [Conns -> Nat]
    BY <1>4, TransactionAssumption DEF Reopen, TTypeOK
  <2> QED
    BY <1>4, <2>1 DEF Reopen, TTypeOK, tvars, bvars
<1>3. CASE ReopenAgain(c)
  <2>1. attempts' \in [Conns -> Nat]
    BY <1>3 DEF ReopenAgain, TTypeOK
  <2> QED
    BY <1>3, <2>1 DEF ReopenAgain, TTypeOK, svars, tvars, bvars
<1> QED
  BY <1>1, <1>2, <1>3, <1>4

\* A task begins, is tried again or ends.
LEMMA TypesTask ==
  ASSUME TTypeOK, NEW c \in Conns,
         \/ \E t \in Tasks, k \in Kinds, n \in 0..MaxQueries : Start(c, t, k, n)
         \/ EndOk(c) \/ EndFailed(c) \/ AwaitLock(c) \/ TakeLock(c)
         \/ RetryAsync(c) \/ Expire(c) \/ RetryDirect(c)
  PROVE  TTypeOK'
<1>1. ASSUME NEW t \in Tasks, NEW k \in Kinds, NEW n \in 0..MaxQueries, Start(c, t, k, n)
      PROVE  TTypeOK'
  BY <1>1 DEF Start, TTypeOK, svars, bvars
<1>2. ASSUME NEW s \in {"ok", "failed", "returned"}, Finish(c, s)
      PROVE  TTypeOK'
  BY <1>2 DEF Finish, TTypeOK, svars, bvars
<1>3. ASSUME TryExecute(c), rounds' \in [Conns -> Nat], holder' \in Conns \cup {NoConn}
      PROVE  TTypeOK'
  BY <1>3 DEF TryExecute, TTypeOK, svars, tvars, bvars
<1>4. CASE AwaitLock(c)
  BY <1>4 DEF AwaitLock, TTypeOK, svars, tvars, bvars
<1>5. CASE TakeLock(c) \/ RetryAsync(c)
  BY <1>3, <1>5 DEF TakeLock, RetryAsync, TTypeOK
<1>6. CASE RetryDirect(c)
  <2>1. CASE rounds[c] < DirectRetries
    <3>1. rounds' = [rounds EXCEPT ![c] = rounds[c] + 1]
      BY <1>6, <2>1 DEF RetryDirect
    <3>2. rounds' \in [Conns -> Nat]
      BY <3>1 DEF TTypeOK
    <3> QED
      BY <1>3, <1>6, <2>1, <3>2 DEF RetryDirect, TTypeOK
  <2>2. CASE ~(rounds[c] < DirectRetries)
    BY <1>2, <1>6, <2>2 DEF RetryDirect
  <2> QED
    BY <2>1, <2>2
<1>7. CASE EndOk(c) \/ EndFailed(c) \/ Expire(c)
  BY <1>2, <1>7 DEF EndOk, EndFailed, Expire
<1> QED
  BY <1>1, <1>4, <1>5, <1>6, <1>7

\* Every step preserves the types.
LEMMA TypesStep == TTypeOK /\ [TNext]_vars => TTypeOK'
<1> SUFFICES ASSUME TTypeOK, [TNext]_vars
             PROVE  TTypeOK'
  OBVIOUS
<1>1. CASE Over \/ UNCHANGED vars
  BY <1>1 DEF Over, vars, cvars, svars, tvars, bvars, TTypeOK
<1>2. ASSUME NEW c \in Conns, ThreadStep(c)
      PROVE  TTypeOK'
  BY <1>2, TypesExecute, TypesReconnect, TypesTask DEF ThreadStep
<1> QED
  BY <1>1, <1>2, TypesTask DEF TNext
-----------------------------------------------------------------------------
(***************************************************************************)
(* A step of connection d on its task u disturbs no other connection; of   *)
(* another task it may commit or drop what was left open of it.            *)
(***************************************************************************)
Elsewhere(d, u) ==
    /\ \A c \in Conns \ {d} :
          /\ pc'[c] = pc[c] /\ task'[c] = task[c] /\ idx'[c] = idx[c] /\ code'[c] = code[c]
          /\ looping'[c] = looping[c]
          /\ up'[c] = up[c] /\ open'[c] = open[c] /\ pend'[c] = pend[c]
    /\ \A t \in Tasks \ {u} :
          /\ status'[t] = status[t] /\ kind'[t] = kind[t] /\ size'[t] = size[t]
          /\ conn'[t] = conn[t] /\ lost'[t] = lost[t] /\ refused'[t] = refused[t]
          /\ inside'[t] = inside[t]

\* What the transaction open on d holds of the others is kept, dropped or
\* committed.
Leftovers(d, u) ==
    \A t \in Tasks \ {u}, q \in Queries :
        \/ durable'[t][q] = durable[t][q] /\ pend'[d][t][q] \in {pend[d][t][q], 0}
        \/ durable'[t][q] = durable[t][q] + pend[d][t][q] /\ pend'[d][t][q] = 0

\* What has to be shown of the session of d.
SessionStep(d, u) ==
    /\ conn'[u] = d /\ refused'[u] >= refused[u]
    /\ ~open'[d] => pend'[d] = Empty
    /\ ~up'[d] => ~open'[d]
    /\ open'[d] => \/ Blamed(d) \/ refused'[u] > 0
                   \/ pc'[d] = "exec" /\ idx'[d] # 0 /\ task'[d] = u /\ kind'[u] # "basic"
    /\ pc'[d] = "reconnect" => ~up'[d] /\ task'[d] = u /\ lost'[u] > 0

\* The bookkeeping of tasks and connections.
LEMMA Bookkeeping ==
  ASSUME TInv
  PROVE  /\ NoTask \notin Tasks /\ NoConn \notin Conns
         /\ \A t \in Tasks : /\ lost[t] \in Nat /\ refused[t] \in Nat /\ size[t] \in 0..MaxQueries
                             /\ inside[t] \in BOOLEAN
                             /\ Faults(t) \in Nat
                             /\ NoFault(t) <=> Faults(t) = 0
                             /\ 1..size[t] \subseteq Queries
         /\ \A t \in Tasks, q \in Queries : durable[t][q] \in Nat
         /\ \A c \in Conns, t \in Tasks, q \in Queries : pend[c][t][q] \in Nat
         /\ \A t \in Tasks, q \in Queries : Empty[t][q] = 0
<1>1. NoTask \notin Tasks /\ NoConn \notin Conns /\ MaxQueries \in Nat
  BY TransactionAssumption
<1>2. \A t \in Tasks : /\ lost[t] \in Nat /\ refused[t] \in Nat /\ size[t] \in 0..MaxQueries
                       /\ inside[t] \in BOOLEAN
  BY DEF TInv, TTypeOK
<1>3. \A t \in Tasks : Faults(t) \in Nat /\ (NoFault(t) <=> Faults(t) = 0)
  BY <1>2 DEF Faults, NoFault
<1>4. \A t \in Tasks : 1..size[t] \subseteq Queries
  BY <1>1, <1>2 DEF Queries
<1>5. \A t \in Tasks, q \in Queries : durable[t][q] \in Nat
  BY DEF TInv, TTypeOK
<1>6. \A c \in Conns, t \in Tasks, q \in Queries : pend[c][t][q] \in Nat
  BY DEF TInv, TTypeOK
<1>7. \A t \in Tasks, q \in Queries : Empty[t][q] = 0
  BY DEF Empty
<1> QED
  BY <1>1, <1>2, <1>3, <1>4, <1>5, <1>6, <1>7

\* So the invariant need only be shown for d and u.
LEMMA Locally ==
  ASSUME TInv, TTypeOK', NEW d \in Conns, NEW u \in Tasks,
         task[d] = u \/ (task[d] = NoTask /\ status[u] = "new"),
         Elsewhere(d, u), Leftovers(d, u), SessionStep(d, u), Dead(d) => Dead(d)',
         Busy(d)', Progress(d)', Bounded(d)', Faultless(d)', Outcome(u)'
  PROVE  TInv'
<1>n. NoTask \notin Tasks /\ NoConn \notin Conns
  BY TransactionAssumption
<1>u. conn[u] = d \/ (conn[u] = NoConn /\ refused[u] = 0)
  BY <1>n DEF TInv, ConnOK, Busy, Outcome
<1>0. \A t \in Tasks \ {u} : conn[t] # d => \A q \in Queries : durable'[t][q] = durable[t][q]
  <2>1. \A t \in Tasks : conn[t] # d => \A q \in Queries : pend[d][t][q] = 0 /\ durable[t][q] \in Nat
    BY Bookkeeping DEF TInv, ConnOK, Session
  <2> QED
    BY <2>1 DEF Leftovers
<1>s. Session(d)'
  <2>1. Blamed(d) \/ refused'[u] > 0 => Blamed(d)'
    <3>1. CASE refused'[u] > 0
      BY <3>1 DEF Blamed, SessionStep
    <3>2. ASSUME NEW t \in Tasks, conn[t] = d, refused[t] > 0
          PROVE  Blamed(d)'
      <4>1. CASE t = u
        BY <3>1, <3>2, <4>1, Bookkeeping DEF SessionStep, TTypeOK
      <4>2. CASE t # u
        BY <3>2, <4>2 DEF Elsewhere, Blamed
      <4> QED
        BY <4>1, <4>2
    <3> QED
      BY <3>1, <3>2 DEF Blamed
  <2>2. ASSUME NEW t \in Tasks, conn'[t] # d, NEW q \in Queries
        PROVE  pend'[d][t][q] = 0
    <3>1. t # u /\ conn[t] # d
      BY <2>2 DEF SessionStep, Elsewhere
    <3>2. pend[d][t][q] = 0
      BY <3>1 DEF TInv, ConnOK, Session
    <3> QED
      BY <3>1, <3>2 DEF Leftovers
  <2> QED
    BY <2>1, <2>2 DEF SessionStep, Session
<1>1. ASSUME NEW c \in Conns, c # d
      PROVE  ConnOK(c)'
  <2>1. /\ pc'[c] = pc[c] /\ task'[c] = task[c] /\ idx'[c] = idx[c] /\ code'[c] = code[c]
        /\ looping'[c] = looping[c]
        /\ up'[c] = up[c] /\ open'[c] = open[c] /\ pend'[c] = pend[c]
    BY <1>1 DEF Elsewhere
  <2>2. task[c] # u
    BY <1>1, <1>n DEF TInv, ConnOK, Busy
  <2>3. Blamed(c) => Blamed(c)'
    BY <1>1, <1>u, Bookkeeping DEF Blamed, Elsewhere
  <2>4. ASSUME NEW t \in Tasks, conn'[t] # c, NEW q \in Queries
        PROVE  pend'[c][t][q] = 0
    <3>1. conn[t] # c
      BY <1>1, <1>u, <1>n, <2>4 DEF Elsewhere
    <3> QED
      BY <2>1, <3>1 DEF TInv, ConnOK, Session
  <2>5. CASE pc[c] = "idle"
    <3>1. ~looping[c] /\ task[c] = NoTask /\ (open[c] => Blamed(c))
      BY <2>5 DEF TInv, ConnOK, Busy, Progress, Session
    <3>2. Busy(c)' /\ Progress(c)'
      BY <2>1, <2>5, <3>1 DEF Busy, Progress
    <3>3. Session(c)'
      BY <2>1, <2>3, <2>4, <2>5, <3>1 DEF TInv, ConnOK, Session
    <3>4. Bounded(c)' /\ Faultless(c)'
      BY <2>1, <2>5 DEF Bounded, Faultless
    <3> QED
      BY <3>2, <3>3, <3>4 DEF ConnOK
  <2>6. CASE pc[c] # "idle"
    <3>1. task[c] \in Tasks \ {u} /\ conn[task[c]] = c
      BY <2>2, <2>6 DEF TInv, TTypeOK, ConnOK, Busy
    <3>2. /\ status'[task[c]] = status[task[c]] /\ kind'[task[c]] = kind[task[c]]
          /\ size'[task[c]] = size[task[c]] /\ conn'[task[c]] = conn[task[c]]
          /\ lost'[task[c]] = lost[task[c]] /\ refused'[task[c]] = refused[task[c]]
          /\ inside'[task[c]] = inside[task[c]]
      BY <3>1 DEF Elsewhere
    <3>3. \A q \in Queries : durable'[task[c]][q] = durable[task[c]][q]
      BY <1>0, <1>1, <3>1
    <3>4. Faults(task[c])' = Faults(task[c]) /\ (NoFault(task[c])' <=> NoFault(task[c]))
      BY <2>1, <3>2 DEF Faults, NoFault
    <3>5. Busy(c)'
      BY <2>1, <3>2 DEF TInv, ConnOK, Busy
    <3>6. Session(c)'
      BY <2>1, <2>3, <2>4, <3>2 DEF TInv, ConnOK, Session
    <3>7. Progress(c)'
      BY <2>1, <3>2 DEF TInv, ConnOK, Progress
    <3>8. Bounded(c)'
      BY <2>1, <3>2, <3>3, <3>4 DEF TInv, ConnOK, Bounded
    <3>9. Faultless(c)'
      <4>1. Done(task[c], 1) => Done(task[c], 1)'
        BY <2>1, <3>1, <3>2, <3>3, Bookkeeping DEF Done
      <4> QED
        BY <2>1, <3>2, <3>4, <4>1 DEF TInv, ConnOK, Faultless
    <3> QED
      BY <3>5, <3>6, <3>7, <3>8, <3>9 DEF ConnOK
  <2> QED
    BY <2>5, <2>6
<1>2. ASSUME NEW t \in Tasks, t # u
      PROVE  Outcome(t)'
  <2>1. /\ status'[t] = status[t] /\ kind'[t] = kind[t] /\ size'[t] = size[t]
        /\ conn'[t] = conn[t] /\ lost'[t] = lost[t] /\ refused'[t] = refused[t]
        /\ inside'[t] = inside[t]
    BY <1>2 DEF Elsewhere
  <2>2. Faults(t)' = Faults(t) /\ (NoFault(t)' <=> NoFault(t)) /\ Faults(t) \in Nat
    BY <2>1, Bookkeeping DEF Faults, NoFault
  <2>3. status[t] = "running" => /\ conn[t] \in Conns \ {d} /\ task'[conn[t]] = t
                                 /\ pc'[conn[t]] = pc[conn[t]] /\ idx'[conn[t]] = idx[conn[t]]
    BY <1>2, <1>n DEF TInv, Outcome, Elsewhere
  <2>4. conn[t] \in Conns /\ Dead(conn[t]) => Dead(conn[t])'
    BY <2>1 DEF Dead, Elsewhere
  <2>5. Released(t) => Released(t)' /\ \A q \in Queries : durable'[t][q] = durable[t][q]
    <3>1. CASE conn[t] = d
      <4>1. ASSUME NEW q \in Queries, pend[d][t][q] = 0
            PROVE  pend'[d][t][q] = 0 /\ durable'[t][q] = durable[t][q]
        BY <1>2, <4>1, Bookkeeping DEF Leftovers
      <4> QED
        BY <2>1, <3>1, <4>1 DEF Released
    <3>2. CASE conn[t] # d
      BY <1>0, <1>2, <2>1, <3>2 DEF Released, Elsewhere
    <3> QED
      BY <3>1, <3>2
  <2>6. /\ status[t] = "new" => \A q \in Queries : durable'[t][q] = 0
        /\ inside[t] => kind[t] = "basic" /\ size[t] = 1
    BY <1>0, <1>2, <1>n DEF TInv, Outcome
  <2>7. ASSUME status[t] # "new", NEW q \in Queries
        PROVE  durable'[t][q] + pend'[conn[t]][t][q] <= 1 + Faults(t)
    <3>1. /\ conn[t] \in Conns /\ durable[t][q] \in Nat /\ pend[conn[t]][t][q] \in Nat
          /\ durable[t][q] + pend[conn[t]][t][q] <= 1 + Faults(t)
      BY <2>7, Bookkeeping DEF TInv, Outcome
    <3>2. CASE conn[t] = d
      <4>1. \/ durable'[t][q] = durable[t][q] /\ pend'[d][t][q] \in {pend[d][t][q], 0}
            \/ durable'[t][q] = durable[t][q] + pend[d][t][q] /\ pend'[d][t][q] = 0
        BY <1>2 DEF Leftovers
      <4> QED
        BY <2>2, <3>1, <3>2, <4>1
    <3>3. CASE conn[t] # d
      BY <1>0, <1>2, <3>1, <3>3 DEF Elsewhere
    <3> QED
      BY <3>2, <3>3
  <2>8. ASSUME NoFault(t), ~inside[t], status[t] \in {"ok", "failed", "returned"}
        PROVE  (Done(t, 0)' <=> Done(t, 0)) /\ (Done(t, 1)' <=> Done(t, 1))
    <3>1. Released(t)
      BY <2>8 DEF TInv, Outcome, NoFault
    <3> QED
      BY <2>1, <2>5, <3>1, Bookkeeping DEF Done
  <2>9. refused[t] = 0 /\ ~inside[t] => \/ Released(t)'
                                        \/ /\ status'[t] = "running"
                                           /\ pc'[conn'[t]] = "exec" /\ idx'[conn'[t]] # 0
    BY <2>1, <2>3, <2>5 DEF TInv, Outcome
  <2> QED
    BY <2>1, <2>2, <2>3, <2>4, <2>6, <2>7, <2>8, <2>9 DEF TInv, Outcome
<1> QED
  BY <1>1, <1>2, <1>s DEF TInv, ConnOK

-----------------------------------------------------------------------------
(***************************************************************************)
(* Statements.                                                             *)
(***************************************************************************)

\* What is known of a connection that executes, and of its task.
LEMMA Working ==
  ASSUME TInv, NEW c \in Conns, pc[c] # "idle"
  PROVE  /\ task[c] \in Tasks
         /\ status[task[c]] = "running" /\ conn[task[c]] = c
         /\ size[task[c]] \in Nat /\ size[task[c]] <= MaxQueries
         /\ idx[c] \in Nat /\ Rollback \in Nat /\ Rollback > size[task[c]] + 1
         /\ lost[task[c]] \in Nat /\ refused[task[c]] \in Nat /\ Faults(task[c]) \in Nat
         /\ MaxQueries \in Nat
         /\ \A q \in Queries : /\ q \in Nat /\ q > 0 /\ q < Rollback
                               /\ durable[task[c]][q] \in Nat /\ pend[c][task[c]][q] \in Nat
         /\ 1..size[task[c]] \subseteq Queries
<1>1. task[c] \in Tasks /\ status[task[c]] = "running" /\ conn[task[c]] = c
  BY DEF TInv, TTypeOK, ConnOK, Busy
<1>2. /\ size[task[c]] \in 0..MaxQueries /\ idx[c] \in Nat /\ MaxQueries \in Nat
      /\ lost[task[c]] \in Nat /\ refused[task[c]] \in Nat /\ Faults(task[c]) \in Nat
  BY <1>1, TransactionAssumption, Bookkeeping DEF TInv, TTypeOK
<1>3. \A q \in Queries : durable[task[c]][q] \in Nat /\ pend[c][task[c]][q] \in Nat
  BY <1>1, Bookkeeping
<1> QED
  BY <1>1, <1>2, <1>3 DEF Rollback, Queries

\* The executions that a statement makes durable, and those the open transaction
\* holds afterwards, pointwise.
LEMMA StatementPoints ==
  ASSUME TInv, NEW c \in Conns, pc[c] = "exec", NEW u \in Tasks, NEW q \in Queries
  PROVE  /\ IsQuery(c) /\ open[c] => /\ Applied(c)[u][q] = 0
                                     /\ PendAfter(c)[u][q]
                                          = pend[c][u][q] + IF u = task[c] /\ q = idx[c] THEN 1 ELSE 0
         /\ IsQuery(c) /\ ~open[c] => Applied(c)[u][q] = IF u = task[c] /\ q = idx[c] THEN 1 ELSE 0
         /\ idx[c] = Rollback => Applied(c)[u][q] = 0
         /\ idx[c] \in {0, size[task[c]] + 1} => Applied(c)[u][q] = pend[c][u][q]
         /\ ~(IsQuery(c) /\ open[c]) => PendAfter(c) = Empty
<1>1. IsQuery(c) => idx[c] # Rollback
  BY Working DEF IsQuery
<1>2. idx[c] \in {0, size[task[c]] + 1} => ~IsQuery(c) /\ idx[c] # Rollback
  BY Working DEF IsQuery
<1>3. Empty[u][q] = 0 /\ Once(task[c], idx[c])[u][q] = IF u = task[c] /\ q = idx[c] THEN 1 ELSE 0
  BY DEF Empty, Once
<1>4. Plus(pend[c], Once(task[c], idx[c]))[u][q] = pend[c][u][q] + Once(task[c], idx[c])[u][q]
  <2>1. /\ pend[c] \in [Tasks -> [Queries -> Nat]]
        /\ Once(task[c], idx[c]) \in [Tasks -> [Queries -> Nat]]
    BY StatementTypes DEF TInv, TTypeOK
  <2> QED
    BY <2>1, PlusType
<1> QED
  BY <1>1, <1>2, <1>3, <1>4 DEF Applied, PendAfter

\* What becomes durable when the server has executed the statement.
LEMMA DurablePoints ==
  ASSUME TInv, NEW c \in Conns, durable' = Plus(durable, Applied(c)) \/ durable' = Plus(durable, Empty)
  PROVE  \A u \in Tasks, q \in Queries :
            durable'[u][q] = IF durable' = Plus(durable, Applied(c))
                             THEN durable[u][q] + Applied(c)[u][q] ELSE durable[u][q]
<1>1. \A u \in Tasks, q \in Queries : durable[u][q] \in Nat /\ Empty[u][q] = 0
  BY Bookkeeping
<1>2. /\ durable \in [Tasks -> [Queries -> Nat]] /\ Applied(c) \in [Tasks -> [Queries -> Nat]]
      /\ Empty \in [Tasks -> [Queries -> Nat]]
  BY StatementTypes DEF TInv, TTypeOK
<1>3. CASE durable' = Plus(durable, Applied(c))
  BY <1>2, <1>3, PlusType
<1>4. CASE durable' = Plus(durable, Empty) /\ durable' # Plus(durable, Applied(c))
  <2>1. \A u \in Tasks, q \in Queries : durable'[u][q] = durable[u][q] + Empty[u][q]
    BY <1>2, <1>4, PlusType
  <2> QED
    BY <1>1, <1>4, <2>1
<1> QED
  BY <1>3, <1>4

\* Where the thread is after a statement, case by case.
AfterExecuted(c, success, e) ==
    /\ \A d \in Conns \ {c} : pc'[d] = pc[d] /\ code'[d] = code[d] /\ idx'[d] = idx[d]
    /\ \/ /\ kind[task[c]] = "basic" /\ IsQuery(c)
          /\ pc'[c] = "returned" /\ code'[c] = (IF success THEN code[c] ELSE e) /\ idx'[c] = idx[c]
       \/ /\ kind[task[c]] # "basic" /\ idx[c] = 0 /\ ~IsQuery(c)
          /\ pc'[c] = "exec" /\ code'[c] = code[c] /\ idx'[c] = 1
       \/ /\ kind[task[c]] # "basic" /\ IsQuery(c) /\ success
          /\ pc'[c] = "exec" /\ code'[c] = code[c] /\ idx'[c] = idx[c] + 1
       \/ /\ kind[task[c]] # "basic" /\ IsQuery(c) /\ ~success
          /\ pc'[c] = "exec" /\ code'[c] = e /\ idx'[c] = Rollback
       \/ /\ kind[task[c]] # "basic" /\ idx[c] \in {size[task[c]] + 1, Rollback} /\ ~IsQuery(c)
          /\ pc'[c] = "returned" /\ code'[c] = code[c] /\ idx'[c] = idx[c]

\* ExecuteTransaction goes on like that.
LEMMA AfterStatement ==
  ASSUME TInv, NEW c \in Conns, pc[c] \in {"exec", "reconnect"},
         NEW success \in BOOLEAN, NEW e, Executed(c, success, e)
  PROVE  AfterExecuted(c, success, e)
<1> USE DEF AfterExecuted
<1>1. /\ pc \in [Conns -> {"idle", "exec", "reconnect", "returned", "lock"}]
      /\ code \in [Conns -> {"ok", "zero", "deadlock", "other", "empty"}]
      /\ idx \in [Conns -> Nat]
  BY DEF TInv, TTypeOK
<1>2. /\ size[task[c]] \in Nat /\ size[task[c]] > 0 /\ idx[c] \in Nat
      /\ Rollback \in Nat /\ Rollback > size[task[c]] + 1
      /\ idx[c] \in 0..(size[task[c]] + 1) \/ idx[c] = Rollback
      /\ kind[task[c]] = "basic" => idx[c] = 1 /\ size[task[c]] = 1
  BY Working DEF TInv, ConnOK, Progress
<1>3. \A d \in Conns \ {c} : pc'[d] = pc[d] /\ code'[d] = code[d] /\ idx'[d] = idx[d]
  BY <1>1 DEF Executed
<1>4. CASE kind[task[c]] = "basic"
  <2>1. IsQuery(c)
    BY <1>2, <1>4 DEF IsQuery
  <2> QED
    BY <1>1, <1>3, <1>4, <2>1 DEF Executed
<1>5. CASE kind[task[c]] # "basic" /\ idx[c] = 0
  <2>1. ~IsQuery(c)
    BY <1>2, <1>5 DEF IsQuery
  <2> QED
    BY <1>1, <1>3, <1>5, <2>1 DEF Executed
<1>6. CASE kind[task[c]] # "basic" /\ IsQuery(c)
  BY <1>1, <1>3, <1>6 DEF Executed
<1>7. CASE kind[task[c]] # "basic" /\ idx[c] \in {size[task[c]] + 1, Rollback}
  <2>1. ~IsQuery(c) /\ idx[c] # 0
    BY <1>2, <1>7 DEF IsQuery
  <2> QED
    BY <1>1, <1>3, <1>7, <2>1 DEF Executed
<1> QED
  BY <1>2, <1>4, <1>5, <1>6, <1>7 DEF IsQuery

\* The server has executed the statement.
LEMMA SucceedKeeps ==
  ASSUME TInv, TTypeOK', NEW c \in Conns, NEW t \in Tasks, t = task[c], Succeed(c)
  PROVE  TInv'
<1>1. /\ pc[c] = "exec" /\ up[c]
      /\ Executed(c, TRUE, "ok") /\ durable' = Plus(durable, Applied(c))
      /\ pend' = [pend EXCEPT ![c] = PendAfter(c)]
      /\ open' = [open EXCEPT ![c] = OpenAfter(c)]
      /\ UNCHANGED <<task, looping, up, status, kind, size, conn, lost, inside, refused>>
  BY DEF Succeed, Executing, tvars, bvars
<1>2. /\ status[t] = "running" /\ conn[t] = c
      /\ size[t] \in Nat /\ size[t] <= MaxQueries /\ MaxQueries \in Nat
      /\ idx[c] \in Nat /\ Rollback \in Nat /\ Rollback > size[t] + 1
      /\ refused[t] \in Nat /\ Faults(t) \in Nat
      /\ \A q \in Queries : /\ q \in Nat /\ q > 0 /\ q < Rollback
                            /\ durable[t][q] \in Nat /\ pend[c][t][q] \in Nat
      /\ 1..size[t] \subseteq Queries
  BY <1>1, Working
<1>f. Faults(t)' = Faults(t) /\ (NoFault(t)' <=> NoFault(t)) /\ (NoFault(t) <=> Faults(t) = 0)
  BY <1>1, Bookkeeping DEF Faults, NoFault
<1>3. \A u \in Tasks, q \in Queries : durable'[u][q] = durable[u][q] + Applied(c)[u][q]
  BY <1>1, DurablePoints
<1>4. /\ pend'[c] = PendAfter(c) /\ open'[c] = OpenAfter(c)
      /\ \A d \in Conns \ {c} : pend'[d] = pend[d] /\ open'[d] = open[d]
  BY <1>1 DEF TInv, TTypeOK
<1>5. /\ Session(c) /\ Progress(c) /\ Bounded(c) /\ Faultless(c)
      /\ size[t] > 0
      /\ idx[c] \in 0..(size[t] + 1) \/ idx[c] = Rollback
  BY <1>1 DEF TInv, ConnOK, Progress
<1>a. AfterExecuted(c, TRUE, "ok")
  BY <1>1, AfterStatement
<1>6. Elsewhere(c, t)
  BY <1>1, <1>4, <1>a DEF Elsewhere, AfterExecuted
<1>x. \A u \in Tasks, q \in Queries : /\ durable[u][q] \in Nat /\ pend[c][u][q] \in Nat
                                      /\ Empty[u][q] = 0
  BY Bookkeeping
<1>y. Leftovers(c, t)
  <2> SUFFICES ASSUME NEW u \in Tasks \ {t}, NEW q \in Queries
               PROVE  \/ durable'[u][q] = durable[u][q] /\ pend'[c][u][q] \in {pend[c][u][q], 0}
                      \/ durable'[u][q] = durable[u][q] + pend[c][u][q] /\ pend'[c][u][q] = 0
    BY DEF Leftovers
  <2>1. IsQuery(c) \/ idx[c] = Rollback \/ idx[c] \in {0, size[t] + 1}
    BY <1>2, <1>5 DEF IsQuery
  <2> QED
    BY <1>1, <1>3, <1>4, <1>x, <2>1, StatementPoints
<1>7. \A q \in Queries : durable[t][q] <= Faults(t)
  BY <1>1, <1>5 DEF Bounded
<1>8. Busy(c)' /\ pc'[c] \in {"exec", "returned"} /\ ~Dead(c)
  BY <1>1, <1>2, <1>a DEF TInv, ConnOK, Busy, Dead, AfterExecuted
<1>l. SessionStep(c, t) /\ Progress(c)' /\ Bounded(c)' /\ Faultless(c)' /\ Outcome(t)' => TInv'
  BY <1>6, <1>8, <1>y, Locally
<1>o. ASSUME \A q \in Queries : durable'[t][q] + pend'[c][t][q] <= 1 + Faults(t),
             refused[t] = 0 /\ ~inside[t] =>
               (\A q \in Queries : pend'[c][t][q] = 0) \/ (pc'[c] = "exec" /\ idx'[c] # 0)
      PROVE  Outcome(t)'
  <2>1. inside[t] => kind[t] = "basic" /\ size[t] = 1
    BY DEF TInv, Outcome
  <2> QED
    BY <1>1, <1>2, <1>f, <1>o, <2>1 DEF Outcome, Released
<1>9. CASE kind[t] = "basic"
  <2>1. /\ idx[c] = 1 /\ size[t] = 1 /\ (open[c] => inside[t]) /\ IsQuery(c) /\ code[c] = "ok"
        /\ pc'[c] = "returned" /\ code'[c] = "ok" /\ 1 \in Queries
    BY <1>1, <1>2, <1>5, <1>9, <1>a DEF AfterExecuted, Progress, IsQuery
  <2>2. open'[c] = open[c] /\ (~open[c] => pend'[c] = Empty)
    BY <1>1, <1>4, <1>x, <2>1, StatementPoints DEF OpenAfter, PendAfter
  <2>3. \A q \in Queries : durable[t][q] + pend[c][t][q] <= Faults(t)
    BY <1>1, <1>2, <1>5, <2>1 DEF Bounded
  <2>4. SessionStep(c, t)
    BY <1>1, <1>2, <1>5, <1>9, <2>1, <2>2 DEF Session, SessionStep
  <2>5. Progress(c)'
    BY <1>1, <1>5, <1>9, <2>1, <2>2 DEF Progress
  <2>6. Bounded(c)'
    BY <1>1, <2>1 DEF Bounded
  <2>7. \A q \in Queries : durable'[t][q] + pend'[c][t][q] <= 1 + Faults(t)
    <3>1. CASE open[c]
      <4>1. \A q \in Queries : /\ Applied(c)[t][q] = 0
                               /\ PendAfter(c)[t][q] = pend[c][t][q] + IF q = idx[c] THEN 1 ELSE 0
        BY <1>1, <2>1, <3>1, StatementPoints
      <4> QED
        BY <1>2, <1>3, <1>4, <2>3, <4>1
    <3>2. CASE ~open[c]
      <4>1. \A q \in Queries : Applied(c)[t][q] = IF q = idx[c] THEN 1 ELSE 0
        BY <1>1, <2>1, <3>2, StatementPoints
      <4> QED
        BY <1>2, <1>3, <1>7, <1>x, <2>2, <3>2, <4>1
    <3> QED
      BY <3>1, <3>2
  <2>8. NoFault(t) /\ ~inside[t] => durable'[t][1] = 1
    <3>1. ~open[c] => Applied(c)[t][1] = 1
      BY <1>1, <2>1, StatementPoints
    <3> QED
      BY <1>2, <1>3, <1>7, <1>f, <2>1, <3>1
  <2>9. Faultless(c)'
    BY <1>1, <1>f, <2>1, <2>8 DEF Faultless, Done
  <2>10. Outcome(t)'
    BY <1>o, <1>x, <2>1, <2>2, <2>7
  <2> QED
    BY <1>l, <2>4, <2>5, <2>6, <2>9, <2>10
<1>10. CASE kind[t] # "basic" /\ idx[c] = 0
  <2>1. /\ ~IsQuery(c) /\ code[c] = "ok"
        /\ pc'[c] = "exec" /\ code'[c] = "ok" /\ idx'[c] = 1
    BY <1>1, <1>2, <1>5, <1>10, <1>a DEF AfterExecuted, Progress, IsQuery
  <2>2. open'[c] /\ pend'[c] = Empty
    BY <1>4, <1>10, <2>1 DEF OpenAfter, PendAfter
  <2>3. \A q \in Queries : /\ durable'[t][q] = durable[t][q] + pend[c][t][q] /\ pend'[c][t][q] = 0
                           /\ durable[t][q] + pend[c][t][q] <= Faults(t)
    <3>1. \A q \in Queries : Applied(c)[t][q] = pend[c][t][q]
      BY <1>1, <1>10, StatementPoints
    <3>2. \A q \in Queries : durable[t][q] + pend[c][t][q] <= Faults(t)
      BY <1>1, <1>2, <1>5, <1>10, <2>1 DEF Bounded
    <3> QED
      BY <1>3, <1>x, <2>2, <3>1, <3>2
  <2>4. SessionStep(c, t)
    BY <1>1, <1>2, <1>10, <2>1, <2>2 DEF SessionStep
  <2>5. Progress(c)'
    BY <1>1, <1>2, <1>5, <1>10, <2>1, <2>2 DEF Progress
  <2>6. Bounded(c)'
    BY <1>1, <1>2, <1>f, <2>1, <2>2, <2>3 DEF Bounded
  <2>7. Faultless(c)'
    BY <1>1, <1>2, <2>1, <2>2, <2>3 DEF Faultless
  <2>8. Outcome(t)'
    BY <1>2, <1>o, <2>1, <2>3
  <2> QED
    BY <1>l, <2>4, <2>5, <2>6, <2>7, <2>8
<1>11. CASE kind[t] # "basic" /\ IsQuery(c)
  <2>1. /\ pc'[c] = "exec" /\ code'[c] = code[c] /\ idx'[c] = idx[c] + 1
        /\ idx[c] \in 1..size[t] /\ idx[c] \in Queries /\ idx[c] # Rollback /\ code[c] = "ok"
    BY <1>1, <1>2, <1>5, <1>11, <1>a DEF AfterExecuted, IsQuery, Progress
  <2>2. open'[c] = open[c]
    BY <1>4, <1>11 DEF OpenAfter
  <2>3. \A q \in Queries : pend'[c][t][q] = IF open[c] /\ q = idx[c] THEN pend[c][t][q] + 1 ELSE pend[c][t][q]
    <3>1. CASE open[c]
      BY <1>1, <1>2, <1>4, <1>11, <3>1, StatementPoints
    <3>2. CASE ~open[c]
      BY <1>4, <1>5, <3>2 DEF PendAfter, Session
    <3> QED
      BY <3>1, <3>2
  <2>4. \A q \in Queries : durable'[t][q] = durable[t][q] + IF ~open[c] /\ q = idx[c] THEN 1 ELSE 0
    BY <1>1, <1>2, <1>3, <1>11, StatementPoints
  <2>5. SessionStep(c, t)
    BY <1>1, <1>2, <1>4, <1>5, <1>11, <2>1, <2>2 DEF Session, PendAfter, SessionStep
  <2>6. Progress(c)'
    BY <1>1, <1>2, <1>5, <1>11, <2>1, <2>2 DEF Progress
  <2>7. ASSUME NEW q \in Queries
        PROVE  /\ durable'[t][q] <= Faults(t)
               /\ durable'[t][q] + pend'[c][t][q] <= Faults(t) + (IF q < idx'[c] THEN 1 ELSE 0)
               /\ ~open'[c] /\ q >= idx'[c] => durable'[t][q] < Faults(t)
    <3>1. /\ durable[t][q] + pend[c][t][q] <= Faults(t) + (IF q < idx[c] THEN 1 ELSE 0)
          /\ ~open[c] /\ q >= idx[c] => durable[t][q] < Faults(t)
      BY <1>1, <1>2, <1>5, <1>11, <2>1 DEF Bounded
    <3>2. ~open[c] => pend[c][t][q] = 0
      BY <1>5, <1>x DEF Session
    <3> QED
      BY <1>2, <1>7, <2>1, <2>2, <2>3, <2>4, <3>1, <3>2
  <2>8. Bounded(c)'
    BY <1>1, <1>f, <2>1, <2>7 DEF Bounded
  <2>9. Faultless(c)'
    <3>1. NoFault(t) => /\ open[c]
                        /\ \A q \in 1..size[t] : pend[c][t][q] = IF q < idx[c] THEN 1 ELSE 0
      BY <1>1, <1>2, <1>5, <1>11, <2>1 DEF Faultless
    <3>2. NoFault(t) => /\ open'[c]
                        /\ \A q \in 1..size[t] : pend'[c][t][q] = IF q < idx'[c] THEN 1 ELSE 0
      BY <1>2, <2>1, <2>2, <2>3, <3>1
    <3> QED
      BY <1>1, <1>f, <2>1, <3>2 DEF Faultless
  <2>10. \A q \in Queries : durable'[t][q] + pend'[c][t][q] <= 1 + Faults(t)
    BY <1>2, <2>1, <2>3, <2>4, <2>7
  <2>11. Outcome(t)'
    BY <1>2, <1>o, <2>1, <2>10
  <2> QED
    BY <1>l, <2>5, <2>6, <2>8, <2>9, <2>11
<1>12. CASE kind[t] # "basic" /\ idx[c] \in {size[t] + 1, Rollback}
  <2>1. ~IsQuery(c) /\ idx[c] # 0 /\ pc'[c] = "returned" /\ code'[c] = code[c]
    BY <1>1, <1>2, <1>12, <1>a DEF AfterExecuted, IsQuery
  <2>2. /\ ~open'[c] /\ pend'[c] = Empty
        /\ \A q \in Queries : pend'[c][t][q] = 0
    BY <1>4, <1>x, <2>1 DEF OpenAfter, PendAfter
  <2>3. SessionStep(c, t) /\ Progress(c)'
    BY <1>1, <1>2, <1>5, <1>12, <2>1, <2>2 DEF SessionStep, Progress
  <2>4. CASE idx[c] = Rollback
    <3>1. \A q \in Queries : durable'[t][q] = durable[t][q]
      <4>1. \A q \in Queries : Applied(c)[t][q] = 0
        BY <1>1, <2>4, StatementPoints
      <4> QED
        BY <1>2, <1>3, <4>1
    <3>2. Bounded(c)'
      BY <1>1, <1>2, <1>7, <1>f, <2>1, <2>2, <3>1 DEF Bounded
    <3>3. Faultless(c)'
      BY <1>1, <1>5, <2>1, <2>4 DEF Faultless, Progress
    <3>4. Outcome(t)'
      BY <1>2, <1>7, <1>o, <2>2, <3>1
    <3> QED
      BY <1>l, <2>3, <3>2, <3>3, <3>4
  <2>5. CASE idx[c] = size[t] + 1
    <3>1. code[c] = "ok"
      BY <1>1, <1>2, <1>5, <2>5 DEF Progress
    <3>2. \A q \in Queries : durable'[t][q] = durable[t][q] + pend[c][t][q]
      BY <1>1, <1>3, <2>5, StatementPoints
    <3>3. \A q \in Queries : durable'[t][q] <= Faults(t) + 1
      BY <1>1, <1>2, <1>5, <3>2 DEF Bounded
    <3>4. Bounded(c)'
      BY <1>1, <2>1, <2>2, <3>1 DEF Bounded
    <3>5. ASSUME NoFault(t), NEW q \in 1..size[t]
          PROVE  durable'[t][q] = 1
      <4>1. pend[c][t][q] = 1
        BY <1>1, <1>2, <1>5, <1>12, <2>5, <3>5 DEF Faultless
      <4>2. q \in Queries /\ durable[t][q] <= 0
        BY <1>2, <1>7, <1>f, <3>5
      <4> QED
        BY <1>2, <3>2, <4>1, <4>2
    <3>6. Faultless(c)'
      BY <1>1, <1>f, <2>1, <3>5 DEF Faultless, Done
    <3>7. Outcome(t)'
      BY <1>2, <1>o, <2>2, <3>2, <3>3
    <3> QED
      BY <1>l, <2>3, <3>4, <3>6, <3>7
  <2> QED
    BY <1>12, <2>4, <2>5
<1> QED
  BY <1>2, <1>5, <1>9, <1>10, <1>11, <1>12 DEF IsQuery

\* The statement fails, at the server or because the connection is dead: nothing
\* more is durable, a query leads to ROLLBACK, and nobody looks at the failure of
\* another statement.
LEMMA FailKeeps ==
  ASSUME TInv, TTypeOK', NEW c \in Conns, NEW t \in Tasks, t = task[c],
         pc[c] \in {"exec", "reconnect"},
         NEW e \in {"deadlock", "other", "zero"}, Executed(c, FALSE, e),
         IF e = "zero" THEN ~up[c] /\ UNCHANGED refused
                       ELSE up[c] /\ pc[c] = "exec" /\ ServerError(c),
         UNCHANGED <<open, pend>> \/ EndTransaction(c),
         UNCHANGED <<task, looping, up, status, kind, size, conn, lost, inside, durable>>
  PROVE  TInv'
<1>2. /\ status[t] = "running" /\ conn[t] = c
      /\ size[t] \in Nat /\ idx[c] \in Nat /\ Rollback \in Nat /\ Rollback > size[t] + 1
      /\ lost[t] \in Nat /\ refused[t] \in Nat /\ Faults(t) \in Nat
      /\ \A q \in Queries : /\ q \in Nat /\ q > 0 /\ q < Rollback
                            /\ durable[t][q] \in Nat /\ pend[c][t][q] \in Nat
      /\ 1..size[t] \subseteq Queries
  BY Working
<1>3. /\ \A u \in Tasks \ {t} : refused'[u] = refused[u]
      /\ IF e = "zero" \/ IsQuery(c) THEN refused'[t] = refused[t] ELSE refused'[t] = refused[t] + 1
  BY DEF ServerError, TInv, TTypeOK
<1>f. /\ refused'[t] >= refused[t]
      /\ Faults(t)' = IF e = "zero" \/ IsQuery(c) THEN Faults(t) ELSE Faults(t) + 1
      /\ NoFault(t)' => NoFault(t) /\ (e = "zero" \/ IsQuery(c))
  BY <1>2, <1>3 DEF Faults, NoFault
<1>4. /\ ~open'[c] => pend'[c] = Empty
      /\ open'[c] => open[c] /\ pend'[c] = pend[c]
      /\ \A d \in Conns \ {c} : pend'[d] = pend[d] /\ open'[d] = open[d]
  BY DEF TInv, TTypeOK, ConnOK, Session, EndTransaction
<1>x. \A u \in Tasks, q \in Queries : /\ pend[c][u][q] \in Nat /\ Empty[u][q] = 0
                                      /\ pend'[c][u][q] \in {pend[c][u][q], 0}
  BY <1>4, Bookkeeping
<1>5. /\ Session(c) /\ Progress(c) /\ Bounded(c) /\ Faultless(c)
      /\ size[t] > 0
      /\ idx[c] \in 0..(size[t] + 1) \/ idx[c] = Rollback
  BY DEF TInv, ConnOK, Progress
<1>a. AfterExecuted(c, FALSE, e)
  BY AfterStatement
<1>6. Elsewhere(c, t) /\ Leftovers(c, t)
  BY <1>3, <1>4, <1>a, <1>x DEF Elsewhere, Leftovers, AfterExecuted
<1>7. \A q \in Queries : /\ durable[t][q] <= Faults(t)
                         /\ durable[t][q] + pend'[c][t][q]
                              <= Faults(t) + (IF pc[c] = "exec" /\ q < idx[c] THEN 1 ELSE 0)
  <2>1. \A q \in Queries : /\ durable[t][q] <= Faults(t)
                           /\ durable[t][q] + pend[c][t][q]
                                <= Faults(t) + (IF pc[c] = "exec" /\ q < idx[c] THEN 1 ELSE 0)
    BY <1>5 DEF Bounded
  <2> QED
    BY <1>2, <1>x, <2>1
<1>8. Busy(c)' /\ pc'[c] \in {"exec", "returned"} /\ (Dead(c) => Dead(c)')
  BY <1>2, <1>a DEF TInv, ConnOK, Busy, Dead, AfterExecuted
<1>r. pc[c] = "reconnect" => ~open[c] /\ ~open'[c]
  BY <1>4, <1>5 DEF Session
<1>o. ASSUME refused'[t] = 0 /\ ~inside[t] =>
               (\A q \in Queries : pend'[c][t][q] = 0) \/ (pc'[c] = "exec" /\ idx'[c] # 0)
      PROVE  Outcome(t)'
  <2>1. inside[t] => kind[t] = "basic" /\ size[t] = 1
    BY DEF TInv, Outcome
  <2>2. \A q \in Queries : durable[t][q] + pend'[c][t][q] <= 1 + Faults(t)'
    BY <1>2, <1>7, <1>f, <1>x
  <2> QED
    BY <1>2, <1>o, <2>1, <2>2 DEF Outcome, Released
<1>l. SessionStep(c, t) /\ Progress(c)' /\ Bounded(c)' /\ Faultless(c)' /\ Outcome(t)' => TInv'
  BY <1>6, <1>8, Locally
<1>b. open[c] => Blamed(c) \/ (pc[c] = "exec" /\ idx[c] # 0 /\ kind[t] # "basic")
  BY <1>5 DEF Session
<1>u. ~up[c] => ~open[c] /\ ~open'[c]
  BY <1>4, <1>5 DEF Session
<1>10. CASE kind[t] = "basic"
  <2>1. /\ idx[c] = 1 /\ size[t] = 1 /\ IsQuery(c) /\ (open[c] => inside[t])
        /\ pc'[c] = "returned" /\ code'[c] = e
    BY <1>5, <1>10, <1>a DEF Progress, AfterExecuted
  <2>2. SessionStep(c, t)
    BY <1>2, <1>4, <1>10, <1>b, <1>f, <1>u, <2>1 DEF SessionStep
  <2>3. Progress(c)'
    BY <1>4, <1>5, <1>10, <2>1 DEF Progress
  <2>4. \A q \in Queries : durable[t][q] + pend'[c][t][q] <= Faults(t)
    BY <1>2, <1>7, <2>1
  <2>5. Bounded(c)' /\ Faultless(c)'
    BY <1>2, <1>7, <1>f, <2>1, <2>4 DEF Bounded, Faultless
  <2>6. Outcome(t)'
    BY <1>4, <1>o, <1>x, <2>1
  <2> QED
    BY <1>l, <2>2, <2>3, <2>5, <2>6
<1>11. CASE kind[t] # "basic" /\ idx[c] = 0
  <2>1. ~IsQuery(c) /\ pc'[c] = "exec" /\ idx'[c] = 1 /\ code'[c] = code[c] /\ code[c] = "ok"
    BY <1>2, <1>5, <1>11, <1>a DEF Progress, AfterExecuted, IsQuery
  <2>2. SessionStep(c, t)
    BY <1>2, <1>4, <1>11, <1>f, <1>u, <2>1 DEF SessionStep
  <2>3. Progress(c)'
    BY <1>2, <1>4, <1>5, <1>11, <2>1 DEF Progress
  <2>4. \A q \in Queries : durable[t][q] + pend'[c][t][q] <= Faults(t)
    BY <1>2, <1>7, <1>11
  <2>5. up[c] => Faults(t)' = Faults(t) + 1 /\ ~NoFault(t)'
    BY <1>f, <2>1
  <2>6. Bounded(c)'
    BY <1>2, <1>7, <1>f, <1>x, <2>1, <2>4, <2>5 DEF Bounded
  <2>7. Faultless(c)'
    BY <2>1, <2>5 DEF Faultless
  <2>8. Outcome(t)'
    BY <1>o, <2>1
  <2> QED
    BY <1>l, <2>2, <2>3, <2>6, <2>7, <2>8
<1>12. CASE kind[t] # "basic" /\ IsQuery(c)
  <2>1. pc'[c] = "exec" /\ idx'[c] = Rollback /\ code'[c] = e
    BY <1>2, <1>12, <1>a DEF AfterExecuted, IsQuery
  <2>2. SessionStep(c, t)
    BY <1>2, <1>4, <1>12, <1>f, <1>u, <2>1 DEF SessionStep
  <2>3. Progress(c)'
    BY <1>2, <1>4, <1>5, <1>12, <2>1 DEF Progress
  <2>4. \A q \in Queries : durable[t][q] + pend'[c][t][q] <= Faults(t) + 1
    BY <1>2, <1>7, <1>x
  <2>5. Bounded(c)'
    BY <1>2, <1>7, <1>12, <1>f, <2>1, <2>4 DEF Bounded
  <2>6. Faultless(c)'
    BY <1>2, <2>1 DEF Faultless
  <2>7. Outcome(t)'
    BY <1>2, <1>o, <2>1
  <2> QED
    BY <1>l, <2>2, <2>3, <2>5, <2>6, <2>7
<1>13. CASE kind[t] # "basic" /\ idx[c] \in {size[t] + 1, Rollback}
  <2>1. ~IsQuery(c) /\ pc'[c] = "returned" /\ code'[c] = code[c]
    BY <1>2, <1>13, <1>a DEF AfterExecuted, IsQuery
  <2>2. up[c] => refused'[t] > 0 /\ Faults(t)' = Faults(t) + 1 /\ ~NoFault(t)'
    BY <1>2, <1>3, <1>f, <2>1 DEF NoFault
  <2>3. code[c] = "ok" => up[c] \/ lost[t] > 0
    BY <1>2, <1>5, <1>13 DEF Session, Progress
  <2>4. SessionStep(c, t)
    BY <1>2, <1>4, <1>f, <1>u, <2>1, <2>2 DEF SessionStep
  <2>5. Progress(c)'
    BY <1>2, <1>4, <1>5, <1>13, <2>1 DEF Progress
  <2>6. \A q \in Queries : durable[t][q] + pend'[c][t][q] <= Faults(t)'
    <3>1. CASE up[c]
      BY <1>2, <1>7, <1>x, <2>2, <3>1
    <3>2. CASE ~up[c]
      BY <1>2, <1>4, <1>7, <1>f, <1>u, <1>x, <3>2
    <3> QED
      BY <3>1, <3>2
  <2>7. Bounded(c)'
    BY <1>2, <1>7, <1>f, <1>x, <2>1, <2>6 DEF Bounded
  <2>8. Faultless(c)'
    BY <1>2, <1>f, <2>1, <2>2, <2>3 DEF Faultless, NoFault
  <2>9. Outcome(t)'
    BY <1>2, <1>4, <1>o, <1>u, <1>x, <2>2
  <2> QED
    BY <1>l, <2>4, <2>5, <2>7, <2>8, <2>9
<1> QED
  BY <1>2, <1>5, <1>10, <1>11, <1>12, <1>13 DEF IsQuery

\* The connection is lost, before or after the statement took effect.
LEMMA LoseKeeps ==
  ASSUME TInv, TTypeOK', NEW c \in Conns, NEW t \in Tasks, t = task[c],
         NEW executed \in BOOLEAN, Lose(c, executed)
  PROVE  TInv'
<1>1. /\ pc[c] = "exec" /\ up[c]
      /\ durable' = Plus(durable, IF executed THEN Applied(c) ELSE Empty) /\ EndTransaction(c)
      /\ lost' = [lost EXCEPT ![t] = lost[t] + 1]
      /\ up' = [up EXCEPT ![c] = FALSE]
      /\ pc' = [pc EXCEPT ![c] = "reconnect"]
      /\ UNCHANGED <<task, idx, code, looping, status, kind, size, conn, inside, refused>>
  BY DEF Lose, Executing
<1>2. /\ status[t] = "running" /\ conn[t] = c
      /\ size[t] \in Nat /\ size[t] <= MaxQueries /\ MaxQueries \in Nat
      /\ idx[c] \in Nat /\ Rollback \in Nat /\ Rollback > size[t] + 1
      /\ lost[t] \in Nat /\ refused[t] \in Nat /\ Faults(t) \in Nat
      /\ \A q \in Queries : q \in Nat /\ durable[t][q] \in Nat /\ pend[c][t][q] \in Nat
      /\ 1..size[t] \subseteq Queries
  BY <1>1, Working
<1>3. /\ lost'[t] = lost[t] + 1 /\ ~up'[c] /\ pc'[c] = "reconnect" /\ ~open'[c] /\ pend'[c] = Empty
      /\ \A d \in Conns \ {c} : /\ pc'[d] = pc[d] /\ up'[d] = up[d]
                                /\ pend'[d] = pend[d] /\ open'[d] = open[d]
      /\ \A u \in Tasks \ {t} : lost'[u] = lost[u]
  BY <1>1 DEF TInv, TTypeOK, EndTransaction
<1>f. Faults(t)' = Faults(t) + 1 /\ ~NoFault(t)'
  BY <1>1, <1>2, <1>3 DEF Faults, NoFault
<1>x. \A u \in Tasks, q \in Queries : /\ durable[u][q] \in Nat /\ pend[c][u][q] \in Nat
                                      /\ Empty[u][q] = 0 /\ pend'[c][u][q] = 0
  BY <1>3, Bookkeeping
<1>4. \A u \in Tasks, q \in Queries : \/ durable'[u][q] = durable[u][q]
                                      \/ durable'[u][q] = durable[u][q] + Applied(c)[u][q]
  BY <1>1, DurablePoints
<1>5. /\ Session(c) /\ Progress(c) /\ Bounded(c)
      /\ size[t] > 0
      /\ idx[c] \in 0..(size[t] + 1) \/ idx[c] = Rollback
      /\ IsQuery(c) \/ idx[c] = Rollback \/ idx[c] \in {0, size[t] + 1}
  BY <1>1, <1>2 DEF TInv, ConnOK, Progress, IsQuery
<1>6. Elsewhere(c, t)
  BY <1>1, <1>3 DEF Elsewhere
<1>y. Leftovers(c, t)
  <2> SUFFICES ASSUME NEW u \in Tasks \ {t}, NEW q \in Queries
               PROVE  \/ durable'[u][q] = durable[u][q]
                      \/ durable'[u][q] = durable[u][q] + pend[c][u][q]
    BY <1>x DEF Leftovers
  <2>1. Applied(c)[u][q] \in {0, pend[c][u][q]}
    BY <1>1, <1>5, StatementPoints
  <2> QED
    BY <1>4, <1>x, <2>1
<1>7. ASSUME NEW q \in Queries
      PROVE  /\ durable'[t][q] <= Faults(t) + 1
             /\ kind[t] # "basic" /\ idx[c] \in 1..size[t] /\ q >= idx[c] => durable'[t][q] < Faults(t) + 1
  <2>1. /\ durable[t][q] <= Faults(t)
        /\ durable[t][q] + pend[c][t][q] <= Faults(t) + 1
    BY <1>1, <1>2, <1>5 DEF Bounded
  <2>2. CASE durable'[t][q] = durable[t][q]
    BY <1>2, <2>1, <2>2
  <2>3. CASE durable'[t][q] = durable[t][q] + Applied(c)[t][q] /\ IsQuery(c)
    <3>1. Applied(c)[t][q] = IF ~open[c] /\ q = idx[c] THEN 1 ELSE 0
      BY <1>1, <2>3, StatementPoints
    <3>2. kind[t] # "basic" /\ ~open[c] /\ q >= idx[c] => durable[t][q] < Faults(t)
      BY <1>1, <1>2, <1>5, <2>3 DEF Bounded, IsQuery
    <3> QED
      BY <1>2, <2>1, <2>3, <3>1, <3>2
  <2>4. CASE durable'[t][q] = durable[t][q] + Applied(c)[t][q] /\ idx[c] = Rollback
    BY <1>1, <1>2, <2>1, <2>4, StatementPoints
  <2>5. CASE durable'[t][q] = durable[t][q] + Applied(c)[t][q] /\ idx[c] \in {0, size[t] + 1}
    <3>1. Applied(c)[t][q] = pend[c][t][q]
      BY <1>1, <2>5, StatementPoints
    <3> QED
      BY <1>2, <2>1, <2>5, <3>1
  <2> QED
    BY <1>4, <1>5, <2>2, <2>3, <2>4, <2>5
<1>8. Busy(c)' /\ ~Dead(c)
  BY <1>1, <1>2, <1>3 DEF TInv, ConnOK, Busy, Dead
<1>9. SessionStep(c, t)
  BY <1>1, <1>2, <1>3 DEF SessionStep
<1>10. Progress(c)'
  BY <1>1, <1>2, <1>3, <1>5 DEF Progress
<1>d. \A q \in Queries : durable'[t][q] \in Nat
  BY DEF TTypeOK
<1>11. Bounded(c)'
  BY <1>1, <1>2, <1>3, <1>7, <1>d, <1>f, <1>x DEF Bounded
<1>12. Faultless(c)'
  BY <1>1, <1>f DEF Faultless
<1>13. Outcome(t)'
  <2>1. inside[t] => kind[t] = "basic" /\ size[t] = 1
    BY DEF TInv, Outcome
  <2>2. \A q \in Queries : durable'[t][q] + pend'[c][t][q] <= 1 + Faults(t)'
    BY <1>2, <1>7, <1>d, <1>f, <1>x
  <2> QED
    BY <1>1, <1>2, <1>3, <1>f, <1>x, <2>1, <2>2 DEF Outcome, Released
<1> QED
  BY <1>6, <1>8, <1>9, <1>10, <1>11, <1>12, <1>13, <1>y, Locally

\* The connection comes back, and the same statement is executed again.
LEMMA ReopenKeeps ==
  ASSUME TInv, TTypeOK', NEW c \in Conns, NEW t \in Tasks, t = task[c], Reopen(c)
  PROVE  TInv'
<1>1. /\ pc[c] = "reconnect"
      /\ up' = [up EXCEPT ![c] = TRUE]
      /\ pc' = [pc EXCEPT ![c] = "exec"]
      /\ UNCHANGED <<task, idx, code, looping, open, pend, status, kind, size, conn, lost,
                     inside, refused, durable>>
  BY DEF Reopen, tvars, bvars
<1>2. /\ status[t] = "running" /\ conn[t] = c /\ lost[t] \in Nat /\ refused[t] \in Nat
      /\ Faults(t) \in Nat
      /\ \A q \in Queries : durable[t][q] \in Nat /\ pend[c][t][q] \in Nat /\ Empty[t][q] = 0
  BY <1>1, Working, Bookkeeping
<1>f. Faults(t)' = Faults(t) /\ (NoFault(t)' <=> NoFault(t))
  BY <1>1 DEF Faults, NoFault
<1>3. /\ up'[c] /\ pc'[c] = "exec"
      /\ \A d \in Conns \ {c} : pc'[d] = pc[d] /\ up'[d] = up[d]
  BY <1>1 DEF TInv, TTypeOK
<1>4. Elsewhere(c, t) /\ Leftovers(c, t) /\ ~Dead(c)
  BY <1>1, <1>3 DEF Elsewhere, Leftovers, Dead
<1>5. Busy(c) /\ Session(c) /\ Progress(c) /\ Bounded(c) /\ lost[t] > 0 /\ ~open[c] /\ pend[c] = Empty
  BY <1>1 DEF TInv, ConnOK, Session
<1>6. Busy(c)' /\ SessionStep(c, t)
  BY <1>1, <1>2, <1>3, <1>5 DEF Busy, SessionStep
<1>7. Progress(c)'
  BY <1>1, <1>3, <1>5 DEF Progress
<1>8. Bounded(c)'
  BY <1>1, <1>2, <1>3, <1>5, <1>f DEF Bounded
<1>9. Faultless(c)'
  BY <1>1, <1>2, <1>5 DEF Faultless, NoFault
<1>10. Outcome(t)'
  <2>1. Released(t)'
    BY <1>1, <1>2, <1>5 DEF Released
  <2> QED
    BY <1>1, <1>2, <1>f, <2>1 DEF TInv, Outcome
<1> QED
  BY <1>4, <1>6, <1>7, <1>8, <1>9, <1>10, Locally

-----------------------------------------------------------------------------
(***************************************************************************)
(* Tasks.                                                                  *)
(***************************************************************************)

\* A task begins on an idle connection, whose session may have a transaction
\* that an earlier task left open.
LEMMA StartKeeps ==
  ASSUME TInv, TTypeOK', NEW c \in Conns, NEW t \in Tasks, NEW k \in Kinds,
         NEW n \in 0..MaxQueries, Start(c, t, k, n)
  PROVE  TInv'
<1>1. /\ pc[c] = "idle" /\ status[t] = "new" /\ (k = "basic" => n = 1)
      /\ pc'[c] = (IF n = 0 THEN "returned" ELSE "exec") /\ task'[c] = t
      /\ idx'[c] = (IF k = "basic" THEN 1 ELSE 0)
      /\ code'[c] = (IF n = 0 THEN "empty" ELSE "ok")
      /\ status'[t] = "running" /\ kind'[t] = k /\ size'[t] = n /\ conn'[t] = c
      /\ inside'[t] = (k = "basic" /\ open[c])
      /\ UNCHANGED <<looping, up, open, pend, durable, lost, refused>>
  BY DEF Start, TInv, TTypeOK, svars, bvars
<1>2. Elsewhere(c, t) /\ Leftovers(c, t)
  BY DEF Start, Elsewhere, Leftovers, TInv, TTypeOK, svars, bvars
<1>n. NoConn \notin Conns
  BY TransactionAssumption
<1>3. /\ task[c] = NoTask /\ (open[c] => Blamed(c)) /\ ~looping[c]
      /\ \A q \in Queries : durable[t][q] = 0 /\ pend[c][t][q] = 0
      /\ lost[t] = 0 /\ refused[t] = 0 /\ conn[t] = NoConn
      /\ ~open[c] => pend[c] = Empty
      /\ ~up[c] => ~open[c]
  BY <1>1, <1>n DEF TInv, ConnOK, Busy, Session, Progress, Outcome
<1>f. Faults(t)' = 0
  BY <1>1, <1>3 DEF Faults
<1>4. n \in Nat /\ Rollback \in Nat /\ Rollback > n + 1 /\ Rollback > 1
  BY TransactionAssumption DEF Rollback
<1>5. Busy(c)' /\ SessionStep(c, t) /\ (Dead(c) => Dead(c)')
  BY <1>1, <1>3, TransactionAssumption DEF Busy, SessionStep, Dead
<1>i. /\ k = "basic" /\ open[c] => inside'[t]
      /\ inside'[t] => k = "basic" /\ n = 1
  BY <1>1
<1>6. Progress(c)'
  BY <1>1, <1>3, <1>4, <1>i DEF Progress
<1>8. Bounded(c)'
  BY <1>1, <1>3, <1>4, <1>f DEF Bounded
<1>9. Faultless(c)'
  BY <1>1, <1>4 DEF Faultless
<1>10. Outcome(t)'
  <2>1. Released(t)'
    BY <1>1, <1>3 DEF Released
  <2> QED
    BY <1>1, <1>3, <1>f, <1>i, <2>1 DEF Outcome
<1> QED
  BY <1>1, <1>2, <1>3, <1>5, <1>6, <1>8, <1>9, <1>10, Locally

\* What is known when ExecuteTransaction, or Execute, has returned.
LEMMA ReturnedMeans ==
  ASSUME TInv, NEW c \in Conns, NEW t \in Tasks, t = task[c], pc[c] = "returned", NoFault(t)
  PROVE  /\ code[c] = "ok" /\ ~inside[t] => Done(t, 1)
         /\ code[c] # "ok" => Done(t, 0)
         /\ code[c] = "zero" => ~up[c]
<1>1. code[c] = "ok" /\ ~inside[t] => Done(t, 1)
  BY DEF TInv, ConnOK, Faultless
<1>2. code[c] # "ok" => Done(t, 0)
  <2>1. /\ \A q \in Queries : durable[t][q] \in Nat
        /\ 1..size[t] \subseteq Queries
        /\ Faults(t) = 0
    BY Bookkeeping
  <2>2. code[c] # "ok" => \A q \in Queries : durable[t][q] <= 0
    BY <2>1 DEF TInv, ConnOK, Bounded
  <2> QED
    BY <2>1, <2>2 DEF Done
<1>3. code[c] = "zero" => ~up[c]
  BY DEF TInv, ConnOK, Progress
<1> QED
  BY <1>1, <1>2, <1>3

\* The task ends, and what its caller is told is right.
LEMMA FinishKeeps ==
  ASSUME TInv, TTypeOK', NEW c \in Conns, NEW t \in Tasks, t = task[c], pc[c] = "returned",
         NEW s \in {"ok", "failed", "returned"}, Finish(c, s),
         s = "failed" => code[c] # "ok",
         s = "ok" => code[c] \in {"ok", "zero"}
  PROVE  TInv'
<1>1. /\ status'[t] = s /\ task'[c] = NoTask /\ pc'[c] = "idle" /\ ~looping'[c]
      /\ UNCHANGED <<up, open, pend, kind, size, conn, lost, inside, refused, durable>>
  BY DEF Finish, TInv, TTypeOK, svars, bvars
<1>2. Elsewhere(c, t) /\ Leftovers(c, t)
  BY DEF Finish, Elsewhere, Leftovers, TInv, TTypeOK, svars, bvars
<1>3. /\ conn[t] = c /\ (~open[c] => pend[c] = Empty) /\ (~up[c] => ~open[c])
      /\ open[c] => Blamed(c)
      /\ refused[t] \in Nat
  BY Bookkeeping DEF TInv, ConnOK, Session, Busy
<1>4. Busy(c)' /\ SessionStep(c, t) /\ Progress(c)' /\ (Dead(c) => Dead(c)')
  BY <1>1, <1>3 DEF Busy, SessionStep, Progress, Dead
<1>5. Bounded(c)' /\ Faultless(c)'
  BY <1>1 DEF Bounded, Faultless
<1>6. UNCHANGED <<Done(t, 0), Done(t, 1), Faults(t), NoFault(t), Released(t)>>
  BY <1>1 DEF Done, Faults, NoFault, Released
<1>7. NoFault(t) /\ ~inside[t] =>
         /\ s = "failed" => Done(t, 0)
         /\ s = "ok" => Done(t, 1) \/ (Done(t, 0) /\ Dead(c)')
         /\ s = "returned" => Done(t, 0) \/ Done(t, 1)
  BY <1>1, ReturnedMeans DEF Dead
<1>8. /\ refused[t] = 0 /\ ~inside[t] => Released(t)
      /\ \A q \in Queries : durable[t][q] + pend[c][t][q] <= 1 + Faults(t)
      /\ inside[t] => kind[t] = "basic" /\ size[t] = 1
  <2>1. status[t] = "running" /\ conn[t] = c
    BY Working
  <2> QED
    BY <2>1 DEF TInv, Outcome
<1>9. Outcome(t)'
  BY <1>1, <1>3, <1>6, <1>7, <1>8 DEF Outcome
<1> QED
  BY <1>2, <1>4, <1>5, <1>9, Locally

\* The transaction is tried again from the beginning; nothing of the failed
\* round is durable, or held by a transaction left open, that a fault does not
\* account for.
LEMMA TryExecuteKeeps ==
  ASSUME TInv, TTypeOK', NEW c \in Conns, NEW t \in Tasks, t = task[c],
         pc[c] = "lock" \/ (pc[c] = "returned" /\ code[c] # "ok"),
         size[t] > 0, kind[t] # "basic", TryExecute(c)
  PROVE  TInv'
<1>1. /\ pc'[c] = "exec" /\ idx'[c] = 0 /\ code'[c] = "ok" /\ looping'[c]
      /\ UNCHANGED <<task, up, open, pend, status, kind, size, conn, lost, inside, refused, durable>>
  BY DEF TryExecute, TInv, TTypeOK, svars, tvars, bvars
<1>2. Elsewhere(c, t) /\ Leftovers(c, t)
  BY DEF TryExecute, Elsewhere, Leftovers, TInv, TTypeOK, svars, tvars, bvars
<1>3. /\ conn[t] = c /\ status[t] = "running"
      /\ (~open[c] => pend[c] = Empty) /\ (~up[c] => ~open[c]) /\ (open[c] => Blamed(c))
      /\ refused[t] \in Nat /\ Faults(t) \in Nat
      /\ \A q \in Queries : q \in Nat /\ q > 0
  BY Working DEF TInv, ConnOK, Session
<1>f. Faults(t)' = Faults(t) /\ (NoFault(t)' <=> NoFault(t))
  BY <1>1 DEF Faults, NoFault
<1>4. \A q \in Queries : durable[t][q] <= Faults(t) /\ durable[t][q] + pend[c][t][q] <= Faults(t)
  BY <1>3 DEF TInv, ConnOK, Bounded
<1>5. Busy(c)' /\ SessionStep(c, t) /\ (Dead(c) => Dead(c)')
  BY <1>1, <1>3 DEF TInv, ConnOK, Busy, SessionStep, Dead
<1>6. size[t] \in Nat /\ Rollback > 1
  BY TransactionAssumption DEF TInv, TTypeOK, Rollback
<1>7. Progress(c)'
  BY <1>1, <1>3, <1>6 DEF Progress
<1>8. Bounded(c)' /\ Faultless(c)'
  BY <1>1, <1>3, <1>4, <1>6, <1>f DEF Bounded, Faultless
<1>9. Outcome(t)'
  <2>1. refused[t] = 0 /\ ~inside[t] => Released(t)'
    BY <1>1, <1>3 DEF TInv, Outcome, Released
  <2>2. \A q \in Queries : durable[t][q] + pend[c][t][q] <= 1 + Faults(t)
    BY <1>3 DEF TInv, Outcome
  <2> QED
    BY <1>1, <1>3, <1>f, <2>1, <2>2 DEF TInv, Outcome
<1> QED
  BY <1>2, <1>5, <1>7, <1>8, <1>9, Locally

\* TransactionTask waits for _deadlockLock.
LEMMA AwaitLockKeeps ==
  ASSUME TInv, TTypeOK', NEW c \in Conns, NEW t \in Tasks, t = task[c], AwaitLock(c)
  PROVE  TInv'
<1>1. /\ pc[c] = "returned" /\ code[c] = "deadlock" /\ kind[t] = "async" /\ pc'[c] = "lock"
      /\ UNCHANGED <<task, idx, code, looping, up, open, pend, status, kind, size, conn, lost,
                     inside, refused, durable>>
  BY DEF AwaitLock, TInv, TTypeOK, svars, tvars, bvars
<1>2. Elsewhere(c, t) /\ Leftovers(c, t)
  BY DEF AwaitLock, Elsewhere, Leftovers, TInv, TTypeOK, svars, tvars, bvars
<1>3. ConnOK(c) /\ conn[t] = c /\ status[t] = "running" /\ refused[t] \in Nat
  BY <1>1, Working DEF TInv
<1>f. Faults(t)' = Faults(t) /\ (NoFault(t)' <=> NoFault(t)) /\ (Released(t)' <=> Released(t))
  BY <1>1 DEF Faults, NoFault, Released
<1>4. Busy(c)' /\ SessionStep(c, t) /\ (Dead(c) => Dead(c)')
  BY <1>1, <1>3 DEF ConnOK, Busy, Session, SessionStep, Dead
<1>5. Progress(c)' /\ Faultless(c)'
  BY <1>1, <1>3 DEF ConnOK, Progress, Faultless
<1>6. Bounded(c)'
  BY <1>1, <1>3, <1>f DEF ConnOK, Bounded
<1>7. Outcome(t)'
  BY <1>1, <1>3, <1>f DEF TInv, Outcome
<1> QED
  BY <1>2, <1>4, <1>5, <1>6, <1>7, Locally

\* Steps that only count attempts or end the process.
LEMMA NothingMoves ==
  ASSUME TInv, TTypeOK',
         UNCHANGED <<pc, task, idx, code, looping, up, open, pend, status, kind, size,
                     conn, durable, lost, inside, refused>>
  PROVE  TInv'
<1>0. \A t \in Tasks : /\ Faults(t)' = Faults(t) /\ (NoFault(t)' <=> NoFault(t))
                       /\ Released(t)' <=> Released(t)
  BY DEF Faults, NoFault, Released
<1>1. ASSUME NEW c \in Conns
      PROVE  ConnOK(c)'
  <2>1. ConnOK(c)
    BY DEF TInv
  <2>2. Busy(c)' /\ Session(c)' /\ Progress(c)'
    BY <2>1 DEF ConnOK, Busy, Session, Blamed, Progress
  <2>3. Bounded(c)'
    BY <2>1 DEF ConnOK, Bounded, Faults
  <2>4. Faultless(c)'
    BY <2>1 DEF ConnOK, Faultless, NoFault, Done
  <2> QED
    BY <2>2, <2>3, <2>4 DEF ConnOK
<1>2. ASSUME NEW t \in Tasks
      PROVE  Outcome(t)'
  BY <1>0 DEF TInv, Outcome, Done, Dead
<1> QED
  BY <1>1, <1>2 DEF TInv

-----------------------------------------------------------------------------
(***************************************************************************)
(* The theorems.                                                           *)
(***************************************************************************)

\* A thread takes a step in a statement.
LEMMA StatementStep ==
  ASSUME TInv, TTypeOK', NEW c \in Conns, NEW t \in Tasks, t = task[c],
         \/ Succeed(c) \/ Deadlock(c) \/ Refuse(c) \/ Abort(c)
         \/ Lose(c, TRUE) \/ Lose(c, FALSE)
         \/ Reopen(c) \/ ReopenAgain(c) \/ ReopenAbort(c) \/ ReopenGiveUp(c) \/ ExecuteDead(c)
  PROVE  TInv'
<1>1. CASE Succeed(c)
  BY <1>1, SucceedKeeps
<1>2. CASE Deadlock(c)
  <2>1. /\ Executed(c, FALSE, "deadlock") /\ up[c] /\ pc[c] = "exec" /\ ServerError(c)
        /\ EndTransaction(c)
        /\ UNCHANGED <<task, looping, up, status, kind, size, conn, lost, inside, durable>>
    BY <1>2 DEF Deadlock, ServerError, Executing, tvars
  <2> QED
    BY <2>1, FailKeeps
<1>3. CASE Refuse(c)
  <2>1. /\ Executed(c, FALSE, "other") /\ up[c] /\ pc[c] = "exec" /\ ServerError(c)
        /\ UNCHANGED <<open, pend>>
        /\ UNCHANGED <<task, looping, up, status, kind, size, conn, lost, inside, durable>>
    BY <1>3 DEF Refuse, ServerError, Executing, tvars, svars
  <2> QED
    BY <2>1, FailKeeps
<1>4. CASE ReopenGiveUp(c) \/ ExecuteDead(c)
  <2>1. /\ Executed(c, FALSE, "zero") /\ pc[c] \in {"exec", "reconnect"}
        /\ UNCHANGED <<open, pend>> /\ UNCHANGED refused
        /\ UNCHANGED <<task, looping, up, status, kind, size, conn, lost, inside, durable>>
    BY <1>4 DEF ReopenGiveUp, ExecuteDead, tvars, svars, bvars
  <2>2. ~up[c]
    BY <1>4 DEF ReopenGiveUp, ExecuteDead, TInv, ConnOK, Session
  <2> QED
    BY <2>1, <2>2, FailKeeps
<1>5. CASE Lose(c, TRUE) \/ Lose(c, FALSE)
  BY <1>5, LoseKeeps
<1>6. CASE Reopen(c)
  BY <1>6, ReopenKeeps
<1>7. CASE Abort(c) \/ ReopenAgain(c) \/ ReopenAbort(c)
  BY <1>7, NothingMoves DEF Abort, ReopenAgain, ReopenAbort, cvars, svars, tvars, bvars
<1> QED
  BY <1>1, <1>2, <1>3, <1>4, <1>5, <1>6, <1>7

\* A thread looks at the code that ExecuteTransaction returned.
LEMMA ReturnStep ==
  ASSUME TInv, TTypeOK', NEW c \in Conns, NEW t \in Tasks, t = task[c],
         \/ EndOk(c) \/ EndFailed(c) \/ AwaitLock(c) \/ TakeLock(c)
         \/ RetryAsync(c) \/ Expire(c) \/ RetryDirect(c)
  PROVE  TInv'
<1>1. CASE EndOk(c)
  BY <1>1, FinishKeeps DEF EndOk, Succeeded
<1>2. CASE EndFailed(c)
  BY <1>2, FinishKeeps DEF EndFailed, Succeeded
<1>3. CASE AwaitLock(c)
  BY <1>3, AwaitLockKeeps
<1>4. CASE TakeLock(c)
  <2>1. pc[c] = "lock" /\ size[t] > 0 /\ kind[t] # "basic" /\ TryExecute(c)
    BY <1>4 DEF TakeLock, TInv, ConnOK, Progress
  <2> QED
    BY <2>1, TryExecuteKeeps
<1>5. ASSUME \/ RetryFailed(c)
             \/ pc[c] = "returned" /\ ~looping[c] /\ code[c] = "deadlock" /\ kind[t] = "direct"
      PROVE  pc[c] = "returned" /\ code[c] # "ok" /\ size[t] > 0 /\ kind[t] # "basic"
  BY <1>5 DEF RetryFailed, Succeeded, TInv, ConnOK, Progress
<1>6. CASE RetryAsync(c)
  BY <1>5, <1>6, TryExecuteKeeps DEF RetryAsync
<1>7. CASE Expire(c)
  BY <1>5, <1>7, FinishKeeps DEF Expire
<1>8. CASE RetryDirect(c)
  <2>1. pc[c] = "returned" /\ code[c] # "ok" /\ size[t] > 0 /\ kind[t] # "basic"
    BY <1>5, <1>8 DEF RetryDirect
  <2>2. TryExecute(c) \/ Finish(c, "returned")
    BY <1>8 DEF RetryDirect
  <2> QED
    BY <2>1, <2>2, TryExecuteKeeps, FinishKeeps
<1> QED
  BY <1>1, <1>2, <1>3, <1>4, <1>6, <1>7, <1>8

\* Every step preserves the invariant.
LEMMA TInvStep == TInv /\ [TNext]_vars => TInv'
<1> SUFFICES ASSUME TInv, [TNext]_vars
             PROVE  TInv'
  OBVIOUS
<1>1. TTypeOK'
  BY TypesStep DEF TInv
<1>2. ASSUME NEW c \in Conns, ThreadStep(c)
      PROVE  TInv'
  <2>1. pc[c] # "idle"
    BY <1>2 DEF ThreadStep, Succeed, Deadlock, Refuse, Abort, ServerError, Executing, Lose,
                Reopen, ReopenAgain, ReopenAbort, ReopenGiveUp, ExecuteDead, EndOk, EndFailed,
                AwaitLock, TakeLock, RetryAsync, Expire, RetryDirect, RetryFailed
  <2>2. PICK t \in Tasks : t = task[c]
    BY <2>1, Working
  <2> QED
    BY <1>1, <1>2, <2>2, StatementStep, ReturnStep DEF ThreadStep
<1>3. ASSUME NEW c \in Conns, NEW t \in Tasks, NEW k \in Kinds, NEW n \in 0..MaxQueries,
             Start(c, t, k, n)
      PROVE  TInv'
  BY <1>1, <1>3, StartKeeps
<1>4. CASE Over \/ UNCHANGED vars
  BY <1>1, <1>4, NothingMoves DEF Over, vars, cvars, svars, tvars, bvars
<1> QED
  BY <1>2, <1>3, <1>4 DEF TNext

\* Initially every connection is idle and every task new.
LEMMA TInvInit == TInit => TInv
<1> SUFFICES ASSUME TInit
             PROVE  TInv
  OBVIOUS
<1>1. Empty \in [Tasks -> [Queries -> Nat]] /\ \A t \in Tasks, q \in Queries : Empty[t][q] = 0
  BY DEF Empty
<1>2. TTypeOK
  BY <1>1, TransactionAssumption DEF TInit, TTypeOK, Kinds
<1>3. ASSUME NEW c \in Conns
      PROVE  ConnOK(c)
  BY <1>1, <1>3, TransactionAssumption DEF TInit, ConnOK, Busy, Session, Progress, Bounded, Faultless
<1>4. ASSUME NEW t \in Tasks
      PROVE  Outcome(t)
  <2>1. Released(t)
    BY <1>1, <1>4 DEF TInit, Released
  <2> QED
    BY <1>1, <1>4, <2>1 DEF TInit, Outcome
<1> QED
  BY <1>2, <1>3, <1>4 DEF TInv

\* The invariant holds in every behaviour.
LEMMA TInvHolds == TSpec => []TInv
BY TInvInit, TInvStep, PTL DEF TSpec

\* Through deadlocks, refused queries and retries, on connections that work or
\* have died, with or without a transaction left open by an earlier operation, a
\* task that met no fault has all its queries durable once, or none.
THEOREM TransactionsAtomic == TSpec => []AtomicWithoutFault
<1>1. TInv => AtomicWithoutFault
  <2> SUFFICES ASSUME TInv, NEW t \in Tasks, NoFault(t)
               PROVE  Done(t, 0) \/ Done(t, 1)
    BY DEF AtomicWithoutFault
  <2>f. /\ \A q \in Queries : durable[t][q] \in Nat
        /\ 1..size[t] \subseteq Queries
        /\ Faults(t) = 0
        /\ inside[t] \in BOOLEAN
    BY Bookkeeping
  <2>1. CASE status[t] = "new"
    BY <2>1, <2>f DEF TInv, Outcome, Done
  <2>2. CASE status[t] # "new" /\ inside[t]
    <3>1. conn[t] \in Conns /\ size[t] = 1 /\ 1 \in Queries
      BY <2>2, <2>f DEF TInv, Outcome
    <3>2. durable[t][1] + pend[conn[t]][t][1] <= 1
      BY <2>2, <2>f, <3>1 DEF TInv, Outcome
    <3>3. durable[t][1] \in Nat /\ pend[conn[t]][t][1] \in Nat
      BY <3>1, Bookkeeping
    <3>4. durable[t][1] = 0 \/ durable[t][1] = 1
      BY <3>2, <3>3
    <3> QED
      BY <3>1, <3>4 DEF Done
  <2>3. CASE status[t] = "running" /\ ~inside[t]
    <3>1. PICK c \in Conns : c = conn[t] /\ task[c] = t
      BY <2>3 DEF TInv, Outcome
    <3>2. pc[c] # "idle"
      BY <3>1, TransactionAssumption DEF TInv, ConnOK, Busy
    <3>3. CASE pc[c] = "returned" /\ code[c] = "ok"
      BY <2>3, <3>1, <3>3, ReturnedMeans
    <3>4. CASE ~(pc[c] = "returned" /\ code[c] = "ok")
      <4>1. \A q \in Queries : durable[t][q] <= 0
        BY <2>f, <3>1, <3>2, <3>4 DEF TInv, ConnOK, Bounded
      <4> QED
        BY <2>f, <4>1 DEF Done
    <3> QED
      BY <3>3, <3>4
  <2>4. CASE status[t] \in {"ok", "failed", "returned"} /\ ~inside[t]
    BY <2>4 DEF TInv, Outcome
  <2> QED
    BY <2>1, <2>2, <2>3, <2>4 DEF TInv, TTypeOK
<1> QED
  BY <1>1, TInvHolds, PTL

\* Without a fault, and unless it is a basic statement inside a transaction that
\* was left open, the caller of a task is told the truth.
THEOREM CallersToldTheTruth == TSpec => []TruthfulWithoutFault
<1>1. TInv => TruthfulWithoutFault
  BY DEF TInv, Outcome, Dead, TruthfulWithoutFault
<1> QED
  BY <1>1, TInvHolds, PTL

\* A query becomes durable at most once more than its task met losses and failed
\* control statements.
THEOREM DuplicatesBounded == TSpec => []DuplicatesNeedFaults
<1>1. TInv => DuplicatesNeedFaults
  <2> SUFFICES ASSUME TInv, NEW t \in Tasks, NEW q \in Queries
               PROVE  durable[t][q] <= 1 + lost[t] + refused[t]
    BY DEF DuplicatesNeedFaults
  <2>1. /\ durable[t][q] \in Nat /\ lost[t] \in Nat /\ refused[t] \in Nat
        /\ \A c \in Conns : pend[c][t][q] \in Nat
    BY Bookkeeping
  <2>2. CASE status[t] = "new"
    BY <2>1, <2>2 DEF TInv, Outcome
  <2>3. CASE status[t] # "new"
    <3>1. conn[t] \in Conns /\ durable[t][q] + pend[conn[t]][t][q] <= 1 + (lost[t] + refused[t])
      BY <2>3 DEF TInv, Outcome, Faults
    <3> QED
      BY <2>1, <3>1
  <2> QED
    BY <2>2, <2>3
<1> QED
  BY <1>1, TInvHolds, PTL

\* Only a failed START TRANSACTION, COMMIT or ROLLBACK leaves a transaction open
\* for the next operation on the connection.
THEOREM OnlyRefusalsLeaveOpen == TSpec => []LeftOpenNeedsRefusal
<1>1. TInv => LeftOpenNeedsRefusal
  <2> SUFFICES ASSUME TInv, NEW c \in Conns, pc[c] = "idle", open[c]
               PROVE  /\ \E t \in Tasks : conn[t] = c /\ refused[t] > 0
                      /\ \A t \in Tasks : pend[c][t] # Empty[t] =>
                            conn[t] = c /\ (refused[t] > 0 \/ inside[t])
    BY DEF LeftOpenNeedsRefusal
  <2>1. \E t \in Tasks : conn[t] = c /\ refused[t] > 0
    BY DEF TInv, ConnOK, Session, Blamed
  <2>2. ASSUME NEW t \in Tasks, ~(conn[t] = c /\ (refused[t] > 0 \/ inside[t]))
        PROVE  pend[c][t] = Empty[t]
    <3>1. \A q \in Queries : pend[c][t][q] = 0
      <4>1. CASE conn[t] # c
        BY <4>1 DEF TInv, ConnOK, Session
      <4>2. CASE conn[t] = c
        <5>1. refused[t] = 0 /\ ~inside[t]
          BY <2>2, <4>2, Bookkeeping
        <5> QED
          BY <4>2, <5>1 DEF TInv, Outcome, Released
      <4> QED
        BY <4>1, <4>2
    <3>2. pend[c][t] \in [Queries -> Nat] /\ Empty[t] = [q \in Queries |-> 0]
      BY DEF TInv, TTypeOK, Empty
    <3> QED
      BY <3>1, <3>2
  <2> QED
    BY <2>1, <2>2
<1> QED
  BY <1>1, TInvHolds, PTL
=============================================================================
