--------------------------- MODULE MySQLTransaction ---------------------------
(***************************************************************************)
(* What an operation does on its connection: MySQLConnection::Execute and  *)
(* ExecuteTransaction, the reconnection in _HandleMySQLErrno, and the      *)
(* deadlock retries of TransactionTask, TransactionWithResultTask and      *)
(* DirectCommitTransaction.  The MySQL server and the client library are   *)
(* external: a session holds at most one open transaction, a session that  *)
(* is lost takes its open transaction with it, a new session autocommits.  *)
(*                                                                         *)
(* A statement is an index: 0 is START TRANSACTION, 1..size[t] the queries *)
(* of transaction t, size[t]+1 COMMIT, and Rollback is ROLLBACK.  What a   *)
(* query does to the data is abstracted to how often it has become         *)
(* durable.  Executing a statement, the server's refusing it, and losing   *)
(* the connection before the server saw it or before its answer came back, *)
(* are one step each; what happens between two statements is up to the     *)
(* other connections.  Nobody looks at the result of START TRANSACTION,    *)
(* COMMIT and ROLLBACK, so a transaction may be left open on a session:    *)
(* whose executions it holds is part of the state.                         *)
(***************************************************************************)
EXTENDS Integers, FiniteSets

CONSTANTS Conns,              \* the pool's connections
          Tasks,              \* operations submitted to the pool
          MaxQueries,         \* bound on the queries of a transaction
          ReconnectAttempts,  \* attempts of _HandleMySQLErrno, 5 in the code
          DirectRetries,      \* loopBreaker of DirectCommitTransaction, 5 in the code
          MaxLosses,          \* bound on the connection losses of a behaviour
          MaxErrors,          \* bound on the statement errors of a behaviour
          NoTask,
          NoConn

ASSUME TransactionAssumption ==
    /\ MaxQueries \in Nat \ {0}
    /\ ReconnectAttempts \in Nat \ {0}
    /\ DirectRetries \in Nat
    /\ MaxLosses \in Nat
    /\ MaxErrors \in Nat
    /\ NoTask \notin Tasks
    /\ NoConn \notin Conns

Queries == 1..MaxQueries
Rollback == MaxQueries + 2

\* BasicStatementTask (autocommitted), TransactionTask and
\* TransactionWithResultTask, DirectCommitTransaction.
Kinds == {"basic", "async", "direct"}

VARIABLES pc,       \* per connection: what the thread using it does ("idle", "exec",
                    \* "reconnect", "returned" or "lock")
          task,     \* per connection: the operation being executed
          idx,      \* per connection: the statement being executed
          code,     \* per connection: the error ExecuteTransaction will return
          looping,  \* per connection: in a deadlock retry loop
          rounds,   \* per connection: rounds of DirectCommitTransaction's loop
          attempts, \* per connection: the parameter of _HandleMySQLErrno, its default outside a call
          up,       \* per connection: m_Mysql is not null
          open,     \* per connection: the server session has an open transaction
          pend,     \* per connection: executions that transaction holds, of which task
          status,   \* per task: what its caller has been told
          kind,     \* per task: its kind
          size,     \* per task: its number of queries
          conn,     \* per task: the connection that executed it
          durable,  \* per task and query: executions that are durable
          lost,     \* per task: connection losses it met
          inside,   \* per task: a basic statement begun while a transaction was open
          refused,  \* per task: START TRANSACTION, COMMIT and ROLLBACK that failed
          holder,   \* the connection that has TransactionTask::_deadlockLock
          alive,    \* std::abort was not called
          losses,   \* connection losses so far
          errors    \* statement errors so far

cvars == <<pc, task, idx, code, looping, rounds, attempts>>
svars == <<up, open, pend>>
tvars == <<status, kind, size, conn, lost, inside>>
bvars == <<losses, errors, refused>>
vars == <<cvars, svars, tvars, durable, holder, alive, bvars>>

Empty == [t \in Tasks |-> [q \in Queries |-> 0]]

TInit == /\ pc = [c \in Conns |-> "idle"]
         /\ task = [c \in Conns |-> NoTask]
         /\ idx = [c \in Conns |-> 0]
         /\ code = [c \in Conns |-> "ok"]
         /\ looping = [c \in Conns |-> FALSE]
         /\ rounds = [c \in Conns |-> 0]
         /\ attempts = [c \in Conns |-> ReconnectAttempts]
         /\ up = [c \in Conns |-> TRUE]       \* Open succeeded
         /\ open = [c \in Conns |-> FALSE]
         /\ pend = [c \in Conns |-> Empty]
         /\ status = [t \in Tasks |-> "new"]
         /\ kind = [t \in Tasks |-> "basic"]
         /\ size = [t \in Tasks |-> 0]
         /\ conn = [t \in Tasks |-> NoConn]
         /\ durable = Empty
         /\ lost = [t \in Tasks |-> 0]
         /\ inside = [t \in Tasks |-> FALSE]
         /\ refused = [t \in Tasks |-> 0]
         /\ holder = NoConn
         /\ alive = TRUE
         /\ losses = 0
         /\ errors = 0

-----------------------------------------------------------------------------
(***************************************************************************)
(* The server session of connection c, external: what the statement idx[c] *)
(* does when the server executes it.                                       *)
(***************************************************************************)
IsQuery(c) == idx[c] \in 1..size[task[c]]

\* Executions, counted per task and query: one of query n of task u, and a sum.
Once(u, n) == [t \in Tasks |-> [q \in Queries |-> IF t = u /\ q = n THEN 1 ELSE 0]]
Plus(a, b) == [t \in Tasks |-> [q \in Queries |-> a[t][q] + b[t][q]]]

\* The executions that become durable: a query outside a transaction commits at
\* once, START TRANSACTION commits what was open, like COMMIT, whoever executed it.
Applied(c) == CASE IsQuery(c) -> IF open[c] THEN Empty ELSE Once(task[c], idx[c])
                [] idx[c] = Rollback -> Empty
                [] OTHER -> pend[c]

\* The executions the open transaction holds afterwards, and whether there is one.
PendAfter(c) == IF IsQuery(c) /\ open[c] THEN Plus(pend[c], Once(task[c], idx[c])) ELSE Empty
OpenAfter(c) == IF IsQuery(c) THEN open[c] ELSE idx[c] = 0

\* The session's transaction is gone.
EndTransaction(c) == /\ open' = [open EXCEPT ![c] = FALSE]
                     /\ pend' = [pend EXCEPT ![c] = Empty]

-----------------------------------------------------------------------------
(***************************************************************************)
(* ExecuteTransaction, Execute and _HandleMySQLErrno on connection c.      *)
(***************************************************************************)

\* A worker (or, for "direct", a client holding the connection's lock) begins
\* to execute task t with n queries; an empty transaction returns -1 at once.
Start(c, t, k, n) ==
    /\ pc[c] = "idle"
    /\ status[t] = "new"
    /\ k = "basic" => n = 1
    /\ status' = [status EXCEPT ![t] = "running"]
    /\ kind' = [kind EXCEPT ![t] = k]
    /\ size' = [size EXCEPT ![t] = n]
    /\ conn' = [conn EXCEPT ![t] = c]
    /\ inside' = [inside EXCEPT ![t] = k = "basic" /\ open[c]]
    /\ task' = [task EXCEPT ![c] = t]
    /\ idx' = [idx EXCEPT ![c] = IF k = "basic" THEN 1 ELSE 0]
    /\ code' = [code EXCEPT ![c] = IF n = 0 THEN "empty" ELSE "ok"]
    /\ pc' = [pc EXCEPT ![c] = IF n = 0 THEN "returned" ELSE "exec"]
    /\ UNCHANGED <<looping, rounds, attempts, svars, durable, lost, holder, alive, bvars>>

\* A plausible bug of ExecuteTransaction: no ROLLBACK after a failed query.
ExecutedNoRollback(c, success, e) ==
    LET ends == kind[task[c]] = "basic" \/ ~(IsQuery(c) \/ idx[c] = 0) \/ ~success
    IN /\ pc' = [pc EXCEPT ![c] = IF ends THEN "returned" ELSE "exec"]
       /\ code' = [code EXCEPT ![c] = IF IsQuery(c) /\ ~success THEN e ELSE @]
       /\ idx' = [idx EXCEPT ![c] = IF ends THEN @ ELSE @ + 1]

\* A plausible bug of ExecuteTransaction: a failed query is skipped.
ExecutedSkip(c, success, e) ==
    LET ends == kind[task[c]] = "basic" \/ ~(IsQuery(c) \/ idx[c] = 0)
    IN /\ pc' = [pc EXCEPT ![c] = IF ends THEN "returned" ELSE "exec"]
       /\ code' = [code EXCEPT ![c] = IF IsQuery(c) /\ ~success THEN e ELSE @]
       /\ idx' = [idx EXCEPT ![c] = IF ends THEN @ ELSE @ + 1]

\* Execute(statement idx[c]) has returned true, or false with e what
\* GetLastError() then says.  Only the result of a query is looked at: a failed
\* one leads to ROLLBACK.  COMMIT and ROLLBACK end ExecuteTransaction.
Executed(c, success, e) ==
    LET ends == kind[task[c]] = "basic" \/ ~(IsQuery(c) \/ idx[c] = 0)
    IN /\ pc' = [pc EXCEPT ![c] = IF ends THEN "returned" ELSE "exec"]
       /\ code' = [code EXCEPT ![c] = IF IsQuery(c) /\ ~success THEN e ELSE @]
       /\ idx' = [idx EXCEPT ![c] = IF ends THEN @
                                    ELSE IF success \/ ~IsQuery(c) THEN @ + 1 ELSE Rollback]

Executing(c) == pc[c] = "exec" /\ up[c]

\* The statement succeeds.
Succeed(c) ==
    /\ Executing(c)
    /\ durable' = Plus(durable, Applied(c))
    /\ pend' = [pend EXCEPT ![c] = PendAfter(c)]
    /\ open' = [open EXCEPT ![c] = OpenAfter(c)]
    /\ Executed(c, TRUE, "ok")
    /\ UNCHANGED <<task, looping, rounds, attempts, up, tvars, holder, alive, bvars>>

\* mysql_query or mysql_stmt_execute reports an error of the server.  It may be
\* about any statement, not only about a query.
ServerError(c) == /\ Executing(c)
                  /\ errors < MaxErrors
                  /\ errors' = errors + 1
                  /\ refused' = [refused EXCEPT ![task[c]] = IF IsQuery(c) THEN @ ELSE @ + 1]

\* The statement has failed and the server has rolled back the whole
\* transaction: ER_LOCK_DEADLOCK, for a COMMIT any error after which nothing is
\* committed.
Deadlock(c) ==
    /\ ServerError(c)
    /\ EndTransaction(c)
    /\ Executed(c, FALSE, "deadlock")
    /\ UNCHANGED <<task, looping, rounds, attempts, up, tvars, durable, holder, alive, losses>>

\* The statement is refused (ER_DUP_ENTRY, say): it has no effect, the
\* transaction stays as it is, open or not.
Refuse(c) ==
    /\ ServerError(c)
    /\ Executed(c, FALSE, "other")
    /\ UNCHANGED <<task, looping, rounds, attempts, svars, tvars, durable, holder, alive, losses>>

\* ER_NO_SUCH_TABLE, ER_BAD_FIELD_ERROR, ER_PARSE_ERROR: std::abort.
Abort(c) ==
    /\ Executing(c)
    /\ errors < MaxErrors
    /\ errors' = errors + 1
    /\ alive' = FALSE
    /\ UNCHANGED <<cvars, svars, tvars, durable, holder, losses, refused>>

\* The connection is lost (CR_SERVER_GONE_ERROR, CR_SERVER_LOST), before the
\* server has executed the statement or after it: m_Mysql is closed.
Lose(c, executed) ==
    /\ Executing(c)
    /\ losses < MaxLosses
    /\ losses' = losses + 1
    /\ lost' = [lost EXCEPT ![task[c]] = @ + 1]
    /\ durable' = Plus(durable, IF executed THEN Applied(c) ELSE Empty)
    /\ EndTransaction(c)
    /\ up' = [up EXCEPT ![c] = FALSE]
    /\ pc' = [pc EXCEPT ![c] = "reconnect"]
    /\ UNCHANGED <<task, idx, code, looping, rounds, attempts, status, kind, size, conn, inside,
                   holder, alive, errors, refused>>

\* Open and PrepareStatements succeed: Execute calls itself with the same
\* statement, in a session that knows nothing of the transaction.
Reopen(c) ==
    /\ pc[c] = "reconnect"
    /\ up' = [up EXCEPT ![c] = TRUE]
    /\ pc' = [pc EXCEPT ![c] = "exec"]
    /\ attempts' = [attempts EXCEPT ![c] = ReconnectAttempts]
    /\ UNCHANGED <<task, idx, code, looping, rounds, open, pend, tvars, durable,
                   holder, alive, bvars>>

\* Open fails with an error that _HandleMySQLErrno tries again.
ReopenAgain(c) ==
    /\ pc[c] = "reconnect"
    /\ attempts[c] > 1
    /\ attempts' = [attempts EXCEPT ![c] = @ - 1]
    /\ UNCHANGED <<pc, task, idx, code, looping, rounds, svars, tvars, durable,
                   holder, alive, bvars>>

\* The attempts are used up, or the statements cannot be prepared: std::abort.
ReopenAbort(c) ==
    /\ pc[c] = "reconnect"
    /\ alive' = FALSE
    /\ UNCHANGED <<cvars, svars, tvars, durable, holder, bvars>>

\* Open fails with any other error (CR_CONNECTION_ERROR, too many connections,
\* access denied): _HandleMySQLErrno returns false, m_Mysql stays null, and
\* GetLastError is mysql_errno(nullptr), which is 0.
ReopenGiveUp(c) ==
    /\ pc[c] = "reconnect"
    /\ attempts[c] > 1
    /\ attempts' = [attempts EXCEPT ![c] = ReconnectAttempts]
    /\ Executed(c, FALSE, "zero")
    /\ UNCHANGED <<task, looping, rounds, svars, tvars, durable, holder, alive, bvars>>

\* if (!m_Mysql) return false;
ExecuteDead(c) ==
    /\ pc[c] = "exec"
    /\ ~up[c]
    /\ Executed(c, FALSE, "zero")
    /\ UNCHANGED <<task, looping, rounds, attempts, svars, tvars, durable,
                   holder, alive, bvars>>

-----------------------------------------------------------------------------
(***************************************************************************)
(* What is done with the code that ExecuteTransaction returned:            *)
(* TransactionTask::Execute, TransactionWithResultTask::Execute and        *)
(* DirectCommitTransaction.  A basic statement just ends.                  *)
(***************************************************************************)

\* A plausible bug: every error but a deadlock counts as a success.
SucceededLoose(c) == code[c] # "deadlock"

\* ExecuteTransaction returned 0; Execute returned true.
Succeeded(c) == code[c] \in (IF kind[task[c]] = "basic" THEN {"ok"} ELSE {"ok", "zero"})

\* A plausible bug: the lock is taken by hand and not given back.
FinishLocked(c, s) ==
    /\ status' = [status EXCEPT ![task[c]] = s]
    /\ task' = [task EXCEPT ![c] = NoTask]
    /\ pc' = [pc EXCEPT ![c] = "idle"]
    /\ looping' = [looping EXCEPT ![c] = FALSE]
    /\ rounds' = [rounds EXCEPT ![c] = 0]
    /\ idx' = [idx EXCEPT ![c] = 0]
    /\ code' = [code EXCEPT ![c] = "ok"]
    /\ UNCHANGED <<attempts, svars, kind, size, conn, lost, inside, durable, holder, alive, bvars>>

\* The task ends and its caller is told s; the lock_guard goes out of scope.
Finish(c, s) ==
    /\ status' = [status EXCEPT ![task[c]] = s]
    /\ task' = [task EXCEPT ![c] = NoTask]
    /\ pc' = [pc EXCEPT ![c] = "idle"]
    /\ looping' = [looping EXCEPT ![c] = FALSE]
    /\ rounds' = [rounds EXCEPT ![c] = 0]
    /\ idx' = [idx EXCEPT ![c] = 0]
    /\ code' = [code EXCEPT ![c] = "ok"]
    /\ holder' = IF holder = c THEN NoConn ELSE holder
    /\ UNCHANGED <<attempts, svars, kind, size, conn, lost, inside, durable, alive, bvars>>

\* ExecuteTransaction from the beginning.
TryExecute(c) ==
    /\ pc' = [pc EXCEPT ![c] = "exec"]
    /\ idx' = [idx EXCEPT ![c] = 0]
    /\ code' = [code EXCEPT ![c] = "ok"]
    /\ looping' = [looping EXCEPT ![c] = TRUE]
    /\ UNCHANGED <<task, attempts, svars, tvars, durable, alive, bvars>>

EndOk(c) ==
    /\ pc[c] = "returned"
    /\ Succeeded(c)
    /\ Finish(c, IF kind[task[c]] = "direct" THEN "returned" ELSE "ok")

\* Only a deadlock is worth another try, the first time.
EndFailed(c) ==
    /\ pc[c] = "returned"
    /\ ~Succeeded(c)
    /\ ~looping[c]
    /\ code[c] = "deadlock" => kind[task[c]] = "basic"
    /\ Finish(c, IF kind[task[c]] = "direct" THEN "returned" ELSE "failed")

AwaitLock(c) ==
    /\ pc[c] = "returned"
    /\ kind[task[c]] = "async"
    /\ ~looping[c]
    /\ code[c] = "deadlock"
    /\ pc' = [pc EXCEPT ![c] = "lock"]
    /\ UNCHANGED <<task, idx, code, looping, rounds, attempts, svars, tvars, durable,
                   holder, alive, bvars>>

TakeLock(c) ==
    /\ pc[c] = "lock"
    /\ holder = NoConn
    /\ holder' = c
    /\ TryExecute(c)
    /\ UNCHANGED rounds

RetryFailed(c) == pc[c] = "returned" /\ looping[c] /\ ~Succeeded(c)

\* Another round while DEADLOCK_MAX_RETRY_TIME_MS has not passed, whatever the
\* error of the last one was ...
RetryAsync(c) ==
    /\ RetryFailed(c)
    /\ kind[task[c]] = "async"
    /\ TryExecute(c)
    /\ UNCHANGED <<rounds, holder>>

\* ... and the end once it has.
Expire(c) ==
    /\ RetryFailed(c)
    /\ kind[task[c]] = "async"
    /\ Finish(c, "failed")

\* DirectCommitTransaction: up to loopBreaker rounds, without the lock.
RetryDirect(c) ==
    /\ \/ RetryFailed(c)
       \/ pc[c] = "returned" /\ ~looping[c] /\ code[c] = "deadlock"
    /\ kind[task[c]] = "direct"
    /\ IF rounds[c] < DirectRetries
       THEN /\ TryExecute(c)
            /\ rounds' = [rounds EXCEPT ![c] = @ + 1]
            /\ UNCHANGED holder
       ELSE Finish(c, "returned")

-----------------------------------------------------------------------------
ThreadStep(c) == \/ Succeed(c) \/ Deadlock(c) \/ Refuse(c) \/ Abort(c)
                 \/ Lose(c, TRUE) \/ Lose(c, FALSE)
                 \/ Reopen(c) \/ ReopenAgain(c) \/ ReopenAbort(c) \/ ReopenGiveUp(c)
                 \/ ExecuteDead(c)
                 \/ EndOk(c) \/ EndFailed(c)
                 \/ AwaitLock(c) \/ TakeLock(c) \/ RetryAsync(c) \/ Expire(c)
                 \/ RetryDirect(c)

\* Everything is executed, or the process has aborted.
Over == /\ \/ ~alive
           \/ \A t \in Tasks : status[t] \notin {"new", "running"}
        /\ UNCHANGED vars

TNext == \/ /\ alive
            /\ \E c \in Conns :
                  \/ ThreadStep(c)
                  \/ \E t \in Tasks, k \in Kinds, n \in 0..MaxQueries : Start(c, t, k, n)
         \/ Over

TSpec == TInit /\ [][TNext]_vars

(***************************************************************************)
(* Fairness: a thread that can go on does.  Losses and errors are bounded  *)
(* (MaxLosses, MaxErrors), so that a retry loop ends because what it       *)
(* retries succeeds or its time is over; a minute of retries is finite in  *)
(* the code too.                                                           *)
(***************************************************************************)
TFairSpec == TSpec /\ \A c \in Conns : WF_vars(alive /\ ThreadStep(c))

-----------------------------------------------------------------------------
(***************************************************************************)
(* Properties.                                                             *)
(***************************************************************************)
Done(t, n) == \A q \in 1..size[t] : durable[t][q] = n

\* No connection was lost under task t, and none of its START TRANSACTION,
\* COMMIT and ROLLBACK failed: ExecuteTransaction looks at neither.
NoFault(t) == lost[t] = 0 /\ refused[t] = 0

\* A transaction without such a fault is atomic in every state, through
\* deadlocks, refused queries, retries under _deadlockLock and the retries of
\* DirectCommitTransaction, and whatever transaction an earlier operation left
\* open on the session: all its queries are durable, once, or none is.
AtomicWithoutFault ==
    \A t \in Tasks : NoFault(t) => Done(t, 0) \/ Done(t, 1)

\* Without such a fault its caller is told the truth: a failure means that
\* nothing is durable, a success that everything is, unless the connection had
\* died before (ReopenGiveUp), in which case nothing is.  Excepted is a basic
\* statement that ran inside a transaction an earlier operation left open.
TruthfulWithoutFault ==
    \A t \in Tasks :
        NoFault(t) /\ ~inside[t] =>
            /\ status[t] = "failed" => Done(t, 0)
            /\ status[t] = "ok" => Done(t, 1) \/ (Done(t, 0) /\ ~up[conn[t]])

\* A query becomes durable at most once more than its task met losses and
\* failing START TRANSACTION, COMMIT and ROLLBACK, however reconnection, deadlock
\* retries and transactions left open are combined.
DuplicatesNeedFaults ==
    \A t \in Tasks : \A q \in Queries : durable[t][q] <= 1 + lost[t] + refused[t]

\* A transaction is left open for the next operation of a connection only by a
\* failed control statement of a task that used the connection: never by a loss,
\* a deadlock, a refused query or a retry.  What it holds belongs to such tasks
\* and to basic statements that ran inside it.
LeftOpenNeedsRefusal ==
    \A c \in Conns : pc[c] = "idle" /\ open[c] =>
        /\ \E t \in Tasks : conn[t] = c /\ refused[t] > 0
        /\ \A t \in Tasks : pend[c][t] # Empty[t] => conn[t] = c /\ (refused[t] > 0 \/ inside[t])

\* Whatever is started ends, or the process aborts: nobody waits for
\* _deadlockLock for ever.
TasksEnd ==
    \A t \in Tasks : (status[t] = "running") ~> (status[t] # "running" \/ ~alive)
=============================================================================
