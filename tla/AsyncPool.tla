------------------------------ MODULE AsyncPool ------------------------------
(***************************************************************************)
(* The asynchronous half of DatabaseWorkerPool: the shared operation queue *)
(* (PCQueue), one worker thread per asynchronous connection                *)
(* (DatabaseWorker.cpp), and the thread that opens, retries, prepares,     *)
(* closes and finally destroys the pool (DatabaseWorkerPool.cpp,           *)
(* DatabaseLoader.cpp, the parts of MySQLConnection.cpp that own a worker, *)
(* and main.cpp that drives them).                                         *)
(*                                                                         *)
(* A consumer of the queue is a connection: a connection has at most one   *)
(* worker, started by its constructor, before Open is called on it.        *)
(*                                                                         *)
(* What an operation does on its connection is the subject of              *)
(* MySQLTransaction; here it takes a while and then has set its promise,   *)
(* if it has one.  The synchronous connections have no worker and matter   *)
(* here only because their Open may fail.  Client threads may go on        *)
(* submitting while the pool is being closed, as nothing in Enqueue or     *)
(* Push prevents it.                                                       *)
(***************************************************************************)
EXTENDS PCQueue

CONSTANTS AsyncThreads,   \* LoginDatabase.WorkerThreads
          SynchThreads,   \* LoginDatabase.SynchThreads
          Attempts,       \* Database.Reconnect.Attempts
          NoOp,           \* nullptr, as an operation
          NoConn          \* nullptr, as a connection

Conns == Consumers
Ops == Values

ASSUME PoolAssumption == /\ AsyncThreads \in Nat \ {0}
                         /\ SynchThreads \in Nat
                         /\ Attempts \in Nat
                         /\ NoOp \notin Ops
                         /\ NoConn \notin Conns

VARIABLES wpc,      \* per connection: where its worker thread is
          wop,      \* per connection: the local variable operation of WorkerThread
          token,    \* per connection: _cancelationToken
          handle,   \* per connection: m_Mysql
          obj,      \* per operation: the heap object
          fut,      \* per operation: the future of its promise
          pc,       \* where the controlling thread is
          async,    \* _connections[IDX_ASYNC]
          cur,      \* the connection OpenConnections is constructing, if any
          i,        \* OpenConnections' loop counter
          opens,    \* calls of Open made by the loader
          dying,    \* connections whose destructor is still to run, in order
          stage,    \* how far ~DatabaseWorker of the first of them is
          after     \* what follows when all of them are gone

wvars == <<wpc, wop, token>>
ovars == <<obj, fut>>
dvars == <<dying, stage, after>>
cvars == <<pc, async, cur, i, opens, dvars>>
vars == <<qvars, wvars, handle, ovars, cvars>>

WorkerPC == {"none", "loop", "check", "run", "exited"}
ControlPC == {"async", "open", "sync", "retry", "prepare", "opened",
              "destroy", "closed", "failed", "gone"}

\* The variables have their types.
PTypeOK == /\ QTypeOK
           /\ wpc \in [Conns -> WorkerPC]
           /\ wop \in [Conns -> Ops \cup {NoOp}]
           /\ token \in [Conns -> BOOLEAN]
           /\ handle \in [Conns -> {"null", "open", "closed"}]
           /\ obj \in [Ops -> {"unborn", "live", "done", "dropped"}]
           /\ fut \in [Ops -> {"none", "pending", "ready", "broken"}]
           /\ pc \in ControlPC
           /\ after \in ControlPC
           /\ async \in Seq(Conns)
           /\ dying \in Seq(Conns)
           /\ stage \in {"token", "cancel", "join"}
           /\ cur \in Conns \cup {NoConn}
           /\ i \in Nat
           /\ opens \in Nat

PInit == /\ QInit
         /\ wpc = [c \in Conns |-> "none"]
         /\ wop = [c \in Conns |-> NoOp]
         /\ token = [c \in Conns |-> FALSE]
         /\ handle = [c \in Conns |-> "null"]
         /\ obj = [o \in Ops |-> "unborn"]
         /\ fut = [o \in Ops |-> "none"]
         /\ pc = "async"          \* the loader's first pool.Open()
         /\ async = <<>>
         /\ cur = NoConn
         /\ i = 0
         /\ opens = 1
         /\ dying = <<>>
         /\ stage = "token"
         /\ after = "failed"

-----------------------------------------------------------------------------
(***************************************************************************)
(* Client threads: every asynchronous entry point of the pool allocates an *)
(* operation, keeps the future of its promise if it has one, and enqueues. *)
(***************************************************************************)

\* Load has returned true, and ~DatabaseWorkerPool has not begun.
Serving == pc \in {"opened", "closed"} \/ (pc = "destroy" /\ after = "closed")

Enqueue(o, future) ==
    /\ Serving
    /\ obj[o] = "unborn"
    /\ obj' = [obj EXCEPT ![o] = "live"]
    /\ fut' = [fut EXCEPT ![o] = future]
    /\ Push(o)
    /\ UNCHANGED <<wvars, handle, cvars>>

\* Execute, CommitTransaction and the pings of KeepAlive: no promise.
Execute(o) == Enqueue(o, "none")

\* AsyncQuery, DelayQueryHolder and AsyncCommitTransaction: the caller keeps the
\* future of the operation's promise.
AsyncQuery(o) == Enqueue(o, "pending")

-----------------------------------------------------------------------------
(***************************************************************************)
(* DatabaseWorker::WorkerThread of connection c.                           *)
(***************************************************************************)

\* _queue->WaitAndPop(operation): to sleep, with an operation, or with nullptr.
WorkerSleep(c) == /\ wpc[c] = "loop"
                  /\ WaitBlock(c)
                  /\ UNCHANGED <<wvars, handle, ovars, cvars>>

WorkerWake(c) == /\ SpuriousWake(c)
                 /\ UNCHANGED <<wvars, handle, ovars, cvars>>

WorkerTake(c) == /\ wpc[c] = "loop"
                 /\ WaitTake(c)
                 /\ wop' = [wop EXCEPT ![c] = Head(queue)]
                 /\ wpc' = [wpc EXCEPT ![c] = "check"]
                 /\ UNCHANGED <<token, handle, ovars, cvars>>

WorkerReturn(c) == /\ wpc[c] = "loop"
                   /\ WaitReturn(c)
                   /\ wpc' = [wpc EXCEPT ![c] = "check"]
                   /\ UNCHANGED <<wop, token, handle, ovars, cvars>>

\* if (_cancelationToken || !operation) return;  An operation popped just
\* before the token was set is abandoned: neither executed nor deleted.
WorkerCheck(c) ==
    /\ wpc[c] = "check"
    /\ wpc' = [wpc EXCEPT ![c] = IF token[c] \/ wop[c] = NoOp THEN "exited" ELSE "run"]
    /\ UNCHANGED <<qvars, wop, token, handle, ovars, cvars>>

\* The promise is set, if there is one (SQLOperation::call); the destructor of
\* a promise that was set breaks nothing.
Resolved(o) == IF fut[o] = "pending" THEN "ready" ELSE fut[o]

\* A plausible bug of WorkerFinish: delete operation is forgotten.
WorkerFinishLeak(c) ==
    /\ wpc[c] = "run"
    /\ fut' = [fut EXCEPT ![wop[c]] = Resolved(wop[c])]
    /\ wop' = [wop EXCEPT ![c] = NoOp]
    /\ wpc' = [wpc EXCEPT ![c] = "loop"]
    /\ UNCHANGED <<qvars, token, handle, obj, cvars>>

\* operation->call() has ended; delete operation; next round of the loop.
WorkerFinish(c) ==
    /\ wpc[c] = "run"
    /\ fut' = [fut EXCEPT ![wop[c]] = Resolved(wop[c])]
    /\ obj' = [obj EXCEPT ![wop[c]] = "done"]
    /\ wop' = [wop EXCEPT ![c] = NoOp]
    /\ wpc' = [wpc EXCEPT ![c] = "loop"]
    /\ UNCHANGED <<qvars, token, handle, cvars>>

-----------------------------------------------------------------------------
(***************************************************************************)
(* Opening: DatabaseWorkerPool::Open, OpenConnections and the loader's     *)
(* retry loop around them.                                                 *)
(***************************************************************************)

\* Run the destructors of the connections in s, then continue at next.
Destroy(s, next) ==
    /\ dying' = s
    /\ stage' = "token"
    /\ pc' = IF s = <<>> THEN next ELSE "destroy"
    /\ after' = next

\* What the loader does with an error of Open: only CR_CONNECTION_ERROR is
\* retried; the first failure does not count as an attempt.
AfterError(error) ==
    IF error = "connection" /\ opens - 1 < Attempts THEN "retry" ELSE "failed"

Errors == {"connection", "other"}

\* The constructor of the next asynchronous connection, which starts its worker.
ConstructAsync(c) ==
    /\ pc = "async"
    /\ i < AsyncThreads
    /\ wpc[c] = "none"
    /\ wpc' = [wpc EXCEPT ![c] = "loop"]
    /\ cur' = c
    /\ pc' = "open"
    /\ UNCHANGED <<qvars, wop, token, handle, ovars, async, i, opens, dvars>>

\* connection->Open() succeeds with a supported server version.
OpenAsync ==
    /\ pc = "open"
    /\ handle' = [handle EXCEPT ![cur] = "open"]
    /\ async' = Append(async, cur)
    /\ cur' = NoConn
    /\ i' = i + 1
    /\ pc' = "async"
    /\ UNCHANGED <<qvars, wvars, ovars, opens, dvars>>

\* A plausible bug of OpenConnections: the error of Open is not returned.
OpenAsyncIgnore(error) ==
    /\ pc = "open"
    /\ Destroy(<<cur>>, "async")
    /\ i' = i + 1
    /\ cur' = NoConn
    /\ UNCHANGED <<qvars, wvars, handle, ovars, async, opens>>

\* connection->Open() fails: _connections[type].clear(), then, as the function
\* returns, the connection under construction is destroyed as well.
OpenAsyncFail(error) ==
    /\ pc = "open"
    /\ Destroy(Append(async, cur), AfterError(error))
    /\ async' = <<>>
    /\ cur' = NoConn
    /\ UNCHANGED <<qvars, wvars, handle, ovars, i, opens>>

\* The server is too old: OpenConnections returns 1 without a clear.
OpenAsyncIncompatible ==
    /\ pc = "open"
    /\ handle' = [handle EXCEPT ![cur] = "open"]
    /\ Destroy(<<cur>>, "failed")
    /\ cur' = NoConn
    /\ UNCHANGED <<qvars, wvars, ovars, async, i, opens>>

\* OpenConnections(IDX_ASYNC) returns 0.
AsyncDone ==
    /\ pc = "async"
    /\ i = AsyncThreads
    /\ pc' = "sync"
    /\ i' = 0
    /\ UNCHANGED <<qvars, wvars, handle, ovars, async, cur, opens, dvars>>

\* One synchronous connection is constructed and opened; it has no worker.
OpenSync ==
    /\ pc = "sync"
    /\ i < SynchThreads
    /\ i' = i + 1
    /\ UNCHANGED <<qvars, wvars, handle, ovars, pc, async, cur, opens, dvars>>

\* It fails: only the synchronous connections are cleared; the asynchronous
\* ones stay, with their workers, also across the loader's retry.
OpenSyncFail(error) ==
    /\ pc = "sync"
    /\ i < SynchThreads
    /\ pc' = AfterError(error)
    /\ UNCHANGED <<qvars, wvars, handle, ovars, async, cur, i, opens, dvars>>

\* Its server is too old: nothing is cleared.
OpenSyncIncompatible ==
    /\ pc = "sync"
    /\ i < SynchThreads
    /\ pc' = "failed"
    /\ UNCHANGED <<qvars, wvars, handle, ovars, async, cur, i, opens, dvars>>

\* Open returns 0; the loader pushes pool.Close on its _close stack.
SyncDone ==
    /\ pc = "sync"
    /\ i = SynchThreads
    /\ pc' = "prepare"
    /\ UNCHANGED <<qvars, wvars, handle, ovars, async, cur, i, opens, dvars>>

\* The loader sleeps and calls Open again.
Retry ==
    /\ pc = "retry"
    /\ opens' = opens + 1
    /\ i' = 0
    /\ pc' = "async"
    /\ UNCHANGED <<qvars, wvars, handle, ovars, async, cur, dying, stage, after>>

-----------------------------------------------------------------------------
(***************************************************************************)
(* PrepareStatements, Close, ~DatabaseWorkerPool.                          *)
(***************************************************************************)

Prepared ==
    /\ pc = "prepare"
    /\ pc' = "opened"
    /\ UNCHANGED <<qvars, wvars, handle, ovars, async, cur, i, opens, dvars>>

\* _connections[IDX_ASYNC].clear(); _connections[IDX_SYNCH].clear(); vector
\* destroys its elements first to last.
CloseThen(next) ==
    /\ Destroy(async, next)
    /\ async' = <<>>
    /\ UNCHANGED <<qvars, wvars, handle, ovars, cur, i, opens>>

\* PrepareStatements closes the pool itself; the loader's second Close, from
\* its _close stack, finds nothing.
PrepareFail == pc = "prepare" /\ CloseThen("failed")

\* StopDB
Close == pc = "opened" /\ CloseThen("closed")

\* Deletes every queued operation: a promise that was not set is broken.
Queued == {queue[k] : k \in 1..Len(queue)}

\* A plausible bug of an operation's destructor: its promise is not deleted.
CancelLeaksPromise ==
    /\ Cancel
    /\ obj' = [o \in Ops |-> IF o \in Queued THEN "dropped" ELSE obj[o]]
    /\ UNCHANGED fut

CancelAndDelete ==
    /\ Cancel
    /\ obj' = [o \in Ops |-> IF o \in Queued THEN "dropped" ELSE obj[o]]
    /\ fut' = [o \in Ops |-> IF o \in Queued /\ fut[o] = "pending" THEN "broken" ELSE fut[o]]

\* A plausible bug of the pool's destructor: the connections that a failed Open
\* left behind are not destroyed before the queue.
DestroyPoolOnly ==
    /\ pc \in {"closed", "failed"}
    /\ CancelAndDelete
    /\ pc' = "gone"
    /\ UNCHANGED <<wvars, handle, async, cur, i, opens, dvars>>

\* _queue->Cancel(), then the members: _connections before _queue.
DestroyPool ==
    /\ pc \in {"closed", "failed"}
    /\ CancelAndDelete
    /\ Destroy(async, "gone")
    /\ async' = <<>>
    /\ UNCHANGED <<wvars, handle, cur, i, opens>>

-----------------------------------------------------------------------------
(***************************************************************************)
(* ~MySQLConnection of the first dying connection: Close resets m_worker,  *)
(* that is ~DatabaseWorker (token, Cancel of the shared queue, join), and  *)
(* then closes the handle.                                                 *)
(***************************************************************************)
SetToken ==
    /\ pc = "destroy"
    /\ stage = "token"
    /\ token' = [token EXCEPT ![Head(dying)] = TRUE]
    /\ stage' = "cancel"
    /\ UNCHANGED <<qvars, wpc, wop, handle, ovars, pc, async, cur, i, opens, dying, after>>

\* A plausible bug of ~DatabaseWorker: the queue is not cancelled.
CancelQueueSkipped ==
    /\ pc = "destroy"
    /\ stage = "cancel"
    /\ stage' = "join"
    /\ UNCHANGED <<qvars, wvars, handle, ovars, pc, async, cur, i, opens, dying, after>>

CancelQueue ==
    /\ pc = "destroy"
    /\ stage = "cancel"
    /\ CancelAndDelete
    /\ stage' = "join"
    /\ UNCHANGED <<wvars, handle, pc, async, cur, i, opens, dying, after>>

Closed(c) == IF handle[c] = "open" THEN "closed" ELSE handle[c]

\* A plausible bug of ~DatabaseWorker: detach instead of join.
DetachAndClose ==
    /\ pc = "destroy"
    /\ stage = "join"
    /\ handle' = [handle EXCEPT ![Head(dying)] = Closed(Head(dying))]
    /\ dying' = Tail(dying)
    /\ stage' = "token"
    /\ pc' = IF Tail(dying) = <<>> THEN after ELSE "destroy"
    /\ UNCHANGED <<qvars, wvars, ovars, async, cur, i, opens, after>>

JoinAndClose ==
    /\ pc = "destroy"
    /\ stage = "join"
    /\ wpc[Head(dying)] = "exited"
    /\ handle' = [handle EXCEPT ![Head(dying)] = Closed(Head(dying))]
    /\ dying' = Tail(dying)
    /\ stage' = "token"
    /\ pc' = IF Tail(dying) = <<>> THEN after ELSE "destroy"
    /\ UNCHANGED <<qvars, wvars, ovars, async, cur, i, opens, after>>

\* The process has ended.
Ended == pc = "gone" /\ UNCHANGED vars

-----------------------------------------------------------------------------
WorkerStep(c) == \/ WorkerSleep(c)
                 \/ WorkerTake(c)
                 \/ WorkerReturn(c)
                 \/ WorkerCheck(c)
                 \/ WorkerFinish(c)

OpenStep == \/ \E c \in Conns : ConstructAsync(c)
            \/ OpenAsync
            \/ \E error \in Errors : OpenAsyncFail(error) \/ OpenSyncFail(error)
            \/ OpenAsyncIncompatible
            \/ AsyncDone
            \/ OpenSync
            \/ OpenSyncIncompatible
            \/ SyncDone
            \/ Retry
            \/ Prepared
            \/ PrepareFail

DestroyStep == SetToken \/ CancelQueue \/ JoinAndClose

PNext == \/ \E o \in Ops : Execute(o) \/ AsyncQuery(o)
         \/ \E c \in Conns : WorkerStep(c) \/ WorkerWake(c)
         \/ OpenStep
         \/ Close
         \/ DestroyPool
         \/ DestroyStep
         \/ Ended

PSpec == PInit /\ [][PNext]_vars

(***************************************************************************)
(* Fairness.  Threads are scheduled, the mutex does not starve anyone and  *)
(* a call of the MySQL client returns: a worker that can step does, and    *)
(* the controlling thread does not stop in the middle of a destructor.     *)
(* A worker asleep in the queue needs a notification; nothing obliges a    *)
(* client to submit, nor anybody to close the pool.                        *)
(***************************************************************************)
PFairness == /\ \A c \in Conns : WF_vars(WorkerStep(c))
             /\ WF_vars(DestroyStep)

PFairSpec == PSpec /\ PFairness

-----------------------------------------------------------------------------
(***************************************************************************)
(* Properties.                                                             *)
(***************************************************************************)

Live == {o \in Ops : obj[o] = "live"}
Held == {wop[c] : c \in Conns} \ {NoOp}

\* Every operation that was allocated and not deleted is in exactly one place:
\* once in the queue, or in the hands of one worker.  So none is executed or
\* deleted twice, and none disappears, whatever the order in which workers pop,
\* destructors cancel and clients push.
Accounting ==
    /\ Live = Queued \cup Held
    /\ Queued \cap Held = {}
    /\ \A j, k \in 1..Len(queue) : queue[j] = queue[k] => j = k
    /\ \A c, d \in Conns : wop[c] = wop[d] => c = d \/ wop[c] = NoOp

\* An operation is abandoned only by a worker whose own connection is being
\* destroyed: a worker that is still wanted executes what it has popped.
StrandedOnlyByToken ==
    \A c \in Conns : wpc[c] = "exited" /\ wop[c] # NoOp => token[c]

\* A future tells the truth about its operation: ready means executed, broken
\* means deleted unexecuted by a Cancel, and a pending future still has an
\* operation that could resolve it, so nobody waits for a promise that is gone.
FutureTracksOperation ==
    \A o \in Ops : /\ fut[o] = "pending" => obj[o] = "live"
                   /\ fut[o] = "ready" => obj[o] = "done"
                   /\ fut[o] = "broken" => obj[o] = "dropped"

\* A worker executes only real operations, and only on a connection whose
\* handle is open: Open comes before the first Enqueue, join before mysql_close.
RunsOnOpenHandle ==
    \A c \in Conns : wpc[c] = "run" => wop[c] # NoOp /\ handle[c] = "open"

\* When the pool's destructor ends, and _queue with it, no worker thread is
\* left that could touch the queue, whichever way Open had failed before.
QueueOutlivesWorkers ==
    pc = "gone" => \A c \in Conns : wpc[c] \in {"none", "exited"}

\* The pool that says "opened successfully" serves: its queue is not shut down
\* and each of its workers is alive (DatabaseWorkerPool.cpp:98, "{} total
\* connections running").
OpenedPoolServes ==
    pc = "opened" => /\ ~shutdown
                     /\ \A k \in 1..Len(async) : wpc[async[k]] # "exited"

\* Destructors end: no worker keeps ~DatabaseWorker waiting in join for ever.
DestructorsEnd == (pc = "destroy") ~> (pc # "destroy")

\* While the pool is open, what is in the queue is executed: with every worker
\* that can take it asleep, busy or competing, an operation is not forgotten.
QueuedIsExecuted ==
    \A o \in Ops : (o \in Queued /\ pc = "opened") ~> (obj[o] = "done" \/ pc # "opened")

\* The specification of what becomes of operations.
Status(o) == IF obj[o] = "unborn" THEN "new"
             ELSE IF obj[o] = "done" THEN "completed"
             ELSE IF obj[o] = "dropped" THEN "dropped"
             ELSE IF \E c \in Conns : wop[c] = o /\ wpc[c] = "exited" THEN "stranded"
             ELSE "submitted"

Life == INSTANCE OperationLife
            WITH status <- [o \in Ops |-> Status(o)],
                 closing <- shutdown \/ \E c \in Conns : token[c]

\* The pool implements OperationLife: until a connection is taken down, an
\* operation that was submitted can only be completed, once; what is dropped or
\* stranded later was neither executed before nor is afterwards.
ImplementsOperationLife == Life!LifeSpec
=============================================================================
