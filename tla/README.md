# mpool: TLA+ models, checks and proofs

mpool is a C++ login server built on a pooled MySQL client: a library of
database connections with asynchronous and synchronous halves
(`src/src/server/database`), a small foundation (`src/src/common`) and the
server itself (`src/src/server/apps/logon`).  This directory holds a formal
model of it.  The source is the reference: every definition that models code
is listed with its lines in `PROJECT.json` under `map`.

## 1. Inventory

| component | state | operations | interacts with |
|---|---|---|---|
| operation queue (`PCQueue.h`) | `_queue`, `_shutdown`, sleepers of `_condition` | Push, Pop, WaitAndPop, Cancel | workers pop, clients push, destructors cancel |
| worker (`DatabaseWorker.cpp`) | thread, `_cancelationToken`, the operation in hand | WorkerThread, destructor | queue, its connection, the operation |
| pool (`DatabaseWorkerPool.cpp`) | `_connections[2]`, `_queue`, thread counts, statement sizes | Open, PrepareStatements, Close, asynchronous and synchronous calls, KeepAlive | loader, clients, connections |
| connection (`MySQLConnection.cpp`) | `m_Mysql`, `m_stmts`, `m_Mutex`, `m_reconnecting`, `m_prepareError` | Open, Close, Execute, Query, ExecuteTransaction, _HandleMySQLErrno | MySQL server, worker |
| transactions (`Transaction.cpp`) | queries, `_cleanedUp`, static `_deadlockLock` | Append, Cleanup, Execute with retry, callback | connection |
| statement tasks (`AdhocStatement.cpp`, `PreparedStatement.cpp`) | statement, promise | Execute, destructor | connection, future |
| callbacks (`QueryCallback.cpp`, `QueryHolder.cpp`, `AsyncCallbackProcessor.h`) | futures, chained callbacks | InvokeIfReady, ProcessReadyCallbacks | operations through futures |
| loader (`DatabaseLoader.cpp`) | queues of open/prepare steps, stack of closes | AddDatabase, Load, Process | pool, configuration |
| statement buffers (`MySQLPreparedStatement.cpp`) | one MYSQL_BIND per parameter | BindParameters, SetParameter, ClearParameters | connection, libmysqlclient |
| results (`QueryResult.cpp`, `Field.cpp`) | row buffer, bindings, metadata, row position | construction, NextRow, Fetch, Get, destruction | statement, caller |
| login protocol (`NetWork.cpp`) | buffer, socket, SRP6 state | handle_read, handle_write | pool (synchronous calls), SRP6 |
| service (`NetWork.cpp`, `main.cpp`) | io_context, threads, acceptor | Start, Stop, main | everything |
| SRP6 (`SRP6.cpp`) | salt, verifier, b, B, `_used` | challenge, VerifyChallengeResponse | big numbers |
| configuration (`Config.cpp`) | option map | LoadInitial, LoadAppConfigs, GetOption | files |

Hard behaviours: any number of client threads push while workers pop and one
thread opens, retries, closes or destroys; the queue is shared by all
connections but every connection's destructor cancels it; a lost connection is
reopened in the middle of whatever was being executed, and the statement is
repeated; deadlocked transactions are retried under a lock shared by all
workers; futures outlive, or do not outlive, the operations that must resolve
them; a result shares arrays with a statement that it may outlive, or that may
be executed again; a connection of the logon server reads into the buffer it is
writing from; options come from layers of files that are edited and reloaded.
The complete list is `hazards` in `PROJECT.json`, each at its line.

What makes the components correct: the queue loses no wake-up and lets every
consumer go on Cancel; the pool neither loses nor doubles an operation and its
destructors end; queue and handles outlive their users; a transaction is
atomic and its caller is told the truth; every transaction ends; a
synchronous connection has one user at a time and is given back on every path,
and a statement is used in the session it was prepared in; a callback is
served once for each executed operation and for no other; the server gets the
parameters that were set and the caller the rows that were sent, from memory
that is freed once; a session key is written only for who has proven to be the
user, and peers that keep to the protocol are answered; an option has the value
of the last layer that may set it, and a server that serves is connected to
what is written.

## 2. Modules

| module | models | source |
|---|---|---|
| `PCQueue` | the queue, one action per critical section | `PCQueue.h` |
| `OperationLife` | abstract: what becomes of a submitted operation | promise of the pool |
| `AsyncPool` | extends `PCQueue`: workers, pool, loader's retry, close, destruction | `DatabaseWorker.cpp`, `DatabaseWorkerPool.cpp`, `DatabaseLoader.cpp`, `MySQLConnection.cpp` (constructors, Open, Close), `main.cpp` |
| `MySQLTransaction` | statements, transactions, reconnection and deadlock retry on several connections | `MySQLConnection.cpp`, `Transaction.cpp`, `DirectCommitTransaction` |
| `SyncPool` | client threads on the synchronous connections: search, locks, just-in-time statements, KeepAlive, EscapeString, reconnection | `DatabaseWorkerPool.cpp`, `MySQLConnection.cpp`, `MySQLPreparedStatement.cpp` |
| `CallbackProcessor` | the processor's poll, chained query callbacks, transaction and holder callbacks, broken futures | `AsyncCallbackProcessor.h`, `QueryCallback.cpp`, `QueryHolder.cpp`, `Transaction.cpp` |
| `Fields` | operators: sizes and types of columns, Get of a field | `QueryResult.cpp` (tables), `Field.cpp` |
| `PreparedResults` | extends `Fields`: binding, execution and retry of statements, construction, reading and deletion of results | `MySQLPreparedStatement.cpp`, `QueryResult.cpp`, `MySQLConnection.cpp` (_Query) |
| `SRP6` | operators: verifier, ephemeral key, shared secret, session key | `SRP6.cpp` |
| `LoginService` | extends `SRP6`: accepts, handlers, overlapping reads and writes, peers, the end of the service | `NetWork.cpp`, `types.h`, `main.cpp` |
| `ConfigMgr` | parsing and layering of configuration files, modules, reloads | `Config.cpp`, `Tokenize.cpp` |
| `Startup` | extends `ConfigMgr`: main and StartDB, options, connection info, version check | `main.cpp`, `DatabaseLoader.cpp`, `DatabaseWorkerPool.cpp`, `MySQLConnection.cpp` (Open), `StringConvert.h` |
| `PCQueueProofs`, `AsyncPoolProofs`, `MySQLTransactionProofs`, `SyncPoolProofs`, `CallbackProcessorProofs`, `PreparedResultsProofs`, `LoginServiceProofs`, `StartupProofs` | theorems about the module of that name (`StartupProofs` also about `ConfigMgr`) | |
| `MCPCQueue`, `MCAsyncPool`, `MCSyncPool`, `MCCallbackProcessor`, `MCPreparedResults`, `MCLoginService`, `MCStartup` | bounds and symmetry for TLC | |

**PCQueue.** `queue` and `shutdown` are the members of the same name.  The
condition variable is two sets: `waiting`, the consumers asleep in
`_condition.wait`, and `woken`, those that were notified (or woke for no
reason) and do not have the mutex yet.  `WaitBlock`, `WaitTake` and
`WaitReturn` are the three ways WaitAndPop can go on once it has the mutex.

**AsyncPool.** A worker is `wpc[c]` (`loop`: about to call WaitAndPop or in
it, `check`: line 30 of WorkerThread, `run`: executing), its local variable
`wop[c]` and its `token[c]`.  The controlling thread is `pc` with the vectors
and counters of Open; a destructor is three steps per connection (token,
Cancel, join and mysql_close), with the continuation in `after`.  The heap
object of an operation and the future of its promise are `obj[o]` and
`fut[o]`.  The model keeps the order of the code where it matters: the worker
starts in the connection's constructor, before Open; a failing Open clears the
vector first and then destroys the connection under construction; a server
that is too old clears nothing; the pool's members are destroyed after its
destructor body, connections before queue.

**MySQLTransaction.** A connection executes one statement per step, by index.
The server is external: a session has at most one open transaction (`open`,
`pend`), loses it when it ends, and autocommits otherwise; `durable` counts
how often a query has become durable.  A connection can be lost before the
server executes a statement or after it, and the server may refuse any
statement.  ExecuteTransaction looks only at the results of queries, so after a
refused START TRANSACTION it goes on outside of a transaction, and after a
refused COMMIT or ROLLBACK it returns and leaves the transaction open: what the
session holds (`pend`) is therefore counted per task, and `inside` marks a basic
statement that was begun in a transaction somebody else has left open.  `lost`
and `refused` count a task's losses and its refused START TRANSACTION, COMMIT
and ROLLBACK.  `code` is what ExecuteTransaction will return, `"zero"` being the
0 that `mysql_errno(nullptr)` gives.

**SyncPool.** A client thread is `pc[k]` (`spin`: searching, `use`: executing
on `using[k]`, `reconnect`: inside `_HandleMySQLErrno`, `delete`: between
Unlock and the deletion of its statement).  A just-in-time statement is the
connection and the session it was prepared in; the lock of that connection
(`owner`) stays with the client from GetPreparedStatement to its Query, and
the client may make other calls in between.  One round of GetFreeConnection's
loop, or of KeepAlive's, is one action, with the 8-bit counter `at` modulo
`IndexModulus`.  A call may lose its connection; it then reopens it, gives up
or aborts.  `died` tells an abort from the dereference of a null pointer.

**CallbackProcessor.** `callbacks` is `_callbacks`; during a poll `batch` is
what `remove_if` has still to look at, its head the entry whose function runs,
and `kept` the entries that stay.  `chain[e]` holds the types of the functions
of a QueryCallback, `prep[e]` is `_isPrepared`, and `fut[e]` the future, which
workers resolve or break between any two steps.  `executed`, `invoked`, `broke`
and `misused` are history.  An exception of `get()` destroys `batch` and `kept`
(`lost`), which is what happens to the callbacks of a poll that meets an
operation deleted by Cancel.

**PreparedResults.** One connection with an indexed statement and one prepared
just in time; `call` is the call in progress (`execute`, `store`, `fetch`,
`done`).  A statement is its parameter slots and what the MYSQL_STMT remembers
of its last binding: `done` is `bind_result_done`, `arrays` the result whose
length and is_null arrays it points to, `at` the addresses the next fetch
writes to.  A result is its cursor and its buffer, of which every byte holds
the row and column it was written for; `rows` are the Fields.  `live` are the
allocated blocks and `fault` records a block freed twice or used when it is
not there.  The failures of mysql_stmt_store_result and mysql_stmt_bind_result
are actions; the code's clean-up after them frees twice (`QueryResult.cpp`
lines 256 and 294), so `MemorySound` is stated for behaviours without them.

A caller that is at a row gets its fields by the guideline of `Field.h`;
`died` is set when that Get aborts or calls itself for ever.

**Fields.** The three tables of the code as operators, and GetData with its
calls of itself.  `Guideline` and `AggregateTypes` are the tables in the comment
of `Field.h`: which getters are for a column, and which types aggregates have.

**LoginService.** `con[c]` is a CMyTcpConnection: the buffer, the number of
outstanding reads, completed reads whose handler has not run, writes with the
reply they were started for, `_srp6`, `UserName` and `_os`.  A read takes what
has arrived: some messages, and perhaps the front of another one (`Fragment`),
whose remainder (`LeftOver`) is then a message of its own; `Understood` is what a
handler may make of either, since nothing puts them together.  A write sends
what the buffer holds when it is executed, all 1024 bytes of it, of which the
reply is the front: a peer that reads by the length of its reply and not by
`blocks` takes the rest for the next reply.  A handler sees what the buffer
holds when it runs.  One io thread runs the handlers one at a time.  An SRP6 object
is a number (`gen`), since its B is random; a proof is right exactly if it was
made for that object.  Peers may send anything at any time; the field
`orderly` of a peer says whether it has kept to the protocol so far (which
includes reading blocks), and `whole` whether its messages have arrived in one
piece (`Kept` is both), so that properties can be stated for those.  The model
shows what happens otherwise: a proof without a challenge, a second proof, an
unknown client system, leaving at the wrong moment, or a proof that is split
over two reads may end the process, and a challenge whose front arrives alone
gets no answer and leaves no read behind.  `Shutdown` is the end of every
orderly run too: `Stop` is called by main and again by the destructor.

**SRP6.** Both sides' arithmetic modulo N, and SHA1Interleave on sequences of
bytes.  They are operators; `SameKey` states their properties for the states in
which a proof has been verified.

**ConfigMgr.** A file is a sequence of lines, a line a sequence of lexemes.
Every file that is loaded is a step of its own and finds any content the file
may have, which stands for edits between loads.  `options`, `usingDist`,
`additional` and `listed` are the static variables of `Config.cpp`; `loaded`
is history.  A text is taken apart by positions: `FirstOf` is find, the tokens
are what is between the k-th and the next separator (`Nth`), and erasing a
character leaves the k-th of the other positions (`Without`).

**Startup.** `phase` is where main is; `info` is the MySQLConnectionInfo that
all connections of the pool share and that Open writes to, before it knows
whether it can connect.  When a connection fails, those of its type are
destroyed, those of the other type stay (`Cleared`), and the loader ends or,
after CR_CONNECTION_ERROR, opens the pool again (`OpenFails`, `retries`) with
the info as it is now.  `undefined` is the
dereference of an empty Optional or the division by zero in GetFreeConnection.
The largest uint32 is a constant (`UInt32Max`), because TLC's integers end at
2^31 - 1; the proofs hold for any value of it.  What is written in a file is
defined apart from how the code reads it: `Meant` ends a line at a '#' outside
of quotes, as a writer means it, and `Misread` is the case in which the code,
which ends it at any '#', sees something else.  `StartupAssumption` gives the
versions components below 100, and those of MySQL before the patch level one
digit, as all MySQL servers so far have.

## 3. Runs

| run | instance | shows |
|---|---|---|
| `queue` | 3 consumers, 2 values, at most 4 elements | no lost wake-up, nobody asleep after Cancel, sleepers served |
| `pool` | 2 workers, 1 retry, 4 connections, 3 operations, symmetric | accounting of operations, truth of futures, lifetimes of handles and queue, refinement of `OperationLife` |
| `pool_live` | 2 workers, no retry, 3 operations | the opened pool serves, executes what is queued, destructors end |
| `pool_reopen` | as `pool`, violated | finding: a retried Open succeeds on a queue that is shut down |
| `sync` | 2 clients, 2 connections, 1 statement, 2 losses, 1 error | locks and uses agree, held statements stay attached, null pointers need a fault, every call ends |
| `callbacks` | 2 callback objects, chains of up to 3 | no callback forgotten or served twice, none called for a dropped operation, assertions need misuse, what was executed is served |
| `transaction` | 2 connections, 2 tasks of up to 2 queries, 1 loss, 2 errors | atomicity and truth without loss or refused control statement, duplicates bounded by these faults, transactions left open only by a refused control statement, every task ends |
| `results` | columns LONGLONG (a count) and VAR_STRING, 1 parameter, 2 rows, 2 results, 1 loss, 1 failure of the library | memory and parameters freed once, rows as sent, current row readable, parameters as set, getters of the guideline return |
| `results_sum` | columns DOUBLE (a sum) and VAR_STRING, violated | finding: the getter that `Field.h` names for a sum of doubles calls itself for ever |
| `login` | 1 connection, 2 accounts (one with a zero byte in its salt), 3 messages, 2 on the wire, 1 of them split; g = 3, N = 7, keys of 6 bytes | sessions need proofs; peers that keep to the protocol and whose messages arrive whole get their replies, cannot end the process and are refused only for the salt; both sides make the same key; everybody is served |
| `startup` | 2 modules, 6 loaded files, 4 connections, 1 retry, 6 server versions | layering, truth of what the loader reports, causes of undefined behaviour, connections and threads as written, version check |
| `version` | as `startup`, violated | finding: MariaDB servers below 10.5 are accepted |

The largest runs are `login` (3.0 million distinct states), `results` (1.4
million), `transaction` (0.7 million) and `startup` (0.7 million).

Some observations have no run of their own; they are the conditions of
properties that hold.  When Open fails at a synchronous connection and is
retried, the asynchronous connections of the failed Open stay, so the pool ends
with more workers than configured (`pool` reaches it, `ServesAsWritten` says how
many).  When a connection is lost inside a transaction that fails later,
"Transaction aborted. {} queries not executed." is printed although part of it
is durable; when START TRANSACTION is refused the queries commit one by one,
and a deadlock retry repeats those that have; and when COMMIT is refused
ExecuteTransaction returns 0 and the caller is told success (the reasons why
`AtomicWithoutFault`, `TruthfulWithoutFault` and `DuplicatesNeedFaults` count
both kinds of faults).  A refused COMMIT or ROLLBACK also leaves its transaction
open for the next operation of the connection, and a basic statement that is
executed in it is reported as done and may be lost (`LeftOpenNeedsRefusal`,
`inside`).  A reconnection that fails with an error the switch does not list
leaves a null connection in service, whose transactions look successful (the
other exception of `TruthfulWithoutFault`).  A chain of callbacks with functions
of both types is accepted when it is built, and no next query satisfies both
assertions (`AbortNeedsMisuse` names it as a cause).  And once `_usingDistConfig`
is set GetFilename names the .dist file also after a later load has taken the
.conf file: `ReportsTruthful` forbids only the converse.

Bounds.  Three consumers give a sleeper, a woken consumer and a thief at once.
Two workers with one retry construct at most four connections (`Consumers`),
and a failing Open can leave one, two or none behind.  Three operations let one
be executed, one be popped and one be queued when a destructor starts.  Two
queries are the smallest transaction that can be split; one loss and two errors
let a control statement be refused and a deadlock be retried, or either follow
a loss; two tasks let one run on the session that the other has left a
transaction open on, or wait for its lock.  `ReconnectAttempts` and
`DirectRetries` are 5 in the code, 2 and 1 here, the smallest values at which a
retry happens.  Two clients on two connections make one spin when the other
holds a statement and makes a call.  `IndexModulus` is 256 in the code and 3
here, not a multiple of the number of connections, so that the wrap visits the
first one twice.  At most one statement is held: when every connection is bound
to a statement, GetFreeConnection spins until a statement is used, and nothing
obliges its client to use it (with SynchThreads = 1, a client that holds a
statement and makes another call spins for ever).  Calls are bounded, so
`CallsEnd` does not say that a spinning client overtakes others that never stop
calling: try_lock gives no such guarantee.  Two callback objects let a poll
keep one and call the other, or call one whose function adds the other; three
functions are the shortest chain with two links.  Two rows and two results let
a NULL in one row shift the next, and a second result of the same statement be
made while the first is read, deleted or outlives it; a fixed and a variable
column make values of different extents meet.  In the login run one connection
is enough for the properties of one peer, since connections share only the
accept and the generator of SRP6 objects; three messages are a challenge, a
proof, and a second proof or challenge, two on the wire a message that
overtakes a reply or arrives together with the front of another; one split is
enough for every way a message can come in two pieces.  Accepts may fail any
number of times.  N = 7 with g = 3 is a group in which every number but 0 is a
power of g, so all passwords and random numbers are covered; keys of six bytes
have every number of leading zeros, odd and even.  Six loaded files are both of
the application and both of two modules; the contents of the files hold each
mistake the code distinguishes (info with empty, missing or additional fields,
a socket, a comment sign in quotes, numbers that are no numbers, too large,
zero or negative, a socket whose name is a number, a comment behind quotes,
duplicates, options that no mandatory file has).  Four connections are two
threads of each type, and one retry is the smallest number after which the host
was replaced without a connection, and after which connections of an earlier
call remain.

Fairness.  In `PCQueue` a notified consumer gets the mutex; in `AsyncPool`
worker threads that can step do, the MySQL client's calls return, and the
controlling thread does not stop inside a destructor; in `MySQLTransaction` a
thread that can go on does; in `SyncPool` a thread inside a call goes on with
it; in `CallbackProcessor` a poll goes on, and its owner polls again and again
(the repository has no caller that shows it; it is the use the class is made
for); in `LoginService` the io thread runs the handlers that are ready and the
network delivers, peers and the user at the keyboard owe nothing.  No fairness
is assumed of clients, of opening or of the decision to close. Deadlock is
checked in every run: the only states without further steps are the end of the
process, the end of all tasks or results and a server that has served, which
have an explicit stuttering action.

## 4. Proofs

The type invariants of `PCQueue`, `AsyncPool` and `SyncPool` are proved, and
therefore not among the invariants of the runs.

`PCQueueProofs` proves for every finite set of consumers and every set of
values (`QueueAssumption`), with no bound on the queue:

* `QTypeCorrect`: `QSpec => []QTypeOK`;
* `NoWakeupIsLost`: `QSpec => []NoLostWakeup`;
* `CancelWakesAll`: `QSpec => []NoSleepAfterShutdown`.

All three follow from the inductive invariant `QInv`.  `NoLostWakeup` alone is
not inductive: counting needs that nobody is in `waiting` and `woken` at once
(part of `QTypeOK`), otherwise a notification would not add to the number of
woken consumers.  The proof has one step per action; the lemmas `ConsumerSets`,
`QueueLengths` and `WakeOne` hold the facts about cardinalities and sequences.

`AsyncPoolProofs` proves about `PSpec`, for every finite set of connections,
every set of operations and all values of the configuration
(`PoolAssumption`):

* `PoolUsesQueue`: `PSpec => QSpec`, so the theorems above hold of the pool;
  `PoolLosesNoWakeup` is one of them;
* `PTypeCorrect`: `PSpec => []PTypeOK`, by `TInv`, which adds to the types when
  the controlling thread's variables mean something (`ControlOK`);
* `OperationsAccounted`, `OnlyTokenStrands`, `FuturesTellTheTruth`:
  `PSpec => []Accounting`, `[]StrandedOnlyByToken`, `[]FutureTracksOperation`;
* `WorkersRunOnOpenHandles`, `WorkersEndBeforeQueue`:
  `PSpec => []RunsOnOpenHandle`, `[]QueueOutlivesWorkers`;
* `FirstOpenServes`: `PSpec => [](opens = 1 => OpenedPoolServes)`;
* `PoolImplementsOperationLife`: `PSpec => ImplementsOperationLife`.

Accounting, stranding and futures rest on one inductive invariant, `OInv`,
their conjunction with `Hands` (a worker that executes holds an operation, one
that asks for the next holds none).  None is inductive alone: without `Hands` a
pop could overwrite an operation that was not deleted, and without `Accounting`
a worker could finish an operation that a Cancel has dropped, which would make
a broken future's operation look executed.  The steps that move operations
(Enqueue, pop, finish, Cancel) have a lemma each; all others go through
`OInvElsewhere`.

The lifetimes rest on `CInv`, the invariant of the controlling thread.
`Ownership` says that every worker thread that runs belongs to a connection
which the vector, OpenConnections or a destructor under way still has to
destroy, and that no connection has two owners; so an empty vector means that
no thread is left.  `Handles` and `Loaded` say that operations exist only in a
pool that was loaded, whose handles are open until their worker is joined.
`Staffed` (an opened pool has a connection, a closed one has set a token) is
what the refinement needs: a worker may strand an operation, and Cancel drop
one, only when OperationLife's `closing` is true.  `OpenedPoolServes` is
false in general (run `pool_reopen`); `FirstInv` shows it for the first attempt,
with the fact that a worker has no operation in hand only after a Cancel.

`MySQLTransactionProofs` proves about `TSpec`, for any connections, tasks,
numbers of queries, retries, losses and errors (`TransactionAssumption`):

* `TransactionsAtomic`, `CallersToldTheTruth`, `DuplicatesBounded`,
  `OnlyRefusalsLeaveOpen`: `TSpec => []AtomicWithoutFault`,
  `[]TruthfulWithoutFault`, `[]DuplicatesNeedFaults`, `[]LeftOpenNeedsRefusal`.

The inductive invariant `TInv` says of every connection whose task it has
(`Busy`: no two connections have the same), what its server session holds
(`Session`: a transaction is open because a task is at work in it or has met a
refused control statement, `Blamed`), which statement it is at with which code
(`Progress`), and what the pending queries of the session and the durable ones
of the task can be (`Bounded`, and `Faultless` for tasks without a fault);
`Outcome` says it of the tasks that have ended, and that what an open
transaction holds of a task without a refusal is nothing (`Released`).  The bound
`1 + lost + refused` is not inductive: a transaction that goes on after a
reconnection or a refused START TRANSACTION runs outside a server transaction
and becomes durable query by query, which uses up a fault before the commit adds
one; and what a task has left open may become durable, by the commit that the
next START TRANSACTION implies, when the task has long ended.

`CallbackProcessorProofs` proves about `CSpec`, for any callback objects and
chains of any length (`CallbackAssumption`):

* `NoEntryForgotten`, `FunctionsNeedResults`, `AssertionsNeedMisuse`:
  `CSpec => []EntriesAccounted`, `[]InvokedWasExecuted`, `[]AbortNeedsMisuse`.

`CallbackInv` says where every entry is (`Places`: the entries added are those in
`_callbacks` and in the two parts of `updateCallbacks`, which hold nothing
twice, the completed ones and the destroyed ones), that a result still in its
future owes its function a call (`Counted`, so `invoked` stays behind
`executed`), and that the first function of a chain is of the type of the query
in flight (`ChainFits`); a next query set by the last function of a chain needs
a misuse (`NextFits`), an entry destroyed by an exception a broken promise
(`BrokenNeeds`).

`SyncPoolProofs` proves about `SSpec`, for any clients, any number of
connections that fits the counter and any bounds (`SyncAssumption`):

* `STypeCorrect`: `SSpec => []STypeOK`;
* `LocksAreAccounted`: `SSpec => []LocksAccounted`;
* `HeldStatementsAreFresh`: `SSpec => []HeldStatementIsFresh`;
* `CrashesNeedFaults`: `SSpec => []CrashNeedsFault`.

The inductive invariant `SInv` joins the types, `Owned` (`LocksAccounted`
client by client), `HeldStatementIsFresh`, `Sessions` (a new session needs a
loss, which bounds the session numbers) and `Places`, which ties a client's
variables to where it is.  The part of `Places` that matters is that a client
that holds a statement and makes another call uses another connection than the
statement's: without it the Unlock of that call would take the statement's
lock away, and its reconnection would detach the statement.  `LockStep` and
`UnlockStep` carry the argument; the lemma `Alone` says that nobody else has a
live statement on a connection in use.

`LocksAccounted` relates locks to every use of a connection (`Touches`), with the
one exception the code makes (`Deleting`): Query unlocks the connection of its
statement before it deletes the statement, so mysql_stmt_close is sent on a
session that another client may have locked and be using.  A lock is held by a
client that works on the connection and is not in that deletion.

`LoginServiceProofs` proves about `LSpec`, for any connections, accounts,
salts and numbers of messages, with arbitrary peers:

* `OnlyProvenSessions`: `LSpec => []SessionsProven`;
* `OrderlyPeersSafe`, `OrderlyPeersUnderstood`, `OnlyCutSaltsRefused`:
  `LSpec => []OrderlyPeersDoNotKill`, `[]OrderlyRepliesIntact`,
  `[]RefusalsDeserved`;
* `SameKeyHolds`: `LSpec => []SameKey`, which rests on two theorems without
  variables: `SameSecret`, for all natural exponents and every N and g, and
  `Deals`, for every even length and any bytes.

The proof is checked with `_srp6` and the key is written for `UserName`, two
members that different lines of the challenge set, so `SessionsProven` is not
inductive.  `SessionInv` adds `Bound`: `_srp6`, if there is one, was made for
`UserName`.  A challenge that fails changes neither, one that succeeds both,
and everything else on a connection leaves them alone (`Same`).

For the other three, `OrderlyInv` says that a peer which has kept to the
protocol, and whose messages have arrived whole, is in step with its
connection: it has nothing under way (`Idle`), its message is on the wire
(`Asked`), in the buffer with its read completed (`Reached`), or the reply is
in the buffer and being written (`Answered`).  In none of them can a second
read overwrite the buffer, although one is always started behind a write.  The
peer's last reply and `_srp6` belong together (`Owns`), which makes an orderly
proof right unless the salt was cut.

The arithmetic of the key needs induction on exponents.  A set that holds 0 and
with every number the next is all of Nat (`AllNat`, from the least number that
is not in it), so every law of powers is stated as a set of exponents: the
recursion of `ModExp` (`PowRec`), then sums and products of exponents
(`PowSum`, `PowMul`).  Equality modulo N is the congruence `Cong`, which goes
with sums and products.  Both secrets are g^(b(a + ux)): the client's base
B - 3 g^x is congruent to g^b because the multiplier 3 of `_B` is the 3 the
client takes away.  Neither step asks for a prime.  `Deals` splits on whether
the number of leading zeros is odd: rounding up drops the byte of an odd rest
in one half and a zero in the other.

`PreparedResultsProofs` proves about `RSpec`, for every list of columns, any
number of parameters, rows, results, losses and failures of the library and
every longest string (`ResultsAssumption`):

* `ParametersArrive`, `RowsStayAsSent`, `RowsReadable`, `MemoryIsSound`:
  `RSpec => []SentAsSet`, `[]RowsAsSent`, `[]CurrentRowReadable`,
  `[]MemorySound`;
* `TabledReadsReturn`: `RSpec => []TabledReads`: if the server sends aggregates
  with the types of the table in `Field.h`, no Get by the guideline aborts or
  calls itself for ever.  GetData's calls for an aggregate all go to the one type
  that reads it (`AggregateDefers`, `AggregateEnds`).  Without the condition it is
  `GuidelineReads`, which the run `results_sum` refutes.

The layout comes first: `Offset` is a recursive function, and that it is well
defined and that columns follow each other (`OffsetDef`, `OffsetsGrow`) is
shown by the least column for which it fails, with `LeastNat`.  Values of
different columns or of different periods of `RowSize` bytes share no byte
(`CellsApart`), and one of the first n periods is inside a buffer of n rows
(`CellInside`).  The inductive invariant `ResultsInv` has four parts.  `Course`:
the types, how far each result has come, and which result each statement is
bound to, no two to the same.  `BoundOK`: what is in the slots of the
parameters.  `RowsOK`: every value of a result is in a period of its own and its
bytes hold it, and while rows are fetched every column is at a period that is
not behind the number of rows and behind all its values (`Position`): a NULL
leaves its period to the next row, so columns drift apart, but never past the
end.  `BlocksOK`: which blocks are allocated.  Without the failures of the
library these are exactly the owned ones; with them a reader still has the
buffer of every result that is intact, which `RowsReadable` needs.

`StartupProofs` proves about `Spec` of `Startup`, for any contents of the
files, lists of modules and bounds:

* `OptionsAreLayered`, `ReportsAreTruthful`: `Spec => []OptionsLayered`,
  `[]ReportsTruthful`;
* `StartInvariant`: `Spec => []StartInv`, and with it `UndefinedHasCause`,
  `ServesWhatIsWritten`: `Spec => []UndefinedNeedsCause`, `[]ServesAsWritten`;
* `VersionGateHolds`: `Spec => []VersionGate`.

`ConfigInv` relates the options to the history `loaded` while a load is under
way: `usingDist` to the files of the application (`NamedFile`), and the module
that is being loaded to the `.dist` files of those before it (`ModulesSoFar`).
`ConfigAssumption` asks for more than the types of the constants in one point:
no module has the name of the application, whose files it would share.  That a
file's first line for an option counts (`FirstFor`, which is the code's check
for duplicates) is shown by the least line.

`StartInv` is the invariant of everything behind the configuration, in terms of
the options, which no longer change.  Neither of the two properties above is
inductive: that a connection is at its place depends on the host in the shared
info (`InfoShared`: as StartDB has set it, until the first Open for a socket,
successful or not, replaces it), on the connections opened so far (`InPlace`),
on how many of them are left from the calls before a retry (`Counted`, whose
arithmetic is in the lemma `Counting`) and on the checks that were passed on the
way (`ThreadsSet`, `AllOpen`).  `Caused` says of
the undefined behaviour what the properties say, but of the info as it was
parsed.  From there to what is written leads the second half of the proof: the
option is the right-hand side of the line that counts (`WrittenIs`, from
`OptionsLayered`), and the fields that Tokenize makes of a text with four or
five separators begin with what is in front of the first one and between the
first two (`TwoSeparators`, `SharedIs`), because the k-th position of a finite
set of numbers exists, is unique and grows with k.

The version check compares single characters, so `VersionGateHolds` goes
through the positions of the digits of all versions of the assumption
(`CharsAre`, `Compared`, `VersionCheck`): a component of two digits moves the
dots, and still no supported server is refused.  That an unsupported one is
refused holds of MySQL only; the run `version` shows MariaDB 10.4.

The attempt to prove the two properties for all contents of files showed that
their earlier forms were true of the instance only.  `UndefinedNeedsCause` had
taken every number for a port, also one that no uint32 holds. `ServesAsWritten`
had taken for granted that a server that serves has no '#' in its info, in
quotes or in a comment behind them, and that all its connections go to a socket
if one does: with a '#' in the last field it serves with that field cut, and
with a number for the socket's name the second connection goes to the port of
that number, and after a retry the first one, too.  The properties now say so,
and the run has files for each of these cases.

Every inductive invariant was checked by TLC on the instance of the module's
run before it was proved, but for conjuncts that quantify over no set (which
say that something is a sequence).

Only model-checked:

* liveness under fairness (`SleepersServed`, `QueuedIsExecuted`,
  `DestructorsEnd`, `TasksEnd`, `CallsEnd`, `ReadyIsServed`, `PeersServed`):
  out of the provers' reach.

Every safety invariant of a passing run is thus a theorem (`OpenedPoolServes`
for the first attempt to open, the only one of `pool_live`).  (Induction over
data works where a recursion is a function of the module's own: its equation is
proved first, and the rest by the least counterexample.)

## 5. Not modelled, and the plan

The plan is carried out: what is not in the lists below is modelled, and every
safety property of the runs is proved.

Known and covered by no property: the function of a holder is called without a
look at its future, also when the promise was broken (`QueryHolder.cpp:71`);
DirectExecute of a just-in-time statement never
unlocks the connection of that statement (`:553`, no caller does it); main and
the destructor both stop the service (`NetWork.cpp:335`, the action
`Shutdown`); Get of a uint32 runs strlen on the raw bytes of a prepared result
(`Field.cpp:225`; the values of bytes are not modelled).

Left out:

* `Timer.cpp` and `Timer.h`: the clock of the deadlock retry is the
  nondeterministic `Expire` of `MySQLTransaction`; the other uses are durations
  in log lines, the formatting functions are called by nothing;
* `BigNumber`, `CryptoHash`, `CryptoRandom`: wrappers of OpenSSL, external;
* getters for text, binary data and tuples, boolean and floating-point options,
  `GetKeysByString`, the rest of `Util` and `StringConvert`: conversions without
  state, mostly without callers;
* `Errors.cpp`, the banner, log lines: output; an assertion is the end of the
  process in the modules that reach it;
* vendored code (`deps/fmt`) and build files.
