------------------------------- MODULE SyncPool -------------------------------
(***************************************************************************)
(* The synchronous half of DatabaseWorkerPool: client threads share the    *)
(* connections of _connections[IDX_SYNCH], each guarded by its m_Mutex.    *)
(* GetFreeConnection spins over them with try_lock; a call executes on the *)
(* connection it got and unlocks it.  A statement prepared just in time    *)
(* (GetPreparedStatement(sql)) keeps its connection locked between the     *)
(* call that prepares it and the Query that consumes it, and its client    *)
(* may make other calls in between.                                        *)
(*                                                                         *)
(* A connection can be lost while a call uses it; the call then closes the *)
(* handle and reopens it, as _HandleMySQLErrno does (its attempts are the  *)
(* subject of MySQLTransaction).  A new session re-prepares the indexed    *)
(* statements, but not those prepared just in time.                        *)
(*                                                                         *)
(* try_lock by the thread that has the lock, which a client that holds a   *)
(* statement does in its other calls, is undefined for std::mutex; it      *)
(* fails in the pthread implementation, and so it does here.               *)
(***************************************************************************)
EXTENDS Naturals, FiniteSets

CONSTANTS Clients,       \* threads that call the pool
          NumCons,       \* LoginDatabase.SynchThreads
          IndexModulus,  \* 2^8 in the code: GetFreeConnection counts in a uint8
          MaxJit,        \* bound on the statements held at a time
          MaxCalls,      \* bound on the calls of a client
          MaxLosses,     \* bound on connection losses
          MaxErrors,     \* bound on errors of the server
          NoClient,
          NoCon,
          NoStmt

ASSUME SyncAssumption ==
    /\ NumCons \in Nat \ {0}
    /\ IndexModulus \in Nat
    /\ NumCons < IndexModulus
    /\ {MaxJit, MaxCalls, MaxLosses, MaxErrors} \subseteq Nat
    /\ NoClient \notin Clients
    /\ NoCon \notin Nat

Cons == 0..(NumCons - 1)
Statements == [con : Cons, session : 0..MaxLosses]

ASSUME StatementAssumption == NoStmt \notin Statements

VARIABLES pc,       \* per client: where it is
          call,     \* per client: the call it is in, or was in last
          at,       \* per client: the counter of GetFreeConnection or KeepAlive
          using,    \* per client: the local variable connection of the call
          stmt,     \* per client: its just-in-time statement: connection, session
          owner,    \* per connection: who has m_Mutex
          up,       \* per connection: m_Mysql is not null
          session,  \* per connection: which session m_Mysql is
          died,     \* "no", or how the process ended
          calls,    \* per client: calls made
          losses,   \* connection losses so far
          errors    \* errors of the server so far

kvars == <<pc, call, at, using, stmt>>
mvars == <<owner, up, session>>
bvars == <<calls, losses, errors>>
vars == <<kvars, mvars, died, bvars>>

ClientPC == {"idle", "spin", "use", "reconnect", "delete"}

\* The variables have their types; at fits its uint8.
STypeOK == /\ pc \in [Clients -> ClientPC]
           /\ call \in [Clients -> {"query", "prepare", "prepared", "ping"}]
           /\ at \in [Clients -> 0..(IndexModulus - 1)]
           /\ using \in [Clients -> Cons \cup {NoCon}]
           /\ stmt \in [Clients -> Statements \cup {NoStmt}]
           /\ owner \in [Cons -> Clients \cup {NoClient}]
           /\ up \in [Cons -> BOOLEAN]
           /\ session \in [Cons -> 0..MaxLosses]
           /\ died \in {"no", "abort", "crash"}
           /\ calls \in [Clients -> 0..MaxCalls]
           /\ losses \in 0..MaxLosses
           /\ errors \in 0..MaxErrors

\* The pool was opened and its statements are prepared.
SInit == /\ pc = [k \in Clients |-> "idle"]
         /\ call = [k \in Clients |-> "query"]
         /\ at = [k \in Clients |-> 0]
         /\ using = [k \in Clients |-> NoCon]
         /\ stmt = [k \in Clients |-> NoStmt]
         /\ owner = [c \in Cons |-> NoClient]
         /\ up = [c \in Cons |-> TRUE]
         /\ session = [c \in Cons |-> 0]
         /\ died = "no"
         /\ calls = [k \in Clients |-> 0]
         /\ losses = 0
         /\ errors = 0

-----------------------------------------------------------------------------
(***************************************************************************)
(* The calls.                                                              *)
(***************************************************************************)

\* Client k enters a call that will look for connections from index 0 on.
Enter(k, what) ==
    /\ pc[k] = "idle"
    /\ calls[k] < MaxCalls
    /\ pc' = [pc EXCEPT ![k] = "spin"]
    /\ call' = [call EXCEPT ![k] = what]
    /\ at' = [at EXCEPT ![k] = 0]
    /\ calls' = [calls EXCEPT ![k] = @ + 1]
    /\ UNCHANGED <<using, stmt, mvars, died, losses, errors>>

\* Query(sql), Query(stmt) and DirectExecute with an indexed statement,
\* DirectExecute(sql), DirectCommitTransaction.
DirectCall(k) == Enter(k, "query")

\* GetPreparedStatement(sql), by a client that has no such statement yet.
GetPreparedStatement(k) ==
    /\ stmt[k] = NoStmt
    /\ Cardinality({j \in Clients : stmt[j] # NoStmt
                                    \/ (pc[j] # "idle" /\ call[j] = "prepare")}) < MaxJit
    /\ Enter(k, "prepare")

KeepAlive(k) == Enter(k, "ping")

\* Query(stmt) with isPrepared: on the connection of the statement, which its
\* client has locked since the statement was prepared.
QueryPrepared(k) ==
    /\ pc[k] = "idle"
    /\ stmt[k] # NoStmt
    /\ pc' = [pc EXCEPT ![k] = "use"]
    /\ call' = [call EXCEPT ![k] = "prepared"]
    /\ using' = [using EXCEPT ![k] = stmt[k].con]
    /\ UNCHANGED <<at, stmt, mvars, died, bvars>>

\* EscapeString looks at the handle of the first connection, without its lock:
\* a null pointer while another client reconnects it, or after that failed.
EscapeString(k) ==
    /\ pc[k] = "idle"
    /\ calls[k] < MaxCalls
    /\ calls' = [calls EXCEPT ![k] = @ + 1]
    /\ died' = IF up[0] THEN "no" ELSE "crash"
    /\ UNCHANGED <<kvars, mvars, losses, errors>>

-----------------------------------------------------------------------------
(***************************************************************************)
(* Finding a connection.                                                   *)
(***************************************************************************)

\* LockIfReady has succeeded on c.
Lock(k, c) == /\ owner' = [owner EXCEPT ![c] = k]
              /\ using' = [using EXCEPT ![k] = c]
              /\ pc' = [pc EXCEPT ![k] = "use"]

Spinning(k, what) == pc[k] = "spin" /\ call[k] \in what

\* A plausible bug of GetFreeConnection: the result of LockIfReady is ignored,
\* as PrepareStatements does.
GetFreeConnectionUnchecked(k) ==
    LET n == (at[k] + 1) % IndexModulus
    IN /\ Spinning(k, {"query", "prepare"})
       /\ at' = [at EXCEPT ![k] = n]
       /\ Lock(k, n % NumCons)
       /\ UNCHANGED <<call, stmt, up, session, died, bvars>>

\* A plausible bug of GetFreeConnection: i + 1 where the code has ++i.
GetFreeConnectionStuck(k) ==
    LET c == (at[k] + 1) % NumCons
    IN /\ Spinning(k, {"query", "prepare"})
       /\ IF owner[c] = NoClient THEN Lock(k, c) ELSE UNCHANGED <<owner, using, pc>>
       /\ UNCHANGED <<call, at, stmt, up, session, died, bvars>>

\* One round of GetFreeConnection's loop.
GetFreeConnection(k) ==
    LET n == (at[k] + 1) % IndexModulus
        c == n % NumCons
    IN /\ Spinning(k, {"query", "prepare"})
       /\ at' = [at EXCEPT ![k] = n]
       /\ IF owner[c] = NoClient THEN Lock(k, c) ELSE UNCHANGED <<owner, using, pc>>
       /\ UNCHANGED <<call, stmt, up, session, died, bvars>>

\* One round of KeepAlive's loop: a connection that is locked is skipped.  (The
\* pings it then enqueues for the workers are operations of AsyncPool.)
KeepAliveTry(k) ==
    /\ Spinning(k, {"ping"})
    /\ at[k] < NumCons
    /\ at' = [at EXCEPT ![k] = @ + 1]
    /\ IF owner[at[k]] = NoClient THEN Lock(k, at[k]) ELSE UNCHANGED <<owner, using, pc>>
    /\ UNCHANGED <<call, stmt, up, session, died, bvars>>

KeepAliveEnd(k) ==
    /\ Spinning(k, {"ping"})
    /\ at[k] = NumCons
    /\ pc' = [pc EXCEPT ![k] = "idle"]
    /\ UNCHANGED <<call, at, using, stmt, mvars, died, bvars>>

-----------------------------------------------------------------------------
(***************************************************************************)
(* Using it.                                                               *)
(***************************************************************************)

Using(k, what) == pc[k] = "use" /\ call[k] \in what

\* connection->Unlock(), after which the client goes on at next.
Unlock(k, next) == /\ owner' = [owner EXCEPT ![using[k]] = NoClient]
                   /\ using' = [using EXCEPT ![k] = NoCon]
                   /\ pc' = [pc EXCEPT ![k] = next]

\* Where a call goes after Unlock: Query(stmt) deletes its statement.
AfterUnlock(k) == IF call[k] = "prepared" THEN "delete" ELSE "idle"

\* The MYSQL_STMT of a statement belongs to a session; mysql_close of that
\* session detaches it (libmysqlclient, external).
Fresh(s) == up[s.con] /\ s.session = session[s.con]

\* Whether the call reaches the server: m_Mysql is not null, and a just-in-time
\* statement is not detached.  (The error of a detached one is looked up in the
\* new session, which has none: "Unhandled MySQL errno", and Query gives up.)
Reaches(k) == up[using[k]] /\ (call[k] = "prepared" => Fresh(stmt[k]))

\* The call returns, with a result or without, and unlocks.
Executed(k) ==
    /\ Using(k, {"query", "prepared"})
    /\ Unlock(k, AfterUnlock(k))
    /\ UNCHANGED <<call, at, stmt, up, session, died, bvars>>

\* delete stmt, in Query(stmt): the last reference to the prepared statement
\* goes, and mysql_stmt_close talks to the server, unless it is detached.  The
\* connection is unlocked by now: another client may be using the session.
DeleteStatement(k) ==
    /\ pc[k] = "delete"
    /\ stmt' = [stmt EXCEPT ![k] = NoStmt]
    /\ pc' = [pc EXCEPT ![k] = "idle"]
    /\ UNCHANGED <<call, at, using, mvars, died, bvars>>

\* The call meets an error for which _HandleMySQLErrno aborts.
QueryAborts(k) ==
    /\ Using(k, {"query", "prepared"})
    /\ Reaches(k)
    /\ errors < MaxErrors
    /\ errors' = errors + 1
    /\ died' = "abort"
    /\ UNCHANGED <<kvars, mvars, calls, losses>>

\* The call loses the connection: mysql_close(m_Mysql), m_Mysql = nullptr.
Lose(k) ==
    /\ Using(k, {"query", "prepared"})
    /\ Reaches(k)
    /\ losses < MaxLosses
    /\ losses' = losses + 1
    /\ up' = [up EXCEPT ![using[k]] = FALSE]
    /\ pc' = [pc EXCEPT ![k] = "reconnect"]
    /\ UNCHANGED <<call, at, using, stmt, owner, session, died, calls, errors>>

\* Open and PrepareStatements succeed, and the call tries again.
Reopen(k) ==
    /\ pc[k] = "reconnect"
    /\ up' = [up EXCEPT ![using[k]] = TRUE]
    /\ session' = [session EXCEPT ![using[k]] = @ + 1]
    /\ pc' = [pc EXCEPT ![k] = "use"]
    /\ UNCHANGED <<call, at, using, stmt, owner, died, bvars>>

\* Open fails with an error that _HandleMySQLErrno does not know: the call fails.
ReopenFails(k) ==
    /\ pc[k] = "reconnect"
    /\ Unlock(k, AfterUnlock(k))
    /\ UNCHANGED <<call, at, stmt, up, session, died, bvars>>

\* Every attempt fails, or the statements cannot be prepared again.
ReopenAborts(k) ==
    /\ pc[k] = "reconnect"
    /\ died' = "abort"
    /\ UNCHANGED <<kvars, mvars, bvars>>

\* A plausible bug of GetPreparedStatement: the connection is unlocked, as in
\* every other call.
PrepareUnlock(k) ==
    /\ Using(k, {"prepare"})
    /\ up[using[k]]
    /\ stmt' = [stmt EXCEPT ![k] = [con |-> using[k], session |-> session[using[k]]]]
    /\ Unlock(k, "idle")
    /\ UNCHANGED <<call, at, up, session, died, bvars>>

\* A plausible bug of GetPreparedStatement: the flag is CONNECTION_ASYNC, for
\* which a synchronous connection prepares nothing.
PrepareWrongFlag(k) ==
    /\ Using(k, {"prepare"})
    /\ died' = "crash"
    /\ UNCHANGED <<kvars, mvars, bvars>>

\* GetPreparedStatement(sql) returns; the connection stays locked.
Prepare(k) ==
    /\ Using(k, {"prepare"})
    /\ up[using[k]]
    /\ stmt' = [stmt EXCEPT ![k] = [con |-> using[k], session |-> session[using[k]]]]
    /\ using' = [using EXCEPT ![k] = NoCon]
    /\ pc' = [pc EXCEPT ![k] = "idle"]
    /\ UNCHANGED <<call, at, mvars, died, bvars>>

\* PrepareStatement fails, because the connection is lost, which it does not
\* try to repair, or because the server rejects the statement: it returns
\* nullptr, which GetPreparedStatement dereferences.
PrepareCrashes(k) ==
    /\ Using(k, {"prepare"})
    /\ \/ ~up[using[k]] /\ UNCHANGED <<losses, errors>>
       \/ losses < MaxLosses /\ losses' = losses + 1 /\ UNCHANGED errors
       \/ errors < MaxErrors /\ errors' = errors + 1 /\ UNCHANGED losses
    /\ died' = "crash"
    /\ UNCHANGED <<kvars, mvars, calls>>

\* mysql_ping, whose result nobody looks at, and Unlock; a null handle crashes.
Ping(k) ==
    /\ Using(k, {"ping"})
    /\ IF up[using[k]] THEN Unlock(k, "spin") /\ UNCHANGED died
                       ELSE died' = "crash" /\ UNCHANGED <<owner, using, pc>>
    /\ UNCHANGED <<call, at, stmt, up, session, bvars>>

-----------------------------------------------------------------------------
\* Client k starts a call.
Begin(k) == \/ DirectCall(k)
            \/ GetPreparedStatement(k)
            \/ KeepAlive(k)
            \/ QueryPrepared(k)
            \/ EscapeString(k)

\* Client k goes on with its call.
Step(k) == \/ GetFreeConnection(k)
           \/ KeepAliveTry(k)
           \/ KeepAliveEnd(k)
           \/ Executed(k)
           \/ DeleteStatement(k)
           \/ QueryAborts(k)
           \/ Lose(k)
           \/ Reopen(k)
           \/ ReopenFails(k)
           \/ ReopenAborts(k)
           \/ Prepare(k)
           \/ PrepareCrashes(k)
           \/ Ping(k)

\* The process has ended, or the clients have nothing more to ask.
Rest == /\ died # "no" \/ \A k \in Clients : pc[k] = "idle"
        /\ UNCHANGED vars

SNext == \/ died = "no" /\ \E k \in Clients : Begin(k) \/ Step(k)
         \/ Rest

SSpec == SInit /\ [][SNext]_vars

(***************************************************************************)
(* Fairness: a thread inside a call goes on with it.  Nobody is obliged to *)
(* call, nor to use a statement it holds.                                  *)
(***************************************************************************)
SFairSpec == SSpec /\ \A k \in Clients : WF_vars(died = "no" /\ Step(k))

-----------------------------------------------------------------------------
(***************************************************************************)
(* Properties.                                                             *)
(***************************************************************************)

\* Client k works on connection c: in a call, or through a statement of c.
Touches(k, c) == using[k] = c \/ (stmt[k] # NoStmt /\ stmt[k].con = c)

\* Client k is in Query(stmt), which has unlocked c and not yet deleted its
\* statement: mysql_stmt_close is still to come on the session of c.
Deleting(k, c) == pc[k] = "delete" /\ stmt[k].con = c

\* Locks and uses agree, with one exception.  A lock is kept by a client that
\* works on the connection and will give it back: no path, a failed
\* reconnection included, leaves a lock behind.  And nobody works on a connection
\* that is not his, except Query(stmt) at its end: it unlocks before it deletes
\* its statement, so its mysql_stmt_close runs without the lock and may meet the
\* call of a client that has locked the connection meanwhile.  No other two
\* calls share a connection.
LocksAccounted ==
    \A c \in Cons :
        /\ owner[c] # NoClient => Touches(owner[c], c) /\ ~Deleting(owner[c], c)
        /\ \A k \in Clients : Touches(k, c) => owner[c] = k \/ Deleting(k, c)

\* A just-in-time statement is not detached from its session before its Query,
\* whatever the other clients, KeepAlive or its own client's other calls do: its
\* lock keeps them from reconnecting its connection.
HeldStatementIsFresh ==
    \A k \in Clients :
        stmt[k] # NoStmt /\ (pc[k] = "idle" \/ call[k] # "prepared") => Fresh(stmt[k])

\* The pool dereferences null pointers only after a connection was lost or the
\* server has rejected a statement.
CrashNeedsFault == died = "crash" => losses + errors > 0

\* Every call ends, as long as some connection is not bound to a statement:
\* GetFreeConnection reaches every connection in spite of its wrapping counter.
CallsEnd == \A k \in Clients : (pc[k] # "idle") ~> (pc[k] = "idle" \/ died # "no")
=============================================================================
