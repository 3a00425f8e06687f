--------------------------- MODULE PreparedResults ---------------------------
(***************************************************************************)
(* Statements and their results on one connection: a caller fills the      *)
(* parameters of a PreparedStatement, the connection binds them to a       *)
(* MySQLPreparedStatement and executes it, and a PreparedResultSet copies  *)
(* the rows out of libmysqlclient into a buffer of its own, which the      *)
(* caller reads while the connection goes on with other calls, reconnects  *)
(* or is closed.  Text queries give a ResultSet instead.                   *)
(*                                                                         *)
(* Memory is modelled block by block (who allocates, who frees) and the    *)
(* buffer of a PreparedResultSet byte by byte: a byte holds the row and    *)
(* the column it was written for.  A MYSQL_STMT remembers the last binding *)
(* of its results (bind, bind_result_done), whose length and is_null       *)
(* arrays belong to nobody but it.  Errors that end the process are the    *)
(* subject of MySQLTransaction; here an execution works, fails or loses    *)
(* the connection.                                                         *)
(***************************************************************************)
EXTENDS Fields, Integers, Sequences, FiniteSets

CONSTANTS Columns,      \* the MySQL types of the columns of the SELECT
          Aliases,      \* what GetCleanAliasName finds in their aliases
          NumParams,    \* m_paramCount of the statement
          MaxRows,      \* bound on the rows of a result
          MaxLength,    \* max_length of a string column
          MaxResults,   \* bound on the results made
          MaxLosses,    \* bound on connection losses
          MaxBroken     \* bound on failures of libmysqlclient while it makes a result

ASSUME ResultsAssumption ==
    /\ Columns \in Seq(MySQLTypes) /\ Columns # <<>>
    /\ Aliases \in [DOMAIN Columns -> {"none", "min", "max", "sum", "avg", "count"}]
    /\ {NumParams, MaxRows, MaxLength, MaxResults, MaxLosses, MaxBroken} \subseteq Nat

Cols == DOMAIN Columns
Params == 1..NumParams
Ids == 1..MaxResults
Stmts == {"indexed", "jit"}  \* of m_stmts; prepared just in time

\* What a parameter can be; a number also stands for false, which it is until set.
Data == {"number", "text", "null"}
\* A MYSQL_BIND of a parameter: what it was last set to ("zero" after the memset
\* of the constructor), whether its buffer and its length are allocated, and
\* whether it has lost a length without freeing it.
ZeroSlot == [is |-> "zero", buffer |-> FALSE, length |-> FALSE, lost |-> FALSE]

NULL == -1                   \* the length that stands for a NULL of the server
NoResult == 0
AffectedOfSelect == MaxRows + 1  \* mysql_stmt_affected_rows before the rows are
                                 \* stored is 2^64 - 1: more than any row

VARIABLES
  open,    \* the connection is not closed
  stmt,    \* per statement: its binding and its parameters, as in Closed below
  call,    \* the call in progress
  res,     \* per result: the PreparedResultSet or ResultSet
  live,    \* the blocks that are allocated
  fault,   \* a block was freed twice, or used when not allocated, or a value was
           \* read beyond its end
  died,    \* a Get has ended the process
  losses, broken

vars == <<open, stmt, call, res, live, fault, died, losses, broken>>

(***************************************************************************)
(* stmt: attached says that it belongs to the session; done and arrays are *)
(* bind_result_done and the result whose arrays bind points to; into and   *)
(* at are the buffer and the offsets that bind makes a fetch write to.     *)
(***************************************************************************)
NoStmt == [attached |-> FALSE, done |-> FALSE, arrays |-> NoResult,
           into |-> NoResult, at |-> [c \in Cols |-> 0], slots |-> [p \in Params |-> ZeroSlot]]
NewStmt == [NoStmt EXCEPT !.attached = TRUE]

NoRes == [state |-> "none", kind |-> "prepared", rowCount |-> 0, rowPosition |-> 0,
          data |-> <<>>, rows |-> <<>>, intact |-> TRUE,
          rBind |-> FALSE, meta |-> FALSE]

Idle == [at |-> "idle", stmt |-> "indexed", params |-> <<>>, query |-> TRUE,
         result |-> NoResult, sent |-> <<>>]

\* MySQLConnection::Open and PrepareStatements have succeeded.
RInit == /\ open = TRUE
         /\ stmt = [s \in Stmts |-> IF s = "indexed" THEN NewStmt ELSE NoStmt]
         /\ call = Idle
         /\ res = [i \in Ids |-> NoRes]
         /\ live = {}
         /\ fault = FALSE
         /\ died = FALSE
         /\ losses = 0
         /\ broken = 0

\* delete of some blocks, when others are allocated before.
FreeWith(blocks, more) == /\ live' = (live \cup more) \ blocks
                          /\ fault' = (fault \/ ~(blocks \subseteq live \cup more))
Free(blocks) == FreeWith(blocks, {})

Arrays(i) == <<"arrays", i>>  \* m_length and m_isNull
RBind(i) == <<"rBind", i>>
Buffer(i) == <<"buffer", i>>  \* dataBuffer
Meta(i) == <<"meta", i>>      \* the MYSQL_RES of mysql_stmt_result_metadata
Text(i) == <<"text", i>>      \* _result and _currentRow of a ResultSet

Unused == {i \in Ids : res[i].state = "none"}
NewId == CHOOSE i \in Unused : \A j \in Unused : i <= j

-----------------------------------------------------------------------------
(***************************************************************************)
(* Parameters.                                                             *)
(***************************************************************************)

\* SetParameter of slot o: the text and vector forms allocate a length, and the
\* form for numbers forgets the length without freeing it.
SetParameter(o, value) ==
    [is |-> value, buffer |-> value # "null", length |-> value = "text",
     lost |-> o.lost \/ (o.length /\ value \notin {"null", "text"})]

\* BindParameters: slots beyond the given parameters keep what they are.
BindParameters(slots, params) ==
    [p \in Params |-> IF p <= Len(params) THEN SetParameter(slots[p], params[p]) ELSE slots[p]]

\* A plausible bug of ClearParameters: what a NULL leaves is kept.
ClearParametersPart(slots) ==
    [p \in Params |-> IF slots[p].length THEN slots[p]
                      ELSE [slots[p] EXCEPT !.buffer = FALSE, !.length = FALSE]]

\* ClearParameters frees the buffers and the lengths, and nothing else.
ClearParameters(slots) ==
    [p \in Params |-> [slots[p] EXCEPT !.buffer = FALSE, !.length = FALSE]]

\* The value the server gets for a slot: mysql_stmt_bind_param has not seen a
\* slot that was never set.
Transmitted(slots) == [p \in Params |-> IF slots[p].is = "null" \/ slots[p].buffer
                                        THEN slots[p].is ELSE "zero"]

\* The caller has a statement, with the parameters it has set, and calls Query
\* or Execute.  An indexed statement has m_preparedStatementSize parameters; a
\* just-in-time one as many as its caller has said when it goes to a worker.
\* AssertValidIndex ends the process when there are too many.
AssertValidIndex(params) == Len(params) <= NumParams

Call(s, params) ==
    /\ open /\ call.at = "idle" /\ Unused # {}
    /\ \E query \in BOOLEAN :
          call' = [Idle EXCEPT !.at = IF AssertValidIndex(params) THEN "execute" ELSE "aborted",
                               !.stmt = s, !.params = params, !.query = query]
    /\ LET old == IF s = "jit" THEN NewStmt ELSE stmt[s]
       IN stmt' = [stmt EXCEPT ![s] = [old EXCEPT !.slots = BindParameters(@, params)]]
    /\ UNCHANGED <<open, res, live, fault, losses, broken, died>>

\* The end of a call: a just-in-time statement is deleted with its last reference.
\* ~MySQLPreparedStatement deletes the arrays of its last binding.
Destroyed(s) == IF stmt[s].done THEN {Arrays(stmt[s].arrays)} ELSE {}
CallEnds == /\ call' = Idle
            /\ IF call.stmt = "jit" THEN Free(Destroyed("jit")) ELSE UNCHANGED <<live, fault>>

Stmt == stmt[call.stmt]
AfterCall(new) == [stmt EXCEPT ![call.stmt] = IF call.stmt = "jit" THEN NoStmt ELSE new]

\* mysql_stmt_execute works, and Query goes on with the result.
Execute ==
    /\ call.at = "execute"
    /\ Stmt.attached
    /\ stmt' = [stmt EXCEPT ![call.stmt].slots = ClearParameters(@)]
    /\ call' = [call EXCEPT !.sent = Transmitted(Stmt.slots),
                            !.at = IF call.query THEN "store" ELSE "done"]
    /\ UNCHANGED <<open, res, live, fault, losses, broken, died>>

\* It fails with an error that is not handled, or on a statement whose session
\* is gone: no result.
ExecuteFails ==
    /\ call.at = "execute"
    /\ stmt' = AfterCall([Stmt EXCEPT !.slots = ClearParameters(@)])
    /\ CallEnds
    /\ UNCHANGED <<open, res, losses, broken, died>>

\* A plausible bug of Execute and _Query: the statement is executed again
\* without binding its parameters to the new MySQLPreparedStatement.
RetryUnbound(slots, params) == slots

\* The parameters are bound again after the reconnection.
Rebind(slots, params) == BindParameters(slots, params)

\* The connection is lost and _HandleMySQLErrno opens a new one: it replaces the
\* indexed statements, and a just-in-time one is detached; then _Query runs again.
LoseAndRetry ==
    /\ call.at = "execute"
    /\ Stmt.attached
    /\ losses < MaxLosses
    /\ losses' = losses + 1
    /\ stmt' = [s \in Stmts |->
          LET new == IF s = "indexed" THEN NewStmt ELSE [stmt[s] EXCEPT !.attached = FALSE]
          IN IF s = call.stmt THEN [new EXCEPT !.slots = Rebind(@, call.params)] ELSE new]
    /\ Free(Destroyed("indexed"))
    /\ UNCHANGED <<open, call, res, broken, died>>

-----------------------------------------------------------------------------
(***************************************************************************)
(* The constructor of PreparedResultSet.                                   *)
(***************************************************************************)

Size(c) == SizeForType(Columns[c], MaxLength)
\* Where column c begins in a row: the sizes of the columns before it add up.
Offset[c \in 1..(Len(Columns) + 1)] == IF c = 1 THEN 0 ELSE Offset[c - 1] + Size(c - 1)
RowSize == Offset[Len(Columns) + 1]

\* A plausible bug: the arrays of the last binding are not deleted.
OldArraysKept == {}

\* The arrays of the last binding, which the constructor deletes first.
OldArrays == IF Stmt.done THEN {Arrays(Stmt.arrays)} ELSE {}

\* The statement was no SELECT, and has no metadata: the result has the number
\* of affected rows, and neither fields nor rows.
NoMetadata ==
    /\ call.at = "store"
    /\ \E n \in 0..MaxRows :
          res' = [res EXCEPT ![NewId] = [NoRes EXCEPT !.state = "making", !.kind = "affected",
                                           !.rowCount = n]]
    /\ call' = [Idle EXCEPT !.at = "done", !.stmt = call.stmt, !.result = NewId]
    /\ UNCHANGED <<open, stmt, live, fault, losses, broken, died>>

\* mysql_stmt_store_result fails: rBind and the new arrays are deleted, and
\* m_rBind keeps its value.  The caller gets a result that claims rows.
StoreFails ==
    LET i == NewId
    IN /\ call.at = "store"
       /\ broken < MaxBroken
       /\ broken' = broken + 1
       /\ res' = [res EXCEPT ![i] = [NoRes EXCEPT !.state = "making", !.rowCount = AffectedOfSelect,
                                       !.rBind = TRUE, !.meta = TRUE, !.intact = FALSE]]
       /\ FreeWith(OldArrays, {Meta(i)})
       /\ call' = [Idle EXCEPT !.at = "done", !.stmt = call.stmt, !.result = i]
       /\ UNCHANGED <<open, stmt, losses, died>>

\* It works: rows and longest string are known, the buffer is laid out, and
\* mysql_stmt_bind_result copies m_rBind to the statement.
Store ==
    LET i == NewId
    IN /\ call.at = "store"
       /\ \E n \in 0..MaxRows :
            res' = [res EXCEPT ![i] =
                 [NoRes EXCEPT !.state = "making", !.rowCount = n, !.rBind = TRUE,
                    !.meta = TRUE, !.data = [a \in 0..(RowSize * n - 1) |-> <<>>]]]
       /\ stmt' = [stmt EXCEPT ![call.stmt] =
            [@ EXCEPT !.done = TRUE, !.arrays = i, !.into = i, !.at = [c \in Cols |-> Offset[c]]]]
       /\ FreeWith(OldArrays, {Meta(i), RBind(i), Buffer(i), Arrays(i)})
       /\ call' = [Idle EXCEPT !.at = "fetch", !.stmt = call.stmt, !.result = i]
       /\ UNCHANGED <<open, losses, broken, died>>

\* mysql_stmt_bind_result knows no conversion for a column (GEOMETRY and JSON),
\* after it has copied m_rBind: CleanUp frees the metadata, which it does not
\* set to null, and bind_result_done stays as it was.
BindFails ==
    LET i == NewId
    IN /\ call.at = "store"
       /\ broken < MaxBroken
       /\ broken' = broken + 1
       /\ \E n \in 0..MaxRows :
            res' = [res EXCEPT ![i] = [NoRes EXCEPT !.state = "making", !.rowCount = n,
                                         !.meta = TRUE, !.intact = FALSE]]
       /\ stmt' = [stmt EXCEPT ![call.stmt].arrays = i]
       /\ FreeWith(OldArrays, {})
       /\ call' = [Idle EXCEPT !.at = "done", !.stmt = call.stmt, !.result = i]
       /\ UNCHANGED <<open, losses, died>>

\* The lengths the server may send for column c.
Lengths(c) == {NULL} \cup (IF Columns[c] \in StringTypes THEN 0..MaxLength ELSE {Size(c)})

\* The addresses that a fetch writes for column c, the character 0 behind a
\* string included, if there is room for it.
Extent(c, length) ==
    IF length = NULL THEN {}
    ELSE Stmt.at[c]..(Stmt.at[c] + (IF length < Size(c) THEN length ELSE length - 1))

\* Memory d after a fetch has written row r.
Written(d, r, row) ==
    [a \in DOMAIN d |->
        LET hit == {c \in Cols : a \in Extent(c, row[c])}
        IN IF hit = {} THEN d[a] ELSE <<r, CHOOSE c \in hit : TRUE>>]

\* A plausible bug: the address is advanced by the size of the column.
AdvanceByColumn(row) ==
    [c \in Cols |-> IF row[c] = NULL THEN Stmt.at[c] ELSE Stmt.at[c] + Size(c)]

\* The addresses for the next row: a NULL does not use its own.
Advance(row) ==
    [c \in Cols |-> IF row[c] = NULL THEN Stmt.at[c] ELSE Stmt.at[c] + RowSize]

\* One round of the loop: a row is fetched and its Fields point to it.
FetchRow ==
    LET i == call.result
        x == res[i]
        r == Len(x.rows) + 1
    IN /\ call.at = "fetch"
       /\ Len(x.rows) < x.rowCount
       /\ \E row \in {f \in [Cols -> UNION {Lengths(c) : c \in Cols}] :
                         \A c \in Cols : f[c] \in Lengths(c)} :
            /\ res' = [res EXCEPT
                 ![i].rows = Append(@, [c \in Cols |-> [value |-> IF row[c] = NULL THEN NULL ELSE Stmt.at[c],
                                                        length |-> row[c]]]),
                 ![Stmt.into].data = Written(@, r, row)]
            /\ stmt' = [stmt EXCEPT ![call.stmt].at = Advance(row)]
            /\ fault' = (fault \/ Buffer(Stmt.into) \notin live
                               \/ \E c \in Cols :
                                     ~(Extent(c, row[c]) \subseteq 0..(RowSize * x.rowCount - 1)))
       /\ UNCHANGED <<open, call, live, losses, broken, died>>

FetchEnds ==
    /\ call.at = "fetch"
    /\ Len(res[call.result].rows) = res[call.result].rowCount
    /\ call' = [call EXCEPT !.at = "done"]
    /\ UNCHANGED <<open, stmt, res, live, fault, losses, broken, died>>

-----------------------------------------------------------------------------
(***************************************************************************)
(* Results and their readers.                                              *)
(***************************************************************************)

\* What CleanUp frees; m_rBind that points nowhere is read before.
CleanUp(x, i) ==
    IF x.kind = "text" THEN IF x.meta THEN {Text(i)} ELSE {}
    ELSE (IF x.meta THEN {Meta(i)} ELSE {}) \cup (IF x.rBind THEN {RBind(i), Buffer(i)} ELSE {})

\* The pool or the task hands the result over, unless it has no rows: then it
\* is deleted.  The connection has been unlocked.
Return ==
    LET i == call.result
        given == i # NoResult /\ res[i].rowCount > 0
        gone == IF i = NoResult \/ given THEN {} ELSE CleanUp(res[i], i)
    IN /\ call.at = "done"
       /\ res' = IF i = NoResult THEN res
                 ELSE [res EXCEPT ![i].state = IF given THEN "held" ELSE "gone"]
       /\ stmt' = AfterCall(Stmt)
       /\ call' = Idle
       /\ Free(gone \cup (IF call.stmt = "jit" THEN Destroyed("jit") ELSE {}))
       /\ UNCHANGED <<open, losses, broken, died>>

\* A plausible bug of Query(sql): the first row is not fetched before the result
\* is handed over, as for a prepared statement.
FirstRowLater(n) == 0

\* Query(sql) hands a ResultSet over with its first row fetched.
FirstRow(n) == 1

\* MySQLConnection::Query(sql): a ResultSet when there are rows.
TextQuery ==
    /\ open /\ call.at = "idle" /\ Unused # {}
    /\ \E n \in 1..MaxRows :
          res' = [res EXCEPT ![NewId] = [NoRes EXCEPT !.state = "held", !.kind = "text", !.rowCount = n,
                                           !.meta = TRUE, !.rowPosition = FirstRow(n)]]
    /\ live' = live \cup {Text(NewId)}
    /\ UNCHANGED <<open, stmt, call, fault, losses, broken, died>>

\* What NextRow of x returns.  A PreparedResultSet counts its rows from 0.
MoreRows(x) == IF x.kind = "text" THEN x.rowPosition < x.rowCount
                                  ELSE x.rowPosition + 1 < x.rowCount

\* NextRow: at the end a ResultSet cleans up, a PreparedResultSet does not.
NextRow(i) ==
    LET more == MoreRows(res[i])
    IN /\ res[i].state = "held"
       /\ res' = [res EXCEPT ![i].rowPosition = IF more \/ res[i].kind # "text" THEN @ + 1 ELSE @,
                             ![i].state = IF more THEN "held" ELSE "read",
                             ![i].meta = @ /\ (more \/ res[i].kind # "text")]
       /\ Free(IF ~more /\ res[i].kind = "text" THEN CleanUp(res[i], i) ELSE {})
       /\ UNCHANGED <<open, stmt, call, losses, broken, died>>

\* Whether the row the caller is at is in memory it can read.
Backed(x, i) == IF x.kind = "text" THEN x.meta /\ Text(i) \in live /\ x.rowPosition > 0
                ELSE x.rowPosition < Len(x.rows) /\ Buffer(i) \in live

\* The field of column c at the row the caller is at.  Any string in the text of a
\* number that a caller asks for is one that StringTo can read.
FieldsOf(x, c) ==
    [type : {Columns[c]}, raw : {x.kind = "prepared"}, alias : {Aliases[c]}, dbc : {FALSE},
     as : {Guideline(Columns[c]) \cup {"float"}},
     null : IF x.kind = "prepared" THEN {x.rows[x.rowPosition + 1][c].value = NULL} ELSE BOOLEAN]

\* Fetch of a row that is not there.
FetchNothing(i) ==
    /\ res[i].state = "held" /\ res[i].kind # "affected"
    /\ ~Backed(res[i], i)
    /\ fault' = TRUE
    /\ UNCHANGED <<open, stmt, call, res, live, losses, broken, died>>

\* Fetch, and Get of a number with a method that the guideline names for its type.
\* A raw value is read with the width of the type it is finally read as.
FetchAndGet(i) ==
    /\ res[i].state = "held" /\ res[i].kind # "affected"
    /\ Backed(res[i], i)
    /\ \E c \in Cols : \E T \in Guideline(Columns[c]), f \in FieldsOf(res[i], c) :
          LET got == GetData(T, f)
          IN /\ died' = (got.outcome \in {"abort", "recurses"})
             /\ fault' = /\ got.outcome = "value" /\ f.raw
                         /\ f.type \notin DecimalTypes
                         /\ Width[got.as] > Size(c)
    /\ UNCHANGED <<open, stmt, call, res, live, losses, broken>>

\* The last reference to the result goes.
DeleteResult(i) ==
    /\ res[i].state \in {"held", "read"}
    /\ res' = [res EXCEPT ![i] = [NoRes EXCEPT !.state = "gone"]]
    /\ Free(CleanUp(res[i], i))
    /\ UNCHANGED <<open, stmt, call, losses, broken, died>>

\* ~MySQLConnection: the statements go; results may outlive them.
Close ==
    /\ open /\ call.at = "idle"
    /\ open' = FALSE
    /\ stmt' = [s \in Stmts |-> NoStmt]
    /\ Free(Destroyed("indexed"))
    /\ UNCHANGED <<call, res, losses, broken, died>>

-----------------------------------------------------------------------------
\* The parameters a caller may give: as many as the statement has, or, for a
\* just-in-time statement that a worker prepares, one more or less.  (One list
\* stands for all those that are too long, which end the process.)
Lists == [1..NumParams -> Data]
OtherLists == [1..(NumParams - 1) -> Data] \cup {[p \in 1..(NumParams + 1) |-> "number"]}
ParamLists(s) == IF s = "jit" THEN Lists \cup OtherLists ELSE Lists

Step == \/ \E s \in Stmts : \E params \in ParamLists(s) : Call(s, params)
        \/ Execute
        \/ ExecuteFails
        \/ LoseAndRetry
        \/ NoMetadata
        \/ StoreFails
        \/ Store
        \/ BindFails
        \/ FetchRow
        \/ FetchEnds
        \/ Return
        \/ TextQuery
        \/ \E i \in Ids : NextRow(i) \/ FetchNothing(i) \/ FetchAndGet(i) \/ DeleteResult(i)
        \/ Close

\* Everything is closed and deleted, or nothing more can be said of the process.
Rest == /\ \/ fault \/ died \/ call.at = "aborted"
           \/ ~open /\ \A i \in Ids : res[i].state \notin {"held", "read"}
        /\ UNCHANGED vars

RNext == (~fault /\ ~died /\ call.at # "aborted" /\ Step) \/ Rest

RSpec == RInit /\ [][RNext]_vars

-----------------------------------------------------------------------------
(***************************************************************************)
(* Properties.                                                             *)
(***************************************************************************)

\* The blocks somebody will free: a result's own, and the arrays of the last
\* binding of a statement.
Owned == (UNION {CleanUp(res[i], i) : i \in {j \in Ids : res[j].state \in {"making", "held", "read"}}})
         \cup (UNION {Destroyed(s) : s \in Stmts})

\* Between calls no statement holds memory of the parameters of an earlier one.
ParametersCleared ==
    call.at \notin {"execute", "aborted"} =>
        \A s \in Stmts, p \in Params :
            LET o == stmt[s].slots[p] IN ~o.buffer /\ ~o.length /\ ~o.lost

\* No block is freed twice, used after it was freed or leaked as long as
\* libmysqlclient stores and binds every result: not by a second result of the
\* same statement, a reconnection in the middle of a call, a result that outlives
\* its statement or connection, or one that is deleted because it has no rows.
\* Nor does a caller that follows the guideline of Field.h read beyond the bytes
\* that the constructor has reserved for a value, or a statement keep memory of its
\* parameters, through failures too.
MemorySound == /\ broken = 0 => ~fault /\ live = Owned
               /\ ParametersCleared

\* Every row of a result is what the server has sent, byte by byte, and stays so
\* while other results are made and deleted: no value overlaps another one, in
\* spite of NULLs, which leave their place to the next row.
RowsAsSent ==
    \A i \in Ids : res[i].state \in {"held", "read"} /\ res[i].kind = "prepared" /\ res[i].intact =>
        /\ res[i].rowCount = Len(res[i].rows)
        /\ \A r \in DOMAIN res[i].rows, c \in Cols :
              LET cell == res[i].rows[r][c]
              IN cell.value # NULL =>
                    \A a \in cell.value..(cell.value + cell.length - 1) : res[i].data[a] = <<r, c>>

\* The row a caller is at can be read: right after the result was handed over
\* and after every NextRow that returned true, for both kinds of results.  Not so
\* for a result whose rows libmysqlclient failed to store or to bind: it is handed
\* over all the same and claims rows it does not have (intact is FALSE).
CurrentRowReadable ==
    \A i \in Ids : res[i].state = "held" /\ res[i].kind # "affected" /\ res[i].intact =>
        Backed(res[i], i)

\* The server gets the parameters the caller has set, whatever the call before
\* has bound and also when the call was tried again on a new connection.  (A
\* just-in-time statement that was given too few sends nothing for the others.)
SentAsSet ==
    call.at \in {"store", "fetch", "done"} /\ call.sent # <<>> =>
        \A p \in Params : call.sent[p] = IF p <= Len(call.params) THEN call.params[p] ELSE "zero"

\* A caller that follows the guideline of Field.h gets what it asks for: GetData
\* neither aborts nor calls itself for ever.
GuidelineReads == ~died

\* It does so whenever the server sends aggregates with the types that Field.h
\* expects, whatever type an aggregate is asked for: the chain of GetData calls
\* ends at the one that reads it.
TabledReads == (\A c \in Cols : Columns[c] \in AggregateTypes(Aliases[c])) => GuidelineReads
=============================================================================
