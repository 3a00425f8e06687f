---------------------------- MODULE SyncPoolProofs ----------------------------
(***************************************************************************)
(* Proofs about SyncPool, for any clients, any number of connections that  *)
(* fits the counter, and any number of calls, losses and errors: the types *)
(* are right, locks and uses agree but for the delete after an Unlock, and *)
(* a statement that is held is not detached from its session.              *)
(***************************************************************************)
EXTENDS SyncPool, TLAPS

\* Where a client is tells what its variables hold: a connection while it uses
\* one, and its statement's connection while it executes its statement.
Places ==
    \A k \in Clients :
        /\ using[k] # NoCon <=> pc[k] \in {"use", "reconnect"}
        /\ pc[k] = "delete" \/ (pc[k] # "idle" /\ call[k] = "prepared") => stmt[k] # NoStmt
        /\ pc[k] \in {"use", "reconnect"} /\ call[k] = "prepared" => using[k] = stmt[k].con
        /\ pc[k] \in {"use", "reconnect"} /\ call[k] # "prepared" /\ stmt[k] # NoStmt
              => using[k] # stmt[k].con
        /\ pc[k] # "idle" /\ call[k] = "prepare" => stmt[k] = NoStmt
        /\ pc[k] \in {"delete", "reconnect"} => call[k] \in {"query", "prepared"}
        /\ pc[k] = "delete" => call[k] = "prepared"
        /\ pc[k] = "reconnect" => ~up[using[k]]

\* A session more needs a loss more.
Sessions == \A c \in Cons : session[c] + (IF up[c] THEN 0 ELSE 1) <= losses

\* Client k works on connection c and has not unlocked it.
Holds(k, c) == \/ using[k] = c
               \/ stmt[k] # NoStmt /\ stmt[k].con = c /\ pc[k] # "delete"

\* Locks and uses agree, client by client.
Owned == \A c \in Cons, k \in Clients : Holds(k, c) <=> owner[c] = k

SInv == STypeOK /\ Places /\ Sessions /\ Owned /\ HeldStatementIsFresh

-----------------------------------------------------------------------------
\* The counters stay within their bounds.
LEMMA Bounds ==
  /\ 0 \in 0..(IndexModulus - 1)
  /\ \A a \in 0..(IndexModulus - 1) : (a + 1) % IndexModulus \in 0..(IndexModulus - 1)
  /\ \A a \in 0..(IndexModulus - 1) : ((a + 1) % IndexModulus) % NumCons \in Cons
  /\ \A a \in Nat : a < NumCons => a \in Cons /\ a + 1 \in 0..(IndexModulus - 1)
<1> USE SyncAssumption
<1>1. IndexModulus \in Nat \ {0} /\ NumCons \in Nat \ {0} /\ NumCons < IndexModulus
  OBVIOUS
<1>2. \A a \in Nat : a % IndexModulus \in 0..(IndexModulus - 1)
  BY <1>1
<1>3. \A a \in Nat : a % NumCons \in Cons
  BY <1>1 DEF Cons
<1>4. \A a \in Nat : a < NumCons => a \in Cons /\ a + 1 \in 0..(IndexModulus - 1)
  BY <1>1 DEF Cons
<1>5. \A a \in 0..(IndexModulus - 1) : a + 1 \in Nat
  BY <1>1
<1>6. \A a \in 0..(IndexModulus - 1) : (a + 1) % IndexModulus \in 0..(IndexModulus - 1)
  BY <1>2, <1>5
<1>7. \A a \in 0..(IndexModulus - 1) : ((a + 1) % IndexModulus) % NumCons \in Cons
  BY <1>1, <1>3, <1>6
<1> QED
  BY <1>1, <1>4, <1>6, <1>7

\* No connection is NoCon, no client NoClient, no statement NoStmt.
LEMMA Nulls == /\ NoCon \notin Cons
               /\ NoClient \notin Clients
               /\ \A s \in Statements : s # NoStmt
BY SyncAssumption, StatementAssumption DEF Cons

\* A client locks a free connection.
LEMMA LockStep ==
  ASSUME SInv, NEW k \in Clients, NEW c \in Cons, pc[k] = "spin", call[k] # "prepared",
         owner[c] = NoClient, Lock(k, c), UNCHANGED <<call, stmt, up, session>>
  PROVE  /\ Places' /\ Owned' /\ HeldStatementIsFresh'
         /\ pc' \in [Clients -> ClientPC]
         /\ using' \in [Clients -> Cons \cup {NoCon}]
         /\ owner' \in [Cons -> Clients \cup {NoClient}]
<1> USE Nulls DEF SInv
<1>1. /\ pc' = [pc EXCEPT ![k] = "use"] /\ pc \in [Clients -> ClientPC]
      /\ using' = [using EXCEPT ![k] = c] /\ using \in [Clients -> Cons \cup {NoCon}]
      /\ owner' = [owner EXCEPT ![c] = k] /\ owner \in [Cons -> Clients \cup {NoClient}]
      /\ UNCHANGED <<call, stmt, up, session>>
  BY DEF Lock, STypeOK
<1>2. using[k] = NoCon
  BY DEF Places
<1>3. \A j \in Clients : ~Holds(j, c)
  BY DEF Owned
<1>4. Places'
  <2>1. stmt[k] # NoStmt => stmt[k].con # c
    BY <1>3 DEF Holds
  <2> QED
    BY <1>1, <1>2, <2>1 DEF Places
<1>5. ASSUME NEW j \in Clients, NEW d \in Cons
      PROVE  Holds(j, d)' <=> owner'[d] = j
  <2>1. CASE j = k /\ d = c
    BY <1>1, <2>1 DEF Holds
  <2>2. CASE j = k /\ d # c
    <3>1. Holds(j, d)' <=> Holds(j, d)
      BY <1>1, <1>2, <2>2 DEF Holds
    <3> QED
      BY <1>1, <2>2, <3>1 DEF Owned
  <2>3. CASE j # k
    <3>1. Holds(j, d)' <=> Holds(j, d)
      BY <1>1, <2>3 DEF Holds
    <3> QED
      BY <1>1, <1>3, <2>3, <3>1 DEF Owned
  <2> QED
    BY <2>1, <2>2, <2>3
<1>6. Owned'
  BY <1>5 DEF Owned
<1>7. HeldStatementIsFresh'
  BY <1>1 DEF HeldStatementIsFresh, Fresh
<1> QED
  BY <1>1, <1>4, <1>6, <1>7 DEF ClientPC

\* A client unlocks the connection that it uses.
LEMMA UnlockStep ==
  ASSUME SInv, NEW k \in Clients, NEW next \in {"idle", "spin", "delete"}, Unlock(k, next),
         pc[k] \in {"use", "reconnect"}, call[k] # "prepare",
         next = "delete" <=> call[k] = "prepared",
         UNCHANGED <<call, stmt, up, session>>
  PROVE  /\ Places' /\ Owned' /\ HeldStatementIsFresh'
         /\ pc' \in [Clients -> ClientPC]
         /\ using' \in [Clients -> Cons \cup {NoCon}]
         /\ owner' \in [Cons -> Clients \cup {NoClient}]
<1> USE Nulls DEF SInv
<1>1. /\ pc' = [pc EXCEPT ![k] = next] /\ pc \in [Clients -> ClientPC]
      /\ using' = [using EXCEPT ![k] = NoCon] /\ using \in [Clients -> Cons \cup {NoCon}]
      /\ owner' = [owner EXCEPT ![using[k]] = NoClient]
      /\ owner \in [Cons -> Clients \cup {NoClient}]
      /\ UNCHANGED <<call, stmt, up, session>>
  BY DEF Unlock, STypeOK
<1>2. using[k] \in Cons /\ owner[using[k]] = k
  BY <1>1 DEF Places, Owned, Holds
<1>3. call[k] = "prepared" => stmt[k] # NoStmt /\ stmt[k].con = using[k]
  BY DEF Places
<1>4. call[k] # "prepared" /\ stmt[k] # NoStmt => stmt[k].con # using[k]
  BY DEF Places
<1>5. Places'
  BY <1>1 DEF Places
<1>6. ASSUME NEW j \in Clients, NEW d \in Cons
      PROVE  Holds(j, d)' <=> owner'[d] = j
  <2>1. CASE j = k /\ d = using[k]
    <3>1. owner'[d] # j
      BY <1>1, <1>2, <2>1
    <3>2. ~Holds(j, d)'
      BY <1>1, <1>3, <1>4, <2>1 DEF Holds
    <3> QED
      BY <3>1, <3>2
  <2>2. CASE j = k /\ d # using[k]
    <3>1. Holds(j, d)' <=> Holds(j, d)
      BY <1>1, <1>2, <1>3, <2>2 DEF Holds
    <3> QED
      BY <1>1, <2>2, <3>1 DEF Owned
  <2>3. CASE j # k
    <3>1. Holds(j, d)' <=> Holds(j, d)
      BY <1>1, <2>3 DEF Holds
    <3> QED
      BY <1>1, <1>2, <2>3, <3>1 DEF Owned
  <2> QED
    BY <2>1, <2>2, <2>3
<1>7. Owned'
  BY <1>6 DEF Owned
<1>8. HeldStatementIsFresh'
  BY <1>1 DEF HeldStatementIsFresh, Fresh
<1> QED
  BY <1>1, <1>2, <1>5, <1>7, <1>8 DEF ClientPC

\* A client enters a call that looks for connections.
LEMMA EnterStep ==
  ASSUME SInv, NEW k \in Clients, NEW what \in {"query", "prepare", "ping"}, Enter(k, what),
         what = "prepare" => stmt[k] = NoStmt
  PROVE  SInv'
<1> USE DEF SInv, Enter, mvars
<1>1. at' \in [Clients -> 0..(IndexModulus - 1)]
  BY Bounds DEF STypeOK
<1>2. calls' \in [Clients -> 0..MaxCalls]
  <2>1. calls[k] \in 0..MaxCalls /\ MaxCalls \in Nat
    BY SyncAssumption DEF STypeOK
  <2>2. calls[k] + 1 \in 0..MaxCalls
    BY <2>1
  <2> QED
    BY <2>2 DEF STypeOK
<1>3. STypeOK'
  BY <1>1, <1>2 DEF STypeOK, ClientPC
<1>4. Places'
  BY DEF STypeOK, Places
<1>5. Sessions'
  BY DEF STypeOK, Sessions
<1>6. Owned'
  BY DEF STypeOK, Owned, Holds
<1>7. HeldStatementIsFresh'
  BY DEF STypeOK, HeldStatementIsFresh, Fresh
<1> QED
  BY <1>3, <1>4, <1>5, <1>6, <1>7

\* A step that leaves the clients and the connections alone.
LEMMA CountStep ==
  ASSUME SInv, UNCHANGED <<kvars, mvars>>, losses' \in 0..MaxLosses, losses' >= losses,
         errors' \in 0..MaxErrors, calls' \in [Clients -> 0..MaxCalls],
         died' \in {"no", "abort", "crash"}
  PROVE  SInv'
<1> USE DEF SInv, kvars, mvars
<1>1. STypeOK'
  BY DEF STypeOK
<1>2. Places' /\ Owned' /\ HeldStatementIsFresh'
  BY DEF Places, Owned, Holds, HeldStatementIsFresh, Fresh
<1>3. Sessions'
  <2>1. SUFFICES ASSUME NEW c \in Cons
                 PROVE  session[c] + (IF up[c] THEN 0 ELSE 1) <= losses'
    BY DEF Sessions
  <2>2. session[c] \in 0..MaxLosses /\ losses \in 0..MaxLosses /\ MaxLosses \in Nat
    BY SyncAssumption DEF STypeOK
  <2> QED
    BY <2>2 DEF Sessions
<1> QED
  BY <1>1, <1>2, <1>3

\* A round of a search for a connection: the client looks at c.
LEMMA SearchStep ==
  ASSUME SInv, NEW k \in Clients, NEW c \in Cons, Spinning(k, {"query", "prepare", "ping"}),
         at' \in [Clients -> 0..(IndexModulus - 1)],
         IF owner[c] = NoClient THEN Lock(k, c) ELSE UNCHANGED <<owner, using, pc>>,
         UNCHANGED <<call, stmt, up, session, died, bvars>>
  PROVE  SInv'
<1> USE DEF SInv
<1>1. /\ Places' /\ Owned' /\ HeldStatementIsFresh'
      /\ pc' \in [Clients -> ClientPC]
      /\ using' \in [Clients -> Cons \cup {NoCon}]
      /\ owner' \in [Cons -> Clients \cup {NoClient}]
  <2>1. CASE owner[c] = NoClient
    BY <2>1, LockStep DEF Spinning
  <2>2. CASE owner[c] # NoClient
    BY <2>2 DEF STypeOK, Places, Owned, Holds, HeldStatementIsFresh, Fresh
  <2> QED
    BY <2>1, <2>2
<1>2. STypeOK' /\ Sessions'
  BY <1>1 DEF STypeOK, Sessions, bvars
<1> QED
  BY <1>1, <1>2

\* A call ends, or goes on, by unlocking the connection it uses.
LEMMA ReturnStep ==
  ASSUME SInv, NEW k \in Clients, NEW next \in {"idle", "spin", "delete"}, Unlock(k, next),
         pc[k] \in {"use", "reconnect"}, call[k] # "prepare",
         next = "delete" <=> call[k] = "prepared",
         UNCHANGED <<call, at, stmt, up, session, died, bvars>>
  PROVE  SInv'
<1>1. /\ Places' /\ Owned' /\ HeldStatementIsFresh'
      /\ pc' \in [Clients -> ClientPC]
      /\ using' \in [Clients -> Cons \cup {NoCon}]
      /\ owner' \in [Cons -> Clients \cup {NoClient}]
  BY UnlockStep
<1>2. STypeOK' /\ Sessions'
  BY <1>1 DEF SInv, STypeOK, Sessions, bvars
<1> QED
  BY <1>1, <1>2 DEF SInv

\* Nobody else has a statement, that he may still use, on the connection that
\* client k uses.
LEMMA Alone ==
  ASSUME SInv, NEW k \in Clients, pc[k] \in {"use", "reconnect"}
  PROVE  /\ using[k] \in Cons
         /\ \A j \in Clients \ {k} :
               /\ using[j] # using[k]
               /\ stmt[j] # NoStmt /\ pc[j] # "delete" => stmt[j].con # using[k]
<1> USE DEF SInv
<1>1. using[k] \in Cons
  BY DEF STypeOK, Places
<1>2. owner[using[k]] = k
  BY <1>1 DEF Owned, Holds
<1> QED
  BY <1>1, <1>2 DEF Owned, Holds

\* Losing the connection in use.
LEMMA LoseStep == ASSUME SInv, NEW k \in Clients, Lose(k)  PROVE SInv'
<1> DEFINE c == using[k]
<1> USE DEF SInv
<1>1. /\ pc[k] = "use" /\ call[k] \in {"query", "prepared"} /\ up[c]
      /\ up' = [up EXCEPT ![c] = FALSE] /\ pc' = [pc EXCEPT ![k] = "reconnect"]
      /\ losses < MaxLosses /\ losses' = losses + 1
      /\ UNCHANGED <<call, at, using, stmt, owner, session, died, calls, errors>>
  BY DEF Lose, Using, Reaches
<1>2. c \in Cons
  BY <1>1, Alone
<1>3. losses \in 0..MaxLosses /\ MaxLosses \in Nat
  BY SyncAssumption DEF STypeOK
<1>4. losses' \in 0..MaxLosses
  BY <1>1, <1>3
<1>5. STypeOK'
  BY <1>1, <1>4 DEF STypeOK, ClientPC
<1>6. Places'
  BY <1>1, <1>2, Alone DEF STypeOK, Places
<1>7. Sessions'
  <2>1. SUFFICES ASSUME NEW d \in Cons
                 PROVE  session[d] + (IF up'[d] THEN 0 ELSE 1) <= losses + 1
    BY <1>1 DEF Sessions
  <2>2. session[d] \in 0..MaxLosses /\ session[d] + (IF up[d] THEN 0 ELSE 1) <= losses
    BY DEF STypeOK, Sessions
  <2>3. CASE d = c
    BY <1>1, <1>3, <2>2, <2>3 DEF STypeOK
  <2>4. CASE d # c
    <3>1. up'[d] = up[d]
      BY <1>1, <2>4 DEF STypeOK
    <3> QED
      BY <1>3, <2>2, <3>1
  <2> QED
    BY <2>3, <2>4
<1>8. Owned'
  BY <1>1 DEF STypeOK, Owned, Holds
<1>9. HeldStatementIsFresh'
  <2>1. SUFFICES ASSUME NEW j \in Clients, stmt[j] # NoStmt, pc'[j] = "idle" \/ call[j] # "prepared"
                 PROVE  up'[stmt[j].con] /\ stmt[j].session = session[stmt[j].con]
    BY <1>1 DEF HeldStatementIsFresh, Fresh
  <2>2. stmt[j].con # c /\ stmt[j].con \in Cons
    BY <1>1, <2>1, Alone DEF STypeOK, Places, Statements
  <2>3. pc[j] = "idle" \/ call[j] # "prepared"
    BY <1>1, <2>1 DEF STypeOK
  <2>4. up'[stmt[j].con] = up[stmt[j].con]
    BY <1>1, <2>2 DEF STypeOK
  <2> QED
    BY <2>1, <2>3, <2>4 DEF HeldStatementIsFresh, Fresh
<1> QED
  BY <1>5, <1>6, <1>7, <1>8, <1>9

\* Reopening it.
LEMMA ReopenStep == ASSUME SInv, NEW k \in Clients, Reopen(k)  PROVE SInv'
<1> DEFINE c == using[k]
<1> USE DEF SInv
<1>1. /\ pc[k] = "reconnect" /\ ~up[c]
      /\ up' = [up EXCEPT ![c] = TRUE] /\ session' = [session EXCEPT ![c] = @ + 1]
      /\ pc' = [pc EXCEPT ![k] = "use"]
      /\ UNCHANGED <<call, at, using, stmt, owner, died, calls, losses, errors>>
  BY DEF Reopen, Places, bvars
<1>2. c \in Cons
  BY <1>1, Alone
<1>3. losses \in 0..MaxLosses /\ MaxLosses \in Nat /\ session[c] \in 0..MaxLosses
  BY <1>2, SyncAssumption DEF STypeOK
<1>4. session[c] + 1 <= losses
  BY <1>1, <1>2 DEF Sessions
<1>5. session[c] + 1 \in 0..MaxLosses
  BY <1>3, <1>4
<1>6. STypeOK'
  BY <1>1, <1>5 DEF STypeOK, ClientPC
<1>7. Places'
  BY <1>1, <1>2, Alone DEF STypeOK, Places
<1>8. Sessions'
  <2>1. SUFFICES ASSUME NEW d \in Cons
                 PROVE  session'[d] + (IF up'[d] THEN 0 ELSE 1) <= losses
    BY <1>1 DEF Sessions
  <2>2. CASE d = c
    <3>1. session'[d] = session[c] + 1 /\ up'[d] = TRUE
      BY <1>1, <2>2 DEF STypeOK
    <3> QED
      BY <1>3, <1>4, <3>1
  <2>3. CASE d # c
    <3>1. session'[d] = session[d] /\ up'[d] = up[d]
      BY <1>1, <2>3 DEF STypeOK
    <3> QED
      BY <3>1 DEF Sessions
  <2> QED
    BY <2>2, <2>3
<1>9. Owned'
  BY <1>1 DEF STypeOK, Places, Owned, Holds
<1>10. HeldStatementIsFresh'
  <2>1. SUFFICES ASSUME NEW j \in Clients, stmt[j] # NoStmt, pc'[j] = "idle" \/ call[j] # "prepared"
                 PROVE  up'[stmt[j].con] /\ stmt[j].session = session'[stmt[j].con]
    BY <1>1 DEF HeldStatementIsFresh, Fresh
  <2>2. stmt[j].con # c /\ stmt[j].con \in Cons
    BY <1>1, <2>1, Alone DEF STypeOK, Places, Statements
  <2>3. pc[j] = "idle" \/ call[j] # "prepared"
    BY <1>1, <2>1 DEF STypeOK
  <2>4. /\ up'[stmt[j].con] = up[stmt[j].con]
        /\ session'[stmt[j].con] = session[stmt[j].con]
    BY <1>1, <2>2 DEF STypeOK
  <2> QED
    BY <2>1, <2>3, <2>4 DEF HeldStatementIsFresh, Fresh
<1> QED
  BY <1>6, <1>7, <1>8, <1>9, <1>10

\* Preparing a statement: the lock of its connection passes to the statement.
LEMMA PrepareStep == ASSUME SInv, NEW k \in Clients, Prepare(k)  PROVE SInv'
<1> DEFINE c == using[k]
           s == [con |-> c, session |-> session[c]]
<1> USE Nulls DEF SInv
<1>1. /\ pc[k] = "use" /\ call[k] = "prepare" /\ up[c]
      /\ stmt' = [stmt EXCEPT ![k] = s]
      /\ using' = [using EXCEPT ![k] = NoCon] /\ pc' = [pc EXCEPT ![k] = "idle"]
      /\ UNCHANGED <<call, at, owner, up, session, died, calls, losses, errors>>
  BY DEF Prepare, Using, mvars, bvars
<1>2. c \in Cons /\ stmt[k] = NoStmt
  BY <1>1, Alone DEF Places
<1>3. s \in Statements
  BY <1>2 DEF STypeOK, Statements
<1>4. s # NoStmt /\ s.con = c /\ s.session = session[c]
  BY <1>3
<1> HIDE DEF s
<1>5. STypeOK'
  BY <1>1, <1>3 DEF STypeOK, ClientPC
<1>6. Places'
  BY <1>1 DEF STypeOK, Places
<1>7. Sessions'
  BY <1>1 DEF Sessions
<1>8. Owned'
  <2>1. SUFFICES ASSUME NEW d \in Cons, NEW j \in Clients
                 PROVE  Holds(j, d)' <=> Holds(j, d)
    BY <1>1 DEF Owned
  <2>2. CASE j = k
    BY <1>1, <1>2, <1>4, <2>2 DEF STypeOK, Holds
  <2>3. CASE j # k
    BY <1>1, <2>3 DEF STypeOK, Holds
  <2> QED
    BY <2>2, <2>3
<1>9. HeldStatementIsFresh'
  BY <1>1, <1>4 DEF STypeOK, HeldStatementIsFresh, Fresh
<1> QED
  BY <1>5, <1>6, <1>7, <1>8, <1>9

\* Every step preserves the invariant.
LEMMA SInvStep == SInv /\ [SNext]_vars => SInv'
<1> SUFFICES ASSUME SInv, [SNext]_vars
             PROVE  SInv'
  OBVIOUS
<1>b. /\ losses \in 0..MaxLosses /\ errors \in 0..MaxErrors
      /\ calls \in [Clients -> 0..MaxCalls] /\ died \in {"no", "abort", "crash"}
      /\ MaxLosses \in Nat /\ MaxErrors \in Nat /\ MaxCalls \in Nat
  BY SyncAssumption DEF SInv, STypeOK
<1>1. ASSUME NEW k \in Clients, DirectCall(k)  PROVE SInv'
  BY <1>1, EnterStep DEF DirectCall
<1>2. ASSUME NEW k \in Clients, GetPreparedStatement(k)  PROVE SInv'
  BY <1>2, EnterStep DEF GetPreparedStatement
<1>3. ASSUME NEW k \in Clients, KeepAlive(k)  PROVE SInv'
  BY <1>3, EnterStep DEF KeepAlive
<1>4. ASSUME NEW k \in Clients, QueryPrepared(k)  PROVE SInv'
  <2>1. stmt[k] \in Statements /\ stmt[k].con \in Cons /\ using[k] = NoCon
    BY <1>4 DEF SInv, STypeOK, Places, Statements, QueryPrepared
  <2>2. STypeOK' /\ Sessions'
    BY <1>4, <2>1 DEF SInv, STypeOK, Sessions, ClientPC, QueryPrepared, mvars, bvars
  <2>3. Places'
    BY <1>4, <2>1, Nulls DEF SInv, STypeOK, Places, QueryPrepared, mvars, bvars
  <2>4. Owned'
    <3>1. SUFFICES ASSUME NEW d \in Cons, NEW j \in Clients
                   PROVE  Holds(j, d)' <=> Holds(j, d)
      BY <1>4 DEF SInv, Owned, QueryPrepared, mvars
    <3>2. CASE j = k
      BY <1>4, <2>1, <3>2, Nulls DEF SInv, STypeOK, Holds, QueryPrepared
    <3>3. CASE j # k
      BY <1>4, <3>3 DEF SInv, STypeOK, Holds, QueryPrepared
    <3> QED
      BY <3>2, <3>3
  <2>5. HeldStatementIsFresh'
    BY <1>4 DEF SInv, STypeOK, HeldStatementIsFresh, Fresh, QueryPrepared, mvars
  <2> QED
    BY <2>2, <2>3, <2>4, <2>5 DEF SInv
<1>5. ASSUME NEW k \in Clients, EscapeString(k)  PROVE SInv'
  <2>1. calls[k] + 1 \in 0..MaxCalls
    BY <1>5, <1>b DEF EscapeString
  <2>2. calls' \in [Clients -> 0..MaxCalls] /\ died' \in {"no", "abort", "crash"}
    BY <1>5, <1>b, <2>1 DEF EscapeString
  <2> QED
    BY <1>5, <1>b, <2>2, CountStep DEF EscapeString
<1>6. ASSUME NEW k \in Clients, GetFreeConnection(k)  PROVE SInv'
  <2> DEFINE n == (at[k] + 1) % IndexModulus
             c == n % NumCons
  <2>1. n \in 0..(IndexModulus - 1) /\ c \in Cons
    BY Bounds DEF SInv, STypeOK
  <2>2. at' = [at EXCEPT ![k] = n]
        /\ (IF owner[c] = NoClient THEN Lock(k, c) ELSE UNCHANGED <<owner, using, pc>>)
        /\ UNCHANGED <<call, stmt, up, session, died, bvars>>
        /\ Spinning(k, {"query", "prepare", "ping"})
    BY <1>6 DEF GetFreeConnection, Spinning
  <2> HIDE DEF n, c
  <2>3. at' \in [Clients -> 0..(IndexModulus - 1)]
    BY <2>1, <2>2 DEF SInv, STypeOK
  <2> QED
    BY <2>1, <2>2, <2>3, SearchStep
<1>7. ASSUME NEW k \in Clients, KeepAliveTry(k)  PROVE SInv'
  <2>1. at[k] \in Nat /\ at[k] < NumCons
    BY <1>7 DEF SInv, STypeOK, KeepAliveTry
  <2>2. at[k] \in Cons /\ at[k] + 1 \in 0..(IndexModulus - 1)
    BY <2>1, Bounds
  <2>3. at' \in [Clients -> 0..(IndexModulus - 1)]
    BY <1>7, <2>2 DEF SInv, STypeOK, KeepAliveTry
  <2>4. Spinning(k, {"query", "prepare", "ping"})
    BY <1>7 DEF KeepAliveTry, Spinning
  <2> QED
    BY <1>7, <2>2, <2>3, <2>4, SearchStep DEF KeepAliveTry
<1>8. ASSUME NEW k \in Clients, KeepAliveEnd(k)  PROVE SInv'
  BY <1>8 DEF SInv, STypeOK, Places, Sessions, Owned, Holds, HeldStatementIsFresh, Fresh,
              ClientPC, KeepAliveEnd, Spinning, mvars, bvars
<1>9. ASSUME NEW k \in Clients, Executed(k)  PROVE SInv'
  BY <1>9, ReturnStep DEF Executed, Using, AfterUnlock
<1>10. ASSUME NEW k \in Clients, DeleteStatement(k)  PROVE SInv'
  BY <1>10 DEF SInv, STypeOK, Places, Sessions, Owned, Holds, HeldStatementIsFresh, Fresh,
               ClientPC, DeleteStatement, mvars, bvars
<1>11. ASSUME NEW k \in Clients, QueryAborts(k)  PROVE SInv'
  BY <1>11, <1>b, CountStep DEF QueryAborts
<1>12. ASSUME NEW k \in Clients, Lose(k)  PROVE SInv'
  BY <1>12, LoseStep
<1>13. ASSUME NEW k \in Clients, Reopen(k)  PROVE SInv'
  BY <1>13, ReopenStep
<1>14. ASSUME NEW k \in Clients, ReopenFails(k)  PROVE SInv'
  <2>1. call[k] \in {"query", "prepared"}
    BY <1>14 DEF SInv, Places, ReopenFails
  <2> QED
    BY <1>14, <2>1, ReturnStep DEF ReopenFails, AfterUnlock
<1>15. ASSUME NEW k \in Clients, ReopenAborts(k)  PROVE SInv'
  BY <1>15, <1>b, CountStep DEF ReopenAborts, bvars
<1>16. ASSUME NEW k \in Clients, Prepare(k)  PROVE SInv'
  BY <1>16, PrepareStep
<1>17. ASSUME NEW k \in Clients, PrepareCrashes(k)  PROVE SInv'
  BY <1>17, <1>b, CountStep DEF PrepareCrashes
<1>18. ASSUME NEW k \in Clients, Ping(k)  PROVE SInv'
  <2>1. CASE up[using[k]]
    BY <1>18, <2>1, ReturnStep DEF Ping, Using
  <2>2. CASE ~up[using[k]]
    BY <1>18, <1>b, <2>2, CountStep DEF Ping, Using, kvars, mvars, bvars
  <2> QED
    BY <2>1, <2>2
<1>19. CASE UNCHANGED vars
  BY <1>19, <1>b, CountStep DEF vars, bvars
<1> QED
  BY <1>1, <1>2, <1>3, <1>4, <1>5, <1>6, <1>7, <1>8, <1>9, <1>10, <1>11, <1>12, <1>13,
     <1>14, <1>15, <1>16, <1>17, <1>18, <1>19 DEF SNext, Begin, Step, Rest

\* The initial state satisfies the invariant.
LEMMA SInvInit == SInit => SInv
<1> SUFFICES ASSUME SInit
             PROVE  SInv
  OBVIOUS
<1> USE SyncAssumption, Nulls DEF SInit
<1>1. 0 \in 0..(IndexModulus - 1) /\ 0 \in 0..MaxLosses /\ 0 \in 0..MaxCalls /\ 0 \in 0..MaxErrors
  BY Bounds
<1>2. STypeOK
  BY <1>1 DEF STypeOK, ClientPC
<1>3. Places /\ Sessions /\ HeldStatementIsFresh
  BY DEF Places, Sessions, HeldStatementIsFresh
<1>4. Owned
  BY DEF Owned, Holds
<1> QED
  BY <1>2, <1>3, <1>4 DEF SInv

-----------------------------------------------------------------------------
\* In every behaviour the variables have their types: GetFreeConnection never
\* indexes outside its vector, and its counter fits.
THEOREM STypeCorrect == SSpec => []STypeOK
<1>1. SInv => STypeOK
  BY DEF SInv
<1> QED
  BY <1>1, SInvInit, SInvStep, PTL DEF SSpec

\* In every behaviour, whatever the clients call and however often connections
\* are lost, the locks and the uses of the connections agree but for the delete
\* at the end of Query(stmt): LockIfReady and Unlock are paired on every path, and
\* nothing but that delete works on a connection without its lock.
THEOREM LocksAreAccounted == SSpec => []LocksAccounted
<1>1. SInv => LocksAccounted
  <2> SUFFICES ASSUME SInv, NEW c \in Cons
               PROVE  /\ owner[c] # NoClient => Touches(owner[c], c) /\ ~Deleting(owner[c], c)
                      /\ \A k \in Clients : Touches(k, c) => owner[c] = k \/ Deleting(k, c)
    BY DEF LocksAccounted
  <2>1. ASSUME NEW k \in Clients  PROVE Holds(k, c) <=> owner[c] = k
    BY <2>1 DEF SInv, Owned
  <2>2. ASSUME NEW k \in Clients, Holds(k, c)  PROVE Touches(k, c) /\ ~Deleting(k, c)
    BY <2>2, Nulls DEF SInv, Places, Holds, Touches, Deleting
  <2>3. ASSUME NEW k \in Clients, Touches(k, c)  PROVE Holds(k, c) \/ Deleting(k, c)
    BY <2>3 DEF Holds, Touches, Deleting
  <2>4. owner[c] \in Clients \cup {NoClient}
    BY DEF SInv, STypeOK
  <2> QED
    BY <2>1, <2>2, <2>3, <2>4
<1> QED
  BY <1>1, SInvInit, SInvStep, PTL DEF SSpec

\* In every behaviour a just-in-time statement stays attached to its session
\* until its Query.
THEOREM HeldStatementsAreFresh == SSpec => []HeldStatementIsFresh
<1>1. SInv => HeldStatementIsFresh
  BY DEF SInv
<1> QED
  BY <1>1, SInvInit, SInvStep, PTL DEF SSpec

\* A null handle goes back to a loss: a session is down only after one.
LEMMA DownNeedsLoss ==
  ASSUME SInv, NEW c \in Cons, ~up[c]
  PROVE  losses > 0
<1>1. session[c] \in Nat /\ losses \in Nat /\ session[c] + 1 <= losses
  BY SyncAssumption DEF SInv, STypeOK, Sessions
<1> QED
  BY <1>1

\* A step that crashes meets a fault, or a connection that was lost before.
LEMMA CrashStep ==
  ASSUME SInv, died = "no", died' = "crash", NEW k \in Clients, Begin(k) \/ Step(k)
  PROVE  losses' + errors' > 0
<1>1. losses \in Nat /\ errors \in Nat
  BY SyncAssumption DEF SInv, STypeOK
<1>2. 0 \in Cons
  BY SyncAssumption DEF Cons
<1>3. EscapeString(k) \/ PrepareCrashes(k) \/ Ping(k)
  BY DEF Begin, Step, DirectCall, GetPreparedStatement, KeepAlive, Enter, QueryPrepared,
         GetFreeConnection, KeepAliveTry, KeepAliveEnd, Executed, DeleteStatement,
         QueryAborts, Lose, Reopen, ReopenFails, ReopenAborts, Prepare
<1>4. CASE EscapeString(k)
  <2>1. ~up[0] /\ losses' = losses /\ errors' = errors
    BY <1>4 DEF EscapeString
  <2> QED
    BY <1>1, <1>2, <2>1, DownNeedsLoss
<1>5. CASE PrepareCrashes(k)
  <2>1. using[k] \in Cons
    BY <1>5, Alone DEF PrepareCrashes, Using
  <2>2. \/ ~up[using[k]] /\ UNCHANGED <<losses, errors>>
        \/ losses' = losses + 1 /\ UNCHANGED errors
        \/ errors' = errors + 1 /\ UNCHANGED losses
    BY <1>5 DEF PrepareCrashes
  <2> QED
    BY <1>1, <2>1, <2>2, DownNeedsLoss
<1>6. CASE Ping(k)
  <2>1. using[k] \in Cons
    BY <1>6, Alone DEF Ping, Using
  <2>2. ~up[using[k]] /\ UNCHANGED <<losses, errors>>
    BY <1>6 DEF Ping, bvars
  <2> QED
    BY <1>1, <2>1, <2>2, DownNeedsLoss
<1> QED
  BY <1>3, <1>4, <1>5, <1>6

\* In every behaviour a null pointer is dereferenced only after a connection was
\* lost or the server has rejected a statement.
THEOREM CrashesNeedFaults == SSpec => []CrashNeedsFault
<1>1. SInit => CrashNeedsFault
  BY DEF SInit, CrashNeedsFault
<1>2. SInv /\ CrashNeedsFault /\ [SNext]_vars => CrashNeedsFault'
  <2> SUFFICES ASSUME SInv, CrashNeedsFault, [SNext]_vars, died' = "crash"
               PROVE  losses' + errors' > 0
    BY DEF CrashNeedsFault
  <2>1. CASE died = "no"
    <3>1. ~Rest /\ ~UNCHANGED vars
      BY <2>1 DEF Rest, vars
    <3> QED
      BY <2>1, <3>1, CrashStep DEF SNext
  <2>2. CASE died # "no"
    BY <2>2 DEF SNext, Rest, vars, bvars, CrashNeedsFault
  <2> QED
    BY <2>1, <2>2
<1> QED
  BY <1>1, <1>2, SInvInit, SInvStep, PTL DEF SSpec
=============================================================================
