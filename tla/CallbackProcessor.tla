--------------------------- MODULE CallbackProcessor ---------------------------
(***************************************************************************)
(* AsyncCallbackProcessor and the callbacks it polls: QueryCallback with   *)
(* its chain of callback functions, TransactionCallback and                *)
(* SQLQueryHolderCallback.  One thread owns the processor and runs the     *)
(* functions; workers resolve the futures at any moment, and a Cancel of   *)
(* the queue, or the pool's end, breaks them (see FutureTracksOperation in *)
(* AsyncPool).  A function may add callbacks to the processor that is      *)
(* polling it, and one of a QueryCallback may set the next query.          *)
(*                                                                         *)
(* A result set is not modelled: a function is called with the result of   *)
(* an operation that was executed, or it is not.                           *)
(***************************************************************************)
EXTENDS Naturals, Sequences, FiniteSets, SequencesExt

CONSTANTS Entries,    \* the callback objects
          MaxChain    \* bound on the functions of a QueryCallback

ASSUME CallbackAssumption == MaxChain \in Nat \ {0}

VARIABLES kind,      \* per entry: which class it is
          prep,      \* per entry: _isPrepared
          chain,     \* per entry: its functions; TRUE: for a prepared result
          fut,       \* per entry: state of its future, "none": not valid()
          callbacks, \* _callbacks
          batch,     \* updateCallbacks from the entry on that remove_if is at
          kept,      \* the entries before it that stay
          pc,        \* where the owner of the processor is
          gone,      \* entries that were removed because they are complete
          lost,      \* entries that an exception has destroyed
          died,      \* whether an assertion has failed
          executed,  \* per entry: how many of its operations were executed
          invoked,   \* per entry: how many of its functions were called
          broke,     \* whether a promise was broken
          misused    \* whether a next query did not fit the next function

evars == <<kind, prep, chain>>
pvars == <<callbacks, batch, kept, pc, gone, lost>>
hvars == <<executed, invoked, broke, misused>>
vars == <<evars, fut, pvars, died, hvars>>

Kinds == {"query", "transaction", "holder"}
Chains == UNION {[1..n -> BOOLEAN] : n \in 1..MaxChain}

\* The entries that were given to the processor.
Added == {e \in Entries : kind[e] # "none"}

CInit == /\ kind = [e \in Entries |-> "none"]
         /\ prep = [e \in Entries |-> FALSE]
         /\ chain = [e \in Entries |-> <<>>]
         /\ fut = [e \in Entries |-> "none"]
         /\ callbacks = <<>> /\ batch = <<>> /\ kept = <<>>
         /\ pc = "idle"
         /\ gone = {} /\ lost = {}
         /\ died = FALSE
         /\ executed = [e \in Entries |-> 0]
         /\ invoked = [e \in Entries |-> 0]
         /\ broke = FALSE
         /\ misused = FALSE

-----------------------------------------------------------------------------
(***************************************************************************)
(* The clients' and the workers' side.                                     *)
(***************************************************************************)

\* AsyncQuery with its functions attached, AsyncCommitTransaction or
\* DelayQueryHolder, given to AddCallback: by the owner between two polls, or by
\* a function that a poll has called.
AddCallback(e) ==
    /\ pc \in {"idle", "function"}
    /\ kind[e] = "none"
    /\ \E k \in Kinds, ch \in Chains :
          /\ k # "query" => ch = <<FALSE>>
          /\ kind' = [kind EXCEPT ![e] = k]
          /\ chain' = [chain EXCEPT ![e] = ch]
          /\ prep' = [prep EXCEPT ![e] = Head(ch)]  \* ASSERT in WithChaining...
    /\ fut' = [fut EXCEPT ![e] = "pending"]
    /\ callbacks' = Append(callbacks, e)
    /\ UNCHANGED <<batch, kept, pc, gone, lost, died, hvars>>

\* A worker has executed the operation and set the value of its promise.
Resolve(e) ==
    /\ fut[e] = "pending"
    /\ fut' = [fut EXCEPT ![e] = "ready"]
    /\ executed' = [executed EXCEPT ![e] = @ + 1]
    /\ UNCHANGED <<evars, pvars, died, invoked, broke, misused>>

\* The operation is deleted without having been executed.
Break(e) ==
    /\ fut[e] = "pending"
    /\ fut' = [fut EXCEPT ![e] = "broken"]
    /\ broke' = TRUE
    /\ UNCHANGED <<evars, pvars, died, executed, invoked, misused>>

-----------------------------------------------------------------------------
(***************************************************************************)
(* ProcessReadyCallbacks.                                                  *)
(***************************************************************************)

BeginPoll ==
    /\ pc = "idle"
    /\ callbacks # <<>>
    /\ pc' = "poll"
    /\ batch' = callbacks
    /\ callbacks' = <<>>
    /\ UNCHANGED <<evars, fut, kept, gone, lost, died, hvars>>

\* remove_if looks at entry e.
LooksAt(e) == pc = "poll" /\ batch # <<>> /\ e = Head(batch)

\* valid() and wait_for(0s) == ready, which a broken promise satisfies too.
IsReady(e) == fut[e] \in {"ready", "broken"}

\* A plausible bug of InvokeIfReady: the poll ends at the first entry that is
\* not ready.
NotReadyStop(e) ==
    /\ LooksAt(e)
    /\ ~IsReady(e)
    /\ kept' = kept \o batch
    /\ batch' = <<>>
    /\ UNCHANGED <<evars, fut, callbacks, pc, gone, lost, died, hvars>>

\* InvokeIfReady returns false at once.
NotReady(e) ==
    /\ LooksAt(e)
    /\ ~IsReady(e)
    /\ kept' = Append(kept, e)
    /\ batch' = Tail(batch)
    /\ UNCHANGED <<evars, fut, callbacks, pc, gone, lost, died, hvars>>

\* The function of e is called.
Call(e) == /\ pc' = "function"
           /\ invoked' = [invoked EXCEPT ![e] = @ + 1]
           /\ UNCHANGED <<evars, callbacks, batch, kept, gone, lost, died,
                          executed, broke, misused>>

\* A plausible bug of QueryCallback::InvokeIfReady and TransactionCallback's:
\* the function is called without get(), as that of a holder is.
InvokeBlindly(e) ==
    /\ LooksAt(e)
    /\ kind[e] # "holder"
    /\ IsReady(e)
    /\ fut' = [fut EXCEPT ![e] = "none"]
    /\ Call(e)

\* QueryCallback and TransactionCallback: the future is moved out or consumed,
\* and its value is the argument.
Invoke(e) ==
    /\ LooksAt(e)
    /\ kind[e] # "holder"
    /\ fut[e] = "ready"
    /\ fut' = [fut EXCEPT ![e] = "none"]
    /\ Call(e)

\* SQLQueryHolderCallback does not call get().
InvokeHolder(e) ==
    /\ LooksAt(e)
    /\ kind[e] = "holder"
    /\ IsReady(e)
    /\ Call(e)
    /\ UNCHANGED fut

\* get() throws for a broken promise, through remove_if and
\* ProcessReadyCallbacks: updateCallbacks is destroyed with all that it holds.
GetThrows(e) ==
    /\ LooksAt(e)
    /\ kind[e] # "holder"
    /\ fut[e] = "broken"
    /\ lost' = lost \cup ToSet(batch) \cup ToSet(kept)
    /\ batch' = <<>> /\ kept' = <<>>
    /\ pc' = "idle"
    /\ UNCHANGED <<evars, fut, callbacks, gone, died, hvars>>

\* A plausible bug of ProcessReadyCallbacks: assignment instead of insert.
EndPollAssign ==
    /\ pc = "poll"
    /\ batch = <<>>
    /\ callbacks' = kept
    /\ kept' = <<>>
    /\ pc' = "idle"
    /\ UNCHANGED <<evars, fut, batch, gone, lost, died, hvars>>

EndPoll ==
    /\ pc = "poll"
    /\ batch = <<>>
    /\ callbacks' = callbacks \o kept
    /\ kept' = <<>>
    /\ pc' = "idle"
    /\ UNCHANGED <<evars, fut, batch, gone, lost, died, hvars>>

-----------------------------------------------------------------------------
(***************************************************************************)
(* Inside a function, and when it returns.                                 *)
(***************************************************************************)

\* The function of e is running.
Runs(e) == pc = "function" /\ e = Head(batch)

\* The function attaches a further one: WithChainingCallback or
\* WithChainingPreparedCallback, which accept both types now.
WithChainingCallback(e) ==
    /\ Runs(e)
    /\ kind[e] = "query"
    /\ fut[e] = "none"
    /\ invoked[e] + Len(chain[e]) <= MaxChain
    /\ \E p \in BOOLEAN : chain' = [chain EXCEPT ![e] = Append(@, p)]
    /\ UNCHANGED <<kind, prep, fut, pvars, died, hvars>>

\* SetNextQuery: MoveFrom asserts that the next query is of the type of e.
SetNextQuery(e) ==
    /\ Runs(e)
    /\ kind[e] = "query"
    /\ fut[e] = "none"
    /\ executed[e] < MaxChain
    /\ \E p \in BOOLEAN :
          /\ misused' = (misused \/ Len(chain[e]) < 2 \/ p # chain[e][2])
          /\ IF p = prep[e] THEN fut' = [fut EXCEPT ![e] = "pending"] /\ UNCHANGED died
                            ELSE died' = TRUE /\ UNCHANGED fut
    /\ UNCHANGED <<evars, pvars, executed, invoked, broke>>

\* e is removed: InvokeIfReady has returned true.
Complete(e) == /\ gone' = gone \cup {e}
               /\ batch' = Tail(batch)
               /\ pc' = "poll"
               /\ UNCHANGED <<kind, prep, fut, callbacks, kept, lost, died, hvars>>

\* The function of a transaction or a holder returns.
ReturnOther(e) ==
    /\ Runs(e)
    /\ kind[e] # "query"
    /\ Complete(e)
    /\ UNCHANGED chain

\* A plausible bug of checkStateAndReturnCompletion: ASSERT(hasNext).
ReturnDoneAsserts(e) ==
    /\ Runs(e)
    /\ kind[e] = "query"
    /\ fut[e] = "none"
    /\ IF Len(chain[e]) = 1
       THEN died' = TRUE /\ UNCHANGED <<evars, fut, pvars, hvars>>
       ELSE Complete(e) /\ UNCHANGED chain

\* checkStateAndReturnCompletion, no next query: e is complete, the functions
\* that are left are dropped.
ReturnDone(e) ==
    /\ Runs(e)
    /\ kind[e] = "query"
    /\ fut[e] = "none"
    /\ Complete(e)
    /\ UNCHANGED chain

\* ... with a next query and a function for it: e stays.
ReturnNext(e) ==
    /\ Runs(e)
    /\ kind[e] = "query"
    /\ fut[e] # "none"
    /\ Len(chain[e]) > 1
    /\ prep[e] = chain[e][2]
    /\ chain' = [chain EXCEPT ![e] = Tail(@)]
    /\ kept' = Append(kept, e)
    /\ batch' = Tail(batch)
    /\ pc' = "poll"
    /\ UNCHANGED <<kind, prep, fut, callbacks, gone, lost, died, hvars>>

\* ... with a next query and no function for it: an assertion fails.
ReturnAborts(e) ==
    /\ Runs(e)
    /\ kind[e] = "query"
    /\ fut[e] # "none"
    /\ Len(chain[e]) > 1 => prep[e] # chain[e][2]
    /\ died' = TRUE
    /\ UNCHANGED <<evars, fut, pvars, hvars>>

-----------------------------------------------------------------------------
\* The poll goes on.
PollStep == \/ EndPoll
            \/ \E e \in Entries : \/ NotReady(e)
                                  \/ Invoke(e)
                                  \/ InvokeHolder(e)
                                  \/ GetThrows(e)
                                  \/ ReturnOther(e)
                                  \/ ReturnDone(e)
                                  \/ ReturnNext(e)
                                  \/ ReturnAborts(e)

\* What clients, functions and workers choose to do.
ClientStep == \E e \in Entries : \/ AddCallback(e)
                                 \/ Resolve(e)
                                 \/ Break(e)
                                 \/ WithChainingCallback(e)
                                 \/ SetNextQuery(e)

\* The process has ended, or there is nothing left to poll.
Rest == /\ died \/ (pc = "idle" /\ callbacks = <<>>)
        /\ UNCHANGED vars

CNext == \/ ~died /\ (BeginPoll \/ PollStep \/ ClientStep)
         \/ Rest

CSpec == CInit /\ [][CNext]_vars

(***************************************************************************)
(* Fairness: a poll goes on, and the owner of the processor polls again    *)
(* and again, which is what the processor is for; the repository has no    *)
(* caller to show it.  Nothing is assumed of workers.                      *)
(***************************************************************************)
CFairSpec == CSpec /\ WF_vars(~died /\ PollStep) /\ WF_vars(~died /\ BeginPoll)

-----------------------------------------------------------------------------
(***************************************************************************)
(* Properties.                                                             *)
(***************************************************************************)

Held == callbacks \o kept \o batch

\* Every entry that was added is held once, or complete, or destroyed by an
\* exception, and never two of these: no entry is skipped, polled twice in a
\* poll, or forgotten, those added by functions in the middle of a poll
\* included.  And exceptions need a broken promise.
EntriesAccounted ==
    /\ IsInjective(Held)
    /\ Added = ToSet(Held) \cup gone \cup lost
    /\ ToSet(Held) \cap (gone \cup lost) = {}
    /\ gone \cap lost = {}
    /\ lost # {} => broke

\* A function of a query or of a transaction is called once for each operation
\* that was executed and never for one that was dropped.  (That of a holder is
\* called for a dropped one: it does not look at the value of its future.)
InvokedWasExecuted ==
    \A e \in Entries : kind[e] # "holder" => invoked[e] <= executed[e]

Mixed(e) == TRUE \in ToSet(chain[e]) /\ FALSE \in ToSet(chain[e])

\* An assertion fails only if a function has set a next query that does not fit
\* the next function, or in a chain with functions of both types.  Such a chain
\* is accepted when it is built (QueryCallback.cpp:151, 158: only its first
\* function has to be of the type of the query), and no next query can fit it.
AbortNeedsMisuse == died => misused \/ \E e \in Entries : Mixed(e)

\* While the owner polls, an entry whose operation was executed is served, also
\* if others stay pending, unless an exception destroys it.
ReadyIsServed ==
    \A e \in Entries : (fut[e] = "ready" /\ e \in ToSet(Held))
                          ~> (died \/ fut[e] # "ready" \/ e \in gone \cup lost)
=============================================================================
