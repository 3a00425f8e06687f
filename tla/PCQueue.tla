------------------------------- MODULE PCQueue -------------------------------
(***************************************************************************)
(* ProducerConsumerQueue<T> of src/src/common/Threading/PCQueue.h: an      *)
(* unbounded queue guarded by _queueLock, with the condition variable      *)
(* _condition on which WaitAndPop sleeps and the flag _shutdown that       *)
(* Cancel raises and nothing ever lowers.                                  *)
(*                                                                         *)
(* A critical section of _queueLock is one action.  The one place where a  *)
(* call gives the lock up half way is _condition.wait: a consumer that     *)
(* finds the queue empty goes to sleep in one action (member of `waiting'),*)
(* is notified in another (member of `woken'), and only later gets the     *)
(* lock back and tests the loop's condition again.  Between those steps    *)
(* any other thread may take the lock, so the element it was woken for may *)
(* be gone.                                                                *)
(*                                                                         *)
(* The actions are those of any client; AsyncPool extends this module and  *)
(* calls them from the worker threads and from the pool.                   *)
(***************************************************************************)
EXTENDS Naturals, Sequences, FiniteSets

CONSTANTS Consumers,    \* the threads that may call WaitAndPop
          Values        \* the values a producer may push (pointers to operations)

ASSUME QueueAssumption == IsFiniteSet(Consumers)

VARIABLES queue,        \* _queue, front first
          shutdown,     \* _shutdown
          waiting,      \* consumers asleep in _condition.wait
          woken         \* consumers notified that do not have the lock yet

qvars == <<queue, shutdown, waiting, woken>>

\* The variables have their types, and nobody is asleep and woken at once.
QTypeOK == /\ queue \in Seq(Values)
           /\ shutdown \in BOOLEAN
           /\ waiting \subseteq Consumers
           /\ woken \subseteq Consumers
           /\ waiting \cap woken = {}

QInit == /\ queue = <<>>
         /\ shutdown = FALSE
         /\ waiting = {}
         /\ woken = {}

-----------------------------------------------------------------------------
(***************************************************************************)
(* The condition variable (std::condition_variable, external).             *)
(***************************************************************************)

\* notify_one: wakes one of the sleeping consumers, any of them, if there is one.
NotifyOne == IF waiting = {}
             THEN UNCHANGED <<waiting, woken>>
             ELSE \E c \in waiting : /\ waiting' = waiting \ {c}
                                     /\ woken' = woken \cup {c}

\* notify_all
NotifyAll == /\ waiting' = {}
             /\ woken' = woken \cup waiting

\* wait may return although nobody notified; the while loop is there for this.
SpuriousWake(c) == /\ c \in waiting
                   /\ waiting' = waiting \ {c}
                   /\ woken' = woken \cup {c}
                   /\ UNCHANGED <<queue, shutdown>>

-----------------------------------------------------------------------------
(***************************************************************************)
(* The operations.                                                         *)
(***************************************************************************)

\* A plausible bug of Push: the notification is forgotten.
PushSilent(v) == /\ queue' = Append(queue, v)
                 /\ UNCHANGED <<shutdown, waiting, woken>>

\* Push does not test _shutdown: a value pushed after Cancel stays in the queue.
Push(v) == /\ queue' = Append(queue, v)
           /\ NotifyOne
           /\ UNCHANGED shutdown

\* A consumer that is not asleep has the lock to itself in WaitAndPop: it has
\* just called it, or it was woken and tests the loop's condition again.
Awake(c) == c \notin waiting

\* A plausible bug of WaitAndPop: a consumer goes to sleep without looking.
WaitBlind(c) == /\ Awake(c)
                /\ ~shutdown
                /\ waiting' = waiting \cup {c}
                /\ woken' = woken \ {c}
                /\ UNCHANGED <<queue, shutdown>>

\* A plausible bug of WaitAndPop: the loop does not test _shutdown.
WaitDeaf(c) == /\ Awake(c)
               /\ queue = <<>>
               /\ waiting' = waiting \cup {c}
               /\ woken' = woken \ {c}
               /\ UNCHANGED <<queue, shutdown>>

\* WaitAndPop, while (_queue.empty() && !_shutdown) _condition.wait(lock).
WaitBlock(c) == /\ Awake(c)
                /\ queue = <<>>
                /\ ~shutdown
                /\ waiting' = waiting \cup {c}
                /\ woken' = woken \ {c}
                /\ UNCHANGED <<queue, shutdown>>

\* A plausible bug of WaitAndPop: the front is read and not popped.
WaitPeek(c) == /\ Awake(c)
               /\ queue # <<>>
               /\ ~shutdown
               /\ woken' = woken \ {c}
               /\ UNCHANGED <<queue, shutdown, waiting>>

\* WaitAndPop returns the front of the queue.
WaitTake(c) == /\ Awake(c)
               /\ queue # <<>>
               /\ ~shutdown
               /\ queue' = Tail(queue)
               /\ woken' = woken \ {c}
               /\ UNCHANGED <<shutdown, waiting>>

\* WaitAndPop returns without a value; the caller's variable is untouched.
WaitReturn(c) == /\ Awake(c)
                 /\ shutdown
                 /\ woken' = woken \ {c}
                 /\ UNCHANGED <<queue, shutdown, waiting>>

\* Pop: takes the front without waiting (a false return changes nothing).
Pop == /\ queue # <<>>
       /\ ~shutdown
       /\ queue' = Tail(queue)
       /\ UNCHANGED <<shutdown, waiting, woken>>

\* Cancel deletes every queued object (what that does to the objects is the
\* client's business), shuts the queue for good and wakes everybody.
Cancel == /\ queue' = <<>>
          /\ shutdown' = TRUE
          /\ NotifyAll

-----------------------------------------------------------------------------
QNext == \/ \E v \in Values : Push(v)
         \/ Pop
         \/ Cancel
         \/ \E c \in Consumers : \/ SpuriousWake(c)
                                 \/ WaitBlock(c)
                                 \/ WaitTake(c)
                                 \/ WaitReturn(c)

QSpec == QInit /\ [][QNext]_qvars

(***************************************************************************)
(* Fairness.  A woken consumer asks for _queueLock; the critical sections  *)
(* are finite and the mutex does not starve a thread for ever, so the      *)
(* consumer gets it.  While it is woken one of the three steps is enabled, *)
(* so weak fairness says this.  Nothing is assumed of the producers, nor   *)
(* of consumers that never call.                                           *)
(***************************************************************************)
Resume(c) == c \in woken /\ (WaitBlock(c) \/ WaitTake(c) \/ WaitReturn(c))

QFairness == \A c \in Consumers : WF_qvars(Resume(c))

-----------------------------------------------------------------------------
(***************************************************************************)
(* Properties.                                                             *)
(***************************************************************************)

\* No consumer sleeps through an element: while somebody sleeps in WaitAndPop,
\* every queued element has a consumer that was notified and is on its way to
\* the lock.  This is what notify_one in Push and the loop of WaitAndPop that
\* tests again must guarantee, whatever other consumer, Pop or spurious wake-up
\* comes in between.
NoLostWakeup == waiting # {} => Len(queue) <= Cardinality(woken)

\* Nobody sleeps in a queue that was shut down: after Cancel every consumer
\* returns, also one that calls WaitAndPop later, so that the destructor of
\* DatabaseWorker can join its thread.
NoSleepAfterShutdown == shutdown => waiting = {}

\* The inductive invariant of the proofs.
QInv == /\ QTypeOK
        /\ NoLostWakeup
        /\ NoSleepAfterShutdown

\* Sleepers do not starve beside a queue that has something to take: the queue
\* runs empty or nobody sleeps any more (WaitAndPop, Push and Cancel together).
SleepersServed == (queue # <<>> /\ waiting # {}) ~> (queue = <<>> \/ waiting = {})
=============================================================================
