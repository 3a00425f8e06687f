---------------------------- MODULE PCQueueProofs ----------------------------
(***************************************************************************)
(* Proofs about PCQueue: for any finite set of consumers and any values,   *)
(* no wake-up is lost and nobody sleeps in a queue that was shut down.     *)
(***************************************************************************)
EXTENDS PCQueue, FiniteSetTheorems, TLAPS

\* Sets of consumers are finite, and one more or one less member counts.
LEMMA ConsumerSets ==
  ASSUME NEW S \in SUBSET Consumers, NEW c \in Consumers
  PROVE  /\ IsFiniteSet(S)
         /\ Cardinality(S) \in Nat
         /\ c \notin S => Cardinality(S \cup {c}) = Cardinality(S) + 1
         /\ Cardinality(S \ {c}) = IF c \in S THEN Cardinality(S) - 1 ELSE Cardinality(S)
         /\ c \in S => Cardinality(S) >= 1
<1>1. IsFiniteSet(S)
  BY QueueAssumption, FS_Subset
<1>2. Cardinality(S) \in Nat
  BY <1>1, FS_CardinalityType
<1>3. c \notin S => Cardinality(S \cup {c}) = Cardinality(S) + 1
  BY <1>1, FS_AddElement
<1>4. Cardinality(S \ {c}) = IF c \in S THEN Cardinality(S) - 1 ELSE Cardinality(S)
  BY <1>1, FS_RemoveElement
<1>5. c \in S => Cardinality(S) >= 1
  BY <1>1, <1>2, FS_EmptySet
<1> QED
  BY <1>1, <1>2, <1>3, <1>4, <1>5

\* What Append and Tail do to the length and to the elements of the queue.
LEMMA QueueLengths ==
  ASSUME NEW q \in Seq(Values)
  PROVE  /\ Len(q) \in Nat
         /\ \A v \in Values : /\ Append(q, v) \in Seq(Values)
                              /\ Len(Append(q, v)) = Len(q) + 1
         /\ q # <<>> => /\ Len(q) >= 1
                        /\ Tail(q) \in Seq(Values)
                        /\ Len(Tail(q)) = Len(q) - 1
         /\ q = <<>> => Len(q) = 0
         /\ <<>> \in Seq(Values)
OBVIOUS

\* Waking one consumer (notify_one, or a spurious wake-up) keeps the types and
\* adds one to the number of woken consumers.
LEMMA WakeOne ==
  ASSUME QTypeOK, NEW c \in waiting,
         waiting' = waiting \ {c}, woken' = woken \cup {c}
  PROVE  /\ waiting' \subseteq Consumers
         /\ woken' \subseteq Consumers
         /\ waiting' \cap woken' = {}
         /\ Cardinality(woken) \in Nat
         /\ Cardinality(woken') = Cardinality(woken) + 1
<1>1. c \in Consumers /\ c \notin woken /\ woken \in SUBSET Consumers
  BY DEF QTypeOK
<1>2. Cardinality(woken \cup {c}) = Cardinality(woken) + 1 /\ Cardinality(woken) \in Nat
  BY <1>1, ConsumerSets
<1> QED
  BY <1>1, <1>2 DEF QTypeOK

\* Every step of the queue preserves the invariant.
LEMMA QInvStep == QInv /\ [QNext]_qvars => QInv'
<1> SUFFICES ASSUME QInv, [QNext]_qvars
             PROVE  QInv'
  OBVIOUS
<1> USE DEF QInv
<1>q. queue \in Seq(Values)
  BY DEF QTypeOK
<1>n. /\ IsFiniteSet(woken)
      /\ Cardinality(woken) \in Nat
  BY QueueAssumption, FS_Subset, FS_CardinalityType DEF QTypeOK
<1>1. ASSUME NEW v \in Values, Push(v)
      PROVE  QInv'
  <2>1. /\ queue' \in Seq(Values)
        /\ Len(queue') = Len(queue) + 1
        /\ Len(queue) \in Nat
    BY <1>1, <1>q, QueueLengths DEF Push
  <2>2. CASE waiting = {}
    BY <1>1, <2>1, <2>2 DEF Push, NotifyOne, QTypeOK, NoLostWakeup, NoSleepAfterShutdown
  <2>3. CASE waiting # {}
    <3>1. PICK c \in waiting : waiting' = waiting \ {c} /\ woken' = woken \cup {c}
      BY <1>1, <2>3 DEF Push, NotifyOne
    <3>2. /\ waiting' \subseteq Consumers
          /\ woken' \subseteq Consumers
          /\ waiting' \cap woken' = {}
          /\ Cardinality(woken') = Cardinality(woken) + 1
      BY <3>1, WakeOne
    <3>3. QTypeOK'
      BY <1>1, <2>1, <3>2 DEF Push, QTypeOK
    <3>4. NoLostWakeup'
      BY <1>n, <2>1, <2>3, <3>2 DEF NoLostWakeup
    <3>5. NoSleepAfterShutdown'
      BY <1>1, <2>3 DEF Push, NoSleepAfterShutdown
    <3> QED
      BY <3>3, <3>4, <3>5
  <2> QED
    BY <2>2, <2>3
<1>2. CASE Pop
  <2>1. /\ queue' \in Seq(Values)
        /\ Len(queue') = Len(queue) - 1
        /\ Len(queue) \in Nat
    BY <1>2, <1>q, QueueLengths DEF Pop
  <2> QED
    BY <1>2, <1>n, <2>1 DEF Pop, QTypeOK, NoLostWakeup, NoSleepAfterShutdown
<1>3. CASE Cancel
  <2>1. queue' \in Seq(Values) /\ waiting' = {} /\ shutdown' = TRUE
    BY <1>3, <1>q, QueueLengths DEF Cancel, NotifyAll
  <2> QED
    BY <1>3, <2>1 DEF Cancel, NotifyAll, QTypeOK, NoLostWakeup, NoSleepAfterShutdown
<1>4. ASSUME NEW c \in Consumers, SpuriousWake(c)
      PROVE  QInv'
  <2>1. /\ waiting' \subseteq Consumers
        /\ woken' \subseteq Consumers
        /\ waiting' \cap woken' = {}
        /\ Cardinality(woken') = Cardinality(woken) + 1
    BY <1>4, WakeOne DEF SpuriousWake
  <2>2. Len(queue) \in Nat
    BY <1>q, QueueLengths
  <2> QED
    BY <1>4, <1>n, <2>1, <2>2
    DEF SpuriousWake, QTypeOK, NoLostWakeup, NoSleepAfterShutdown
<1>5. ASSUME NEW c \in Consumers, WaitBlock(c)
      PROVE  QInv'
  <2>1. Len(queue') = 0
    BY <1>5 DEF WaitBlock
  <2>2. Cardinality(woken') \in Nat
    BY <1>5, ConsumerSets DEF WaitBlock, QTypeOK
  <2> QED
    BY <1>5, <2>1, <2>2 DEF WaitBlock, QTypeOK, NoLostWakeup, NoSleepAfterShutdown
<1>6. ASSUME NEW c \in Consumers, WaitTake(c)
      PROVE  QInv'
  <2>1. /\ queue' \in Seq(Values)
        /\ Len(queue') = Len(queue) - 1
        /\ Len(queue) \in Nat
    BY <1>6, <1>q, QueueLengths DEF WaitTake
  <2>2. /\ Cardinality(woken') >= Cardinality(woken) - 1
        /\ Cardinality(woken') \in Nat
    <3>1. woken' = woken \ {c} /\ woken \in SUBSET Consumers /\ woken' \in SUBSET Consumers
      BY <1>6 DEF WaitTake, QTypeOK
    <3>2. Cardinality(woken') = IF c \in woken THEN Cardinality(woken) - 1 ELSE Cardinality(woken)
      BY <3>1, ConsumerSets
    <3>3. Cardinality(woken') \in Nat
      BY <3>1, ConsumerSets
    <3> QED
      BY <1>n, <3>2, <3>3
  <2> QED
    BY <1>6, <1>n, <2>1, <2>2
    DEF WaitTake, QTypeOK, NoLostWakeup, NoSleepAfterShutdown
<1>7. ASSUME NEW c \in Consumers, WaitReturn(c)
      PROVE  QInv'
  BY <1>7 DEF WaitReturn, QTypeOK, NoLostWakeup, NoSleepAfterShutdown
<1>8. CASE UNCHANGED qvars
  BY <1>8 DEF qvars, QTypeOK, NoLostWakeup, NoSleepAfterShutdown
<1> QED
  BY <1>1, <1>2, <1>3, <1>4, <1>5, <1>6, <1>7, <1>8 DEF QNext

\* The initial state satisfies the invariant.
LEMMA QInvInit == QInit => QInv
<1> <<>> \in Seq(Values)
  OBVIOUS
<1> QED
  BY DEF QInit, QInv, QTypeOK, NoLostWakeup, NoSleepAfterShutdown

\* In every behaviour of the queue: the types are right.
THEOREM QTypeCorrect == QSpec => []QTypeOK
<1>1. QInv => QTypeOK
  BY DEF QInv
<1> QED
  BY <1>1, QInvInit, QInvStep, PTL DEF QSpec

\* In every behaviour of the queue, for any number of consumers and producers,
\* no element waits for a consumer that nobody wakes.
THEOREM NoWakeupIsLost == QSpec => []NoLostWakeup
<1>1. QInv => NoLostWakeup
  BY DEF QInv
<1> QED
  BY <1>1, QInvInit, QInvStep, PTL DEF QSpec

\* In every behaviour of the queue nobody sleeps once Cancel has been called.
THEOREM CancelWakesAll == QSpec => []NoSleepAfterShutdown
<1>1. QInv => NoSleepAfterShutdown
  BY DEF QInv
<1> QED
  BY <1>1, QInvInit, QInvStep, PTL DEF QSpec
=============================================================================
