------------------------ MODULE CallbackProcessorProofs ------------------------
(***************************************************************************)
(* Proofs about CallbackProcessor, for any set of entries and any bound on *)
(* the chains: the inductive invariant CallbackInv and what follows from   *)
(* it.                                                                     *)
(***************************************************************************)
EXTENDS CallbackProcessor, SequenceTheorems, TLAPS

(***************************************************************************)
(* Sequences without repetition, and their elements.                       *)
(***************************************************************************)

\* The elements of s \o t are those of s and those of t.
LEMMA ToSetConcat ==
    ASSUME NEW S, NEW s \in Seq(S), NEW t \in Seq(S)
    PROVE  ToSet(s \o t) = ToSet(s) \cup ToSet(t)
<1>1. ToSet(s) \cup ToSet(t) \subseteq ToSet(s \o t)
  <2>1. ASSUME NEW i \in DOMAIN s PROVE s[i] \in ToSet(s \o t)
    <3>1. i \in DOMAIN (s \o t) /\ (s \o t)[i] = s[i]
      OBVIOUS
    <3> QED BY <3>1 DEF ToSet
  <2>2. ASSUME NEW i \in DOMAIN t PROVE t[i] \in ToSet(s \o t)
    <3>1. Len(s) + i \in DOMAIN (s \o t) /\ (s \o t)[Len(s) + i] = t[i]
      OBVIOUS
    <3> QED BY <3>1 DEF ToSet
  <2> QED BY <2>1, <2>2 DEF ToSet
<1>2. ASSUME NEW i \in DOMAIN (s \o t)
      PROVE  (s \o t)[i] \in ToSet(s) \cup ToSet(t)
  <2>1. CASE i <= Len(s)
    <3>1. i \in DOMAIN s /\ (s \o t)[i] = s[i]
      BY <2>1
    <3> QED BY <3>1 DEF ToSet
  <2>2. CASE i > Len(s)
    <3>1. i - Len(s) \in DOMAIN t /\ (s \o t)[i] = t[i - Len(s)]
      BY <2>2
    <3> QED BY <3>1 DEF ToSet
  <2> QED BY <2>1, <2>2
<1> QED BY <1>1, <1>2 DEF ToSet

\* s \o t has no repetition when neither s nor t has one and they share nothing.
LEMMA InjectiveConcat ==
    ASSUME NEW S, NEW s \in Seq(S), NEW t \in Seq(S),
           IsInjective(s), IsInjective(t), ToSet(s) \cap ToSet(t) = {}
    PROVE  IsInjective(s \o t)
<1> SUFFICES ASSUME NEW i \in DOMAIN (s \o t), NEW j \in DOMAIN (s \o t),
                    (s \o t)[i] = (s \o t)[j]
             PROVE  i = j
  BY DEF IsInjective
<1>1. ASSUME NEW k \in DOMAIN (s \o t)
      PROVE  \/ k \in DOMAIN s /\ (s \o t)[k] = s[k]
             \/ k - Len(s) \in DOMAIN t /\ (s \o t)[k] = t[k - Len(s)]
  OBVIOUS
<1>2. ASSUME NEW a \in DOMAIN s, NEW b \in DOMAIN t PROVE s[a] # t[b]
  BY <1>2 DEF ToSet
<1>3. i \in Int /\ j \in Int /\ Len(s) \in Int
  OBVIOUS
<1>4. CASE i \in DOMAIN s /\ (s \o t)[i] = s[i]
  BY <1>1, <1>2, <1>4 DEF IsInjective
<1>5. CASE i - Len(s) \in DOMAIN t /\ (s \o t)[i] = t[i - Len(s)]
  <2>1. ~(j \in DOMAIN s /\ (s \o t)[j] = s[j])
    BY <1>2, <1>5
  <2>2. j - Len(s) \in DOMAIN t /\ (s \o t)[j] = t[j - Len(s)]
    BY <1>1, <2>1
  <2>3. i - Len(s) = j - Len(s)
    BY <1>5, <2>2 DEF IsInjective
  <2> QED BY <1>3, <2>3
<1> QED BY <1>1, <1>4, <1>5

\* Append adds its element; there is no repetition if it is a new one.
LEMMA AppendFresh ==
    ASSUME NEW S, NEW s \in Seq(S), NEW e \in S
    PROVE  /\ Append(s, e) \in Seq(S)
           /\ ToSet(Append(s, e)) = ToSet(s) \cup {e}
           /\ (IsInjective(s) /\ e \notin ToSet(s)) => IsInjective(Append(s, e))
<1>1. <<e>> \in Seq(S) /\ Append(s, e) = s \o <<e>>
  OBVIOUS
<1>2. ToSet(<<e>>) = {e}
  BY DEF ToSet
<1>3. IsInjective(<<e>>)
  BY DEF IsInjective
<1>4. ToSet(Append(s, e)) = ToSet(s) \cup {e}
  <2>1. ToSet(s \o <<e>>) = ToSet(s) \cup ToSet(<<e>>)
    BY <1>1, ToSetConcat
  <2> QED BY <1>1, <1>2, <2>1, Zenon
<1>5. ASSUME IsInjective(s), e \notin ToSet(s) PROVE IsInjective(Append(s, e))
  <2>1. ToSet(s) \cap ToSet(<<e>>) = {}
    BY <1>2, <1>5
  <2> QED BY <1>1, <1>3, <1>5, <2>1, InjectiveConcat
<1> QED BY <1>1, <1>4, <1>5

\* Tail takes the head, and nothing else, out of a sequence without repetition.
LEMMA TailFresh ==
    ASSUME NEW S, NEW s \in Seq(S), s # <<>>, IsInjective(s)
    PROVE  /\ Tail(s) \in Seq(S)
           /\ Head(s) \in ToSet(s)
           /\ ToSet(Tail(s)) = ToSet(s) \ {Head(s)}
           /\ IsInjective(Tail(s))
<1>1. /\ Tail(s) \in Seq(S)
      /\ Head(s) = s[1] /\ 1 \in DOMAIN s
      /\ \A i \in DOMAIN Tail(s) : i \in Int /\ i + 1 \in DOMAIN s /\ Tail(s)[i] = s[i + 1]
      /\ \A i \in DOMAIN s : i = 1 \/ (i \in Int /\ i - 1 \in DOMAIN Tail(s))
  OBVIOUS
<1>2. ToSet(Tail(s)) \subseteq ToSet(s) \ {Head(s)}
  <2>1. ASSUME NEW i \in DOMAIN Tail(s) PROVE Tail(s)[i] \in ToSet(s) /\ Tail(s)[i] # s[1]
    <3>1. s[i + 1] \in ToSet(s)
      BY <1>1 DEF ToSet
    <3>2. i + 1 # 1
      OBVIOUS
    <3>3. s[i + 1] # s[1]
      BY <1>1, <3>2 DEF IsInjective
    <3> QED BY <1>1, <3>1, <3>3
  <2> QED BY <1>1, <2>1 DEF ToSet
<1>3. ToSet(s) \ {Head(s)} \subseteq ToSet(Tail(s))
  <2>1. ASSUME NEW i \in DOMAIN s, s[i] # s[1] PROVE s[i] \in ToSet(Tail(s))
    <3>1. i - 1 \in DOMAIN Tail(s) /\ Tail(s)[i - 1] = s[i]
      BY <1>1, <2>1
    <3> QED BY <3>1 DEF ToSet
  <2> QED BY <1>1, <2>1 DEF ToSet
<1>4. IsInjective(Tail(s))
  BY <1>1 DEF IsInjective
<1>5. Head(s) \in ToSet(s)
  BY <1>1 DEF ToSet
<1> QED BY <1>1, <1>2, <1>3, <1>4, <1>5

\* The empty sequence has no elements, and none twice.
LEMMA EmptyFresh ==
    ASSUME NEW S
    PROVE  <<>> \in Seq(S) /\ ToSet(<<>>) = {} /\ IsInjective(<<>>)
<1>1. <<>> \in Seq(S) /\ DOMAIN <<>> = {}
  OBVIOUS
<1> QED BY <1>1 DEF ToSet, IsInjective

-----------------------------------------------------------------------------
(***************************************************************************)
(* The inductive invariant.                                                *)
(***************************************************************************)

EntriesTypeOK ==
    /\ kind \in [Entries -> Kinds \cup {"none"}]
    /\ prep \in [Entries -> BOOLEAN]
    /\ chain \in [Entries -> Seq(BOOLEAN)]
    /\ fut \in [Entries -> {"none", "pending", "ready", "broken"}]
    /\ executed \in [Entries -> Nat]
    /\ invoked \in [Entries -> Nat]

QueuesTypeOK ==
    /\ callbacks \in Seq(Entries)
    /\ batch \in Seq(Entries)
    /\ kept \in Seq(Entries)
    /\ pc \in {"idle", "poll", "function"}

\* _callbacks, and the two parts of updateCallbacks, hold nothing twice between
\* them; nothing is held that is complete or destroyed, and nothing is missing.
Places ==
    /\ IsInjective(callbacks) /\ IsInjective(kept) /\ IsInjective(batch)
    /\ ToSet(callbacks) \cap ToSet(kept) = {}
    /\ ToSet(callbacks) \cap ToSet(batch) = {}
    /\ ToSet(kept) \cap ToSet(batch) = {}
    /\ Added = ToSet(callbacks) \cup ToSet(kept) \cup ToSet(batch) \cup gone \cup lost
    /\ (ToSet(callbacks) \cup ToSet(kept) \cup ToSet(batch)) \cap (gone \cup lost) = {}
    /\ gone \cap lost = {}

\* updateCallbacks lives as long as the poll; a function runs for an entry of it.
PollShape == /\ pc = "idle" => batch = <<>> /\ kept = <<>>
             /\ pc = "function" => batch # <<>>

\* Destroyed entries and broken futures come of broken promises.
BrokenNeeds == /\ lost # {} => broke
               /\ \A e \in Entries : fut[e] = "broken" => broke

\* A value that waits in the future was not given to a function yet.
Owed(e) == IF fut[e] = "ready" THEN 1 ELSE 0

Counted == \A e \in Entries : kind[e] # "holder" => invoked[e] + Owed(e) <= executed[e]

\* The first function of a query's chain is of the type of the query.
ChainFits == \A e \in Entries :
                kind[e] = "query" => Len(chain[e]) > 0 /\ chain[e][1] = prep[e]

\* A next query without a function after the running one is a misuse.
NextFits == \A e \in Entries :
               (Runs(e) /\ kind[e] = "query" /\ fut[e] # "none" /\ Len(chain[e]) < 2)
                  => misused

CallbackInv == /\ EntriesTypeOK /\ QueuesTypeOK
               /\ Places /\ PollShape /\ BrokenNeeds
               /\ Counted /\ ChainFits /\ NextFits
               /\ AbortNeedsMisuse

\* The initial state satisfies the invariant.
LEMMA CallbackInitially == CInit => CallbackInv
<1> SUFFICES ASSUME CInit PROVE CallbackInv
  OBVIOUS
<1>1. EntriesTypeOK
  BY EmptySeq DEF CInit, EntriesTypeOK
<1>2. QueuesTypeOK
  BY DEF CInit, QueuesTypeOK
<1>3. Places
  <2>1. Added = {}
    BY DEF CInit, Added
  <2> QED BY <2>1, EmptyFresh DEF CInit, Places
<1>4. PollShape /\ BrokenNeeds /\ Counted /\ ChainFits /\ NextFits /\ AbortNeedsMisuse
  BY DEF CInit, PollShape, BrokenNeeds, Counted, Owed, ChainFits, NextFits, Runs,
         AbortNeedsMisuse
<1> QED BY <1>1, <1>2, <1>3, <1>4 DEF CallbackInv

\* A step of entry e.
EntryStep(e) ==
    \/ NotReady(e) \/ Invoke(e) \/ InvokeHolder(e) \/ GetThrows(e)
    \/ ReturnOther(e) \/ ReturnDone(e) \/ ReturnNext(e) \/ ReturnAborts(e)
    \/ AddCallback(e) \/ Resolve(e) \/ Break(e)
    \/ WithChainingCallback(e) \/ SetNextQuery(e)

\* Every step is the start or the end of a poll, a step of one entry, or none.
LEMMA CallbackSteps ==
    ASSUME [CNext]_vars
    PROVE  \/ ~died /\ (BeginPoll \/ EndPoll \/ \E e \in Entries : EntryStep(e))
           \/ UNCHANGED vars
BY DEF CNext, PollStep, ClientStep, Rest, EntryStep

\* The functions of a chain are of two types.
LEMMA ChainTypes ==
    ASSUME NEW ch \in Chains
    PROVE  ch \in Seq(BOOLEAN) /\ Len(ch) > 0 /\ Head(ch) = ch[1] /\ Head(ch) \in BOOLEAN
<1>1. PICK n \in 1..MaxChain : ch \in [1..n -> BOOLEAN]
  BY DEF Chains
<1>2. n \in Nat /\ n > 0
  BY CallbackAssumption
<1>3. ch \in Seq(BOOLEAN) /\ Len(ch) = n
  BY <1>1, <1>2
<1>4. ch[1] \in BOOLEAN
  BY <1>1, <1>2
<1> QED BY <1>2, <1>3, <1>4

-----------------------------------------------------------------------------
(***************************************************************************)
(* Each part of the invariant is preserved.                                *)
(***************************************************************************)

\* A step keeps the types of what an entry is made of.
LEMMA EntriesTypeStep ==
    ASSUME EntriesTypeOK, [CNext]_vars
    PROVE  EntriesTypeOK'
<1> USE DEF EntriesTypeOK
<1>1. CASE UNCHANGED vars
  BY <1>1 DEF vars, evars, hvars
<1>2. CASE BeginPoll \/ EndPoll
  BY <1>2 DEF BeginPoll, EndPoll, evars, hvars
<1>3. ASSUME NEW e \in Entries, EntryStep(e) PROVE EntriesTypeOK'
  <2>1. CASE NotReady(e) \/ GetThrows(e)
    BY <2>1 DEF NotReady, GetThrows, evars, hvars
  <2>2. CASE Invoke(e) \/ InvokeHolder(e)
    <3>1. invoked' = [invoked EXCEPT ![e] = invoked[e] + 1] /\ invoked[e] + 1 \in Nat
      BY <2>2 DEF Invoke, InvokeHolder, Call
    <3>2. invoked' \in [Entries -> Nat]
      BY <3>1, Zenon
    <3>3. UNCHANGED <<kind, prep, chain, executed>>
      BY <2>2 DEF Invoke, InvokeHolder, Call, evars
    <3>4. fut' = fut \/ fut' = [fut EXCEPT ![e] = "none"]
      BY <2>2 DEF Invoke, InvokeHolder
    <3> QED BY <3>2, <3>3, <3>4
  <2>3. CASE ReturnOther(e) \/ ReturnDone(e) \/ ReturnAborts(e)
    BY <2>3 DEF ReturnOther, ReturnDone, ReturnAborts, Complete, evars, hvars
  <2>4. CASE ReturnNext(e)
    <3>1. chain[e] \in Seq(BOOLEAN) /\ Len(chain[e]) > 1
      BY <2>4 DEF ReturnNext
    <3>2. Tail(chain[e]) \in Seq(BOOLEAN)
      BY <3>1
    <3> QED BY <2>4, <3>2, Zenon DEF ReturnNext, hvars
  <2>5. CASE AddCallback(e)
    <3>1. PICK k \in Kinds, ch \in Chains :
             /\ kind' = [kind EXCEPT ![e] = k]
             /\ chain' = [chain EXCEPT ![e] = ch]
             /\ prep' = [prep EXCEPT ![e] = Head(ch)]
      BY <2>5 DEF AddCallback
    <3>2. kind' \in [Entries -> Kinds \cup {"none"}]
      BY <3>1
    <3>3. chain' \in [Entries -> Seq(BOOLEAN)] /\ prep' \in [Entries -> BOOLEAN]
      BY <3>1, ChainTypes, Zenon
    <3> QED BY <2>5, <3>2, <3>3 DEF AddCallback, hvars
  <2>6. CASE Resolve(e) \/ Break(e)
    <3>1. executed[e] + 1 \in Nat
      OBVIOUS
    <3>2. executed' = executed \/ executed' = [executed EXCEPT ![e] = executed[e] + 1]
      BY <2>6 DEF Resolve, Break
    <3>3. executed' \in [Entries -> Nat]
      BY <3>1, <3>2, Zenon
    <3>4. UNCHANGED <<kind, prep, chain, invoked>>
      BY <2>6 DEF Resolve, Break, evars
    <3>5. fut' = [fut EXCEPT ![e] = "ready"] \/ fut' = [fut EXCEPT ![e] = "broken"]
      BY <2>6 DEF Resolve, Break
    <3> QED BY <3>3, <3>4, <3>5
  <2>7. CASE WithChainingCallback(e)
    <3>1. PICK p \in BOOLEAN : chain' = [chain EXCEPT ![e] = Append(@, p)]
      BY <2>7 DEF WithChainingCallback
    <3>2. Append(chain[e], p) \in Seq(BOOLEAN)
      BY AppendProperties
    <3>3. chain' \in [Entries -> Seq(BOOLEAN)]
      BY <3>1, <3>2, Zenon
    <3> QED BY <2>7, <3>3 DEF WithChainingCallback, hvars
  <2>8. CASE SetNextQuery(e)
    BY <2>8 DEF SetNextQuery, evars
  <2> QED BY <1>3, <2>1, <2>2, <2>3, <2>4, <2>5, <2>6, <2>7, <2>8 DEF EntryStep
<1> QED BY <1>1, <1>2, <1>3, CallbackSteps

\* A step moves entries between the processor's vectors so that each one stays
\* in one place; the entry that a function runs for is the first of the batch.
LEMMA PlacesStep ==
    ASSUME EntriesTypeOK, QueuesTypeOK, Places, PollShape, [CNext]_vars
    PROVE  QueuesTypeOK' /\ Places' /\ PollShape'
<1> DEFINE Goal == QueuesTypeOK' /\ Places' /\ PollShape'
<1> USE DEF QueuesTypeOK, PollShape
<1>1. CASE UNCHANGED vars
  BY <1>1 DEF vars, evars, pvars, Places, Added
<1>2. CASE BeginPoll
  <2>1. batch = <<>> /\ kept = <<>> /\ Added' = Added
    BY <1>2 DEF BeginPoll, evars, Added
  <2>2. /\ callbacks' = <<>> /\ batch' = callbacks /\ kept' = kept /\ pc' = "poll"
        /\ gone' = gone /\ lost' = lost
    BY <1>2 DEF BeginPoll
  <2>3. Places'
    BY <2>1, <2>2, EmptyFresh DEF Places
  <2> QED BY <2>1, <2>2, <2>3
<1>3. CASE EndPoll
  <2>1. batch = <<>> /\ Added' = Added
    BY <1>3 DEF EndPoll, evars, Added
  <2>2. /\ callbacks' = callbacks \o kept /\ batch' = batch /\ kept' = <<>>
        /\ pc' = "idle" /\ gone' = gone /\ lost' = lost
    BY <1>3 DEF EndPoll
  <2>3. /\ callbacks \o kept \in Seq(Entries)
        /\ ToSet(callbacks \o kept) = ToSet(callbacks) \cup ToSet(kept)
    BY ToSetConcat
  <2>4. IsInjective(callbacks \o kept)
    BY InjectiveConcat DEF Places
  <2>5. Places'
    BY <2>1, <2>2, <2>3, <2>4, EmptyFresh, Zenon DEF Places
  <2> QED BY <2>1, <2>2, <2>3, <2>5
<1>4. ASSUME NEW e \in Entries, EntryStep(e) PROVE Goal
  <2>1. CASE NotReady(e) \/ ReturnNext(e)
    <3>1. /\ batch # <<>> /\ e = Head(batch) /\ Added' = Added
          /\ kept' = Append(kept, e) /\ batch' = Tail(batch) /\ pc' = "poll"
          /\ callbacks' = callbacks /\ gone' = gone /\ lost' = lost
      BY <2>1 DEF NotReady, ReturnNext, LooksAt, Runs, evars, Added
    <3>2. /\ Tail(batch) \in Seq(Entries) /\ e \in ToSet(batch)
          /\ ToSet(Tail(batch)) = ToSet(batch) \ {e} /\ IsInjective(Tail(batch))
      BY <3>1, TailFresh DEF Places
    <3>3. /\ Append(kept, e) \in Seq(Entries)
          /\ ToSet(Append(kept, e)) = ToSet(kept) \cup {e}
          /\ IsInjective(Append(kept, e))
      BY <3>2, AppendFresh DEF Places
    <3>4. Places'
      BY <3>1, <3>2, <3>3 DEF Places
    <3> QED BY <3>1, <3>2, <3>3, <3>4
  <2>2. CASE Invoke(e) \/ InvokeHolder(e)
    BY <2>2 DEF Invoke, InvokeHolder, Call, LooksAt, evars, Places, Added
  <2>3. CASE GetThrows(e)
    <3>1. /\ Added' = Added /\ batch' = <<>> /\ kept' = <<>> /\ pc' = "idle"
          /\ callbacks' = callbacks /\ gone' = gone
          /\ lost' = lost \cup ToSet(batch) \cup ToSet(kept)
      BY <2>3 DEF GetThrows, evars, Added
    <3>2. Places'
      BY <3>1, EmptyFresh DEF Places
    <3> QED BY <3>1, <3>2
  <2>4. CASE ReturnOther(e) \/ ReturnDone(e)
    <3>1. /\ batch # <<>> /\ e = Head(batch) /\ Added' = Added
          /\ gone' = gone \cup {e} /\ batch' = Tail(batch) /\ pc' = "poll"
          /\ callbacks' = callbacks /\ kept' = kept /\ lost' = lost
      BY <2>4 DEF ReturnOther, ReturnDone, Complete, Runs, Added
    <3>2. /\ Tail(batch) \in Seq(Entries) /\ e \in ToSet(batch)
          /\ ToSet(Tail(batch)) = ToSet(batch) \ {e} /\ IsInjective(Tail(batch))
      BY <3>1, TailFresh DEF Places
    <3>3. Places'
      BY <3>1, <3>2 DEF Places
    <3> QED BY <3>1, <3>2, <3>3
  <2>5. CASE AddCallback(e)
    <3>1. /\ e \notin Added /\ callbacks' = Append(callbacks, e) /\ batch' = batch
          /\ kept' = kept /\ pc' = pc /\ gone' = gone /\ lost' = lost
      BY <2>5 DEF AddCallback, Added
    <3>2. PICK k \in Kinds : kind' = [kind EXCEPT ![e] = k]
      BY <2>5 DEF AddCallback
    <3>3. Added' = Added \cup {e}
      BY <3>2 DEF Added, Kinds, EntriesTypeOK
    <3>4. /\ Append(callbacks, e) \in Seq(Entries)
          /\ ToSet(Append(callbacks, e)) = ToSet(callbacks) \cup {e}
          /\ IsInjective(Append(callbacks, e))
      BY <3>1, AppendFresh DEF Places
    <3>5. Places'
      BY <3>1, <3>3, <3>4 DEF Places
    <3> QED BY <3>1, <3>4, <3>5
  <2>6. CASE \/ Resolve(e) \/ Break(e) \/ WithChainingCallback(e)
             \/ SetNextQuery(e) \/ ReturnAborts(e)
    BY <2>6 DEF Resolve, Break, WithChainingCallback, SetNextQuery, ReturnAborts,
                evars, pvars, Places, Added
  <2> QED BY <1>4, <2>1, <2>2, <2>3, <2>4, <2>5, <2>6 DEF EntryStep
<1> QED BY <1>1, <1>2, <1>3, <1>4, CallbackSteps

\* A future breaks, and an exception destroys entries, when a promise breaks.
LEMMA BrokenStep ==
    ASSUME EntriesTypeOK, BrokenNeeds, [CNext]_vars
    PROVE  BrokenNeeds'
<1> USE DEF EntriesTypeOK, BrokenNeeds
<1>1. CASE UNCHANGED vars \/ BeginPoll \/ EndPoll
  BY <1>1 DEF vars, pvars, hvars, BeginPoll, EndPoll
<1>2. ASSUME NEW e \in Entries, EntryStep(e) PROVE BrokenNeeds'
  <2>1. CASE \/ NotReady(e) \/ InvokeHolder(e) \/ ReturnOther(e) \/ ReturnDone(e)
             \/ ReturnNext(e) \/ ReturnAborts(e) \/ WithChainingCallback(e)
    BY <2>1 DEF NotReady, InvokeHolder, Call, ReturnOther, ReturnDone, ReturnNext,
                ReturnAborts, WithChainingCallback, Complete, pvars, hvars
  <2>2. CASE Invoke(e) \/ AddCallback(e) \/ Resolve(e) \/ SetNextQuery(e)
    <3>1. /\ lost' = lost /\ broke' = broke
          /\ \/ fut' = fut
             \/ \E f \in {"none", "pending", "ready"} : fut' = [fut EXCEPT ![e] = f]
      BY <2>2 DEF Invoke, Call, AddCallback, Resolve, SetNextQuery, pvars, hvars
    <3> QED BY <3>1
  <2>3. CASE GetThrows(e) \/ Break(e)
    BY <2>3 DEF GetThrows, Break, hvars
  <2> QED BY <1>2, <2>1, <2>2, <2>3 DEF EntryStep
<1> QED BY <1>1, <1>2, CallbackSteps

\* A call of a function uses up the value that its operation has left.
LEMMA CountedStep ==
    ASSUME EntriesTypeOK, Counted, [CNext]_vars
    PROVE  Counted'
<1> USE DEF EntriesTypeOK, Counted, Owed
<1>1. CASE UNCHANGED vars \/ BeginPoll \/ EndPoll
  BY <1>1 DEF vars, evars, hvars, BeginPoll, EndPoll
<1>2. ASSUME NEW e \in Entries, EntryStep(e) PROVE Counted'
  <2>1. CASE \/ NotReady(e) \/ GetThrows(e) \/ ReturnOther(e) \/ ReturnDone(e)
             \/ ReturnNext(e) \/ ReturnAborts(e) \/ WithChainingCallback(e)
    BY <2>1 DEF NotReady, GetThrows, ReturnOther, ReturnDone, ReturnNext,
                ReturnAborts, WithChainingCallback, Complete, evars, hvars
  <2>2. CASE Invoke(e)
    BY <2>2 DEF Invoke, Call, evars
  <2>3. CASE InvokeHolder(e)
    BY <2>3 DEF InvokeHolder, Call, evars
  <2>4. CASE AddCallback(e)
    <3>1. /\ kind[e] # "holder" /\ executed' = executed /\ invoked' = invoked
          /\ fut' = [fut EXCEPT ![e] = "pending"]
          /\ \A x \in Entries \ {e} : kind'[x] = kind[x]
      BY <2>4 DEF AddCallback, hvars
    <3> QED BY <3>1
  <2>5. CASE Resolve(e)
    BY <2>5 DEF Resolve, evars
  <2>6. CASE Break(e)
    BY <2>6 DEF Break, evars
  <2>7. CASE SetNextQuery(e)
    <3>1. /\ kind' = kind /\ executed' = executed /\ invoked' = invoked
          /\ fut' = fut \/ fut' = [fut EXCEPT ![e] = "pending"]
      BY <2>7 DEF SetNextQuery, evars
    <3> QED BY <3>1
  <2> QED BY <1>2, <2>1, <2>2, <2>3, <2>4, <2>5, <2>6, <2>7 DEF EntryStep
<1> QED BY <1>1, <1>2, CallbackSteps

\* The first function of a chain keeps the type of the query: functions are
\* attached behind it, and the next one is checked before it becomes the first.
LEMMA ChainFitsStep ==
    ASSUME EntriesTypeOK, ChainFits, [CNext]_vars
    PROVE  ChainFits'
<1> USE DEF EntriesTypeOK, ChainFits
<1>1. CASE UNCHANGED vars \/ BeginPoll \/ EndPoll
  BY <1>1 DEF vars, evars, BeginPoll, EndPoll
<1>2. ASSUME NEW e \in Entries, EntryStep(e) PROVE ChainFits'
  <2>1. CASE \/ NotReady(e) \/ Invoke(e) \/ InvokeHolder(e) \/ GetThrows(e)
             \/ ReturnOther(e) \/ ReturnDone(e) \/ ReturnAborts(e)
             \/ Resolve(e) \/ Break(e) \/ SetNextQuery(e)
    <3>1. UNCHANGED evars
      BY <2>1 DEF NotReady, Invoke, InvokeHolder, Call, GetThrows, ReturnOther,
                  ReturnDone, ReturnAborts, Resolve, Break, SetNextQuery, Complete, evars
    <3> QED BY <3>1, Zenon DEF evars
  <2>2. CASE ReturnNext(e)
    <3>1. /\ chain' = [chain EXCEPT ![e] = Tail(chain[e])]
          /\ kind' = kind /\ prep' = prep
          /\ Len(chain[e]) > 1 /\ prep[e] = chain[e][2] /\ chain[e] \in Seq(BOOLEAN)
      BY <2>2 DEF ReturnNext
    <3>2. Len(Tail(chain[e])) > 0 /\ Tail(chain[e])[1] = chain[e][2]
      BY <3>1
    <3>3. chain'[e] = Tail(chain[e]) /\ \A x \in Entries \ {e} : chain'[x] = chain[x]
      BY <3>1
    <3> QED BY <3>1, <3>2, <3>3, Zenon
  <2>3. CASE AddCallback(e)
    <3>1. PICK ch \in Chains : /\ chain' = [chain EXCEPT ![e] = ch]
                               /\ prep' = [prep EXCEPT ![e] = Head(ch)]
      BY <2>3 DEF AddCallback
    <3>2. chain'[e] = ch /\ prep'[e] = Head(ch)
      BY <3>1, Zenon
    <3>3. Len(chain'[e]) > 0 /\ chain'[e][1] = prep'[e]
      BY <3>2, ChainTypes, Zenon
    <3>4. \A x \in Entries \ {e} : chain'[x] = chain[x] /\ prep'[x] = prep[x]
      BY <3>1, Zenon
    <3>5. \A x \in Entries \ {e} : kind'[x] = kind[x]
      BY <2>3 DEF AddCallback
    <3> QED BY <3>3, <3>4, <3>5, Zenon
  <2>4. CASE WithChainingCallback(e)
    <3>1. PICK p \in BOOLEAN : chain' = [chain EXCEPT ![e] = Append(chain[e], p)]
      BY <2>4 DEF WithChainingCallback
    <3>2. chain[e] \in Seq(BOOLEAN)
      OBVIOUS
    <3>3. kind' = kind /\ prep' = prep
      BY <2>4 DEF WithChainingCallback
    <3>4. ASSUME Len(chain[e]) > 0
          PROVE  Len(Append(chain[e], p)) > 0 /\ Append(chain[e], p)[1] = chain[e][1]
      BY <3>2, <3>4, AppendProperties
    <3>5. chain'[e] = Append(chain[e], p) /\ \A x \in Entries \ {e} : chain'[x] = chain[x]
      BY <3>1, Zenon
    <3> QED BY <3>3, <3>4, <3>5, Zenon
  <2> QED BY <1>2, <2>1, <2>2, <2>3, <2>4 DEF EntryStep
<1> QED BY <1>1, <1>2, CallbackSteps

\* A next query without a function is recorded as a misuse as long as the
\* function runs that has set it.
LEMMA NextFitsStep ==
    ASSUME EntriesTypeOK, QueuesTypeOK, Places, PollShape, NextFits, [CNext]_vars
    PROVE  NextFits'
<1> USE DEF EntriesTypeOK, NextFits, Runs
<1>1. CASE UNCHANGED vars
  BY <1>1 DEF vars, evars, pvars, hvars
<1>2. CASE BeginPoll \/ EndPoll
  BY <1>2 DEF BeginPoll, EndPoll
<1>3. ASSUME NEW e \in Entries, EntryStep(e) PROVE NextFits'
  <2>1. CASE \/ NotReady(e) \/ GetThrows(e) \/ ReturnOther(e) \/ ReturnDone(e)
             \/ ReturnNext(e)
    BY <2>1 DEF NotReady, GetThrows, ReturnOther, ReturnDone, ReturnNext, Complete, LooksAt
  <2>2. CASE Invoke(e)
    <3>1. batch' = batch /\ e = Head(batch) /\ fut'[e] = "none"
      BY <2>2 DEF Invoke, Call, LooksAt
    <3> QED BY <3>1
  <2>3. CASE InvokeHolder(e)
    <3>1. batch' = batch /\ e = Head(batch) /\ kind' = kind /\ kind[e] = "holder"
      BY <2>3 DEF InvokeHolder, Call, LooksAt, evars
    <3> QED BY <3>1
  <2>4. CASE Resolve(e) \/ Break(e)
    <3>1. /\ pc' = pc /\ batch' = batch /\ kind' = kind /\ chain' = chain
          /\ misused' = misused
      BY <2>4 DEF Resolve, Break, pvars, evars
    <3>2. /\ fut[e] # "none"
          /\ \A x \in Entries \ {e} : fut'[x] = fut[x]
      BY <2>4 DEF Resolve, Break
    <3> QED BY <3>1, <3>2, Zenon
  <2>5. CASE WithChainingCallback(e)
    <3>1. fut'[e] = "none" /\ batch' = batch /\ e = Head(batch)
      BY <2>5 DEF WithChainingCallback, pvars
    <3> QED BY <3>1
  <2>6. CASE SetNextQuery(e)
    <3>1. /\ batch' = batch /\ e = Head(batch) /\ chain' = chain
          /\ Len(chain[e]) < 2 => misused'
      BY <2>6 DEF SetNextQuery, pvars, evars
    <3> QED BY <3>1, Zenon
  <2>7. CASE ReturnAborts(e)
    BY <2>7 DEF ReturnAborts, evars, pvars, hvars
  <2>8. CASE AddCallback(e)
    <3>1. /\ pc' = pc /\ batch' = batch /\ misused' = misused /\ e \notin Added
          /\ \A x \in Entries \ {e} :
                kind'[x] = kind[x] /\ chain'[x] = chain[x] /\ fut'[x] = fut[x]
      BY <2>8 DEF AddCallback, hvars, Added
    <3>2. pc = "function" => Head(batch) \in Added
      BY TailFresh DEF QueuesTypeOK, Places, PollShape
    <3>3. pc = "function" => e # Head(batch)
      BY <3>1, <3>2
    <3> QED BY <3>1, <3>3, Zenon
  <2> QED BY <1>3, <2>1, <2>2, <2>3, <2>4, <2>5, <2>6, <2>7, <2>8 DEF EntryStep
<1> QED BY <1>1, <1>2, <1>3, CallbackSteps

\* A chain whose first two functions differ in type is mixed.
LEMMA DifferMixed ==
    ASSUME EntriesTypeOK, NEW e \in Entries, Len(chain[e]) > 1, chain[e][1] # chain[e][2]
    PROVE  Mixed(e)
<1>1. chain[e] \in Seq(BOOLEAN) /\ 1 \in DOMAIN chain[e] /\ 2 \in DOMAIN chain[e]
  BY DEF EntriesTypeOK
<1>2. chain[e][1] \in BOOLEAN /\ chain[e][2] \in BOOLEAN
  BY <1>1
<1>3. chain[e][1] \in ToSet(chain[e]) /\ chain[e][2] \in ToSet(chain[e])
  BY <1>1 DEF ToSet
<1> QED BY <1>2, <1>3, Zenon DEF Mixed

\* The assertions of MoveFrom and of checkStateAndReturnCompletion fail after a
\* misuse, or in a mixed chain.
LEMMA AbortStep ==
    ASSUME EntriesTypeOK, ChainFits, NextFits, AbortNeedsMisuse, [CNext]_vars
    PROVE  AbortNeedsMisuse'
<1>1. CASE UNCHANGED vars
  BY <1>1 DEF vars, evars, hvars, AbortNeedsMisuse, Mixed
<1>2. CASE ~died /\ died' = died
  BY <1>2 DEF AbortNeedsMisuse
<1>3. CASE BeginPoll \/ EndPoll
  BY <1>1, <1>2, <1>3, CallbackSteps DEF BeginPoll, EndPoll
<1>4. ASSUME NEW e \in Entries, EntryStep(e), ~died PROVE AbortNeedsMisuse'
  <2>1. CASE \/ NotReady(e) \/ Invoke(e) \/ InvokeHolder(e) \/ GetThrows(e)
             \/ ReturnOther(e) \/ ReturnDone(e) \/ ReturnNext(e) \/ AddCallback(e)
             \/ Resolve(e) \/ Break(e) \/ WithChainingCallback(e)
    <3>1. died' = died
      BY <2>1 DEF NotReady, Invoke, InvokeHolder, Call, GetThrows, ReturnOther,
                  ReturnDone, ReturnNext, AddCallback, Resolve, Break,
                  WithChainingCallback, Complete
    <3> QED BY <1>2, <1>4, <3>1
  <2>2. CASE SetNextQuery(e)
    <3>1. PICK p \in BOOLEAN :
             /\ misused' = (misused \/ Len(chain[e]) < 2 \/ p # chain[e][2])
             /\ IF p = prep[e] THEN fut' = [fut EXCEPT ![e] = "pending"] /\ UNCHANGED died
                               ELSE died' = TRUE /\ UNCHANGED fut
      BY <2>2 DEF SetNextQuery
    <3>2. CASE p = prep[e]
      BY <1>2, <1>4, <3>1, <3>2, Zenon
    <3>3. CASE p # prep[e] /\ ~misused'
      <4>1. chain[e] \in Seq(BOOLEAN)
        BY DEF EntriesTypeOK
      <4>2. ~(Len(chain[e]) < 2) /\ p = chain[e][2]
        BY <3>1, <3>3, Zenon
      <4>3. Len(chain[e]) > 1
        BY <4>1, <4>2
      <4>4. chain[e][1] = prep[e]
        BY <2>2, Zenon DEF ChainFits, SetNextQuery
      <4>5. Mixed(e)
        BY <3>3, <4>2, <4>3, <4>4, DifferMixed, Zenon
      <4>6. chain' = chain
        BY <2>2 DEF SetNextQuery, evars
      <4> QED BY <4>5, <4>6, Zenon DEF AbortNeedsMisuse, Mixed
    <3>4. CASE misused'
      BY <3>4 DEF AbortNeedsMisuse
    <3> QED BY <3>2, <3>3, <3>4
  <2>3. CASE ReturnAborts(e)
    <3>1. chain[e] \in Seq(BOOLEAN)
      BY DEF EntriesTypeOK
    <3>2. chain[e][1] = prep[e]
      BY <2>3, Zenon DEF ChainFits, ReturnAborts
    <3>3. chain' = chain /\ misused' = misused
      BY <2>3 DEF ReturnAborts, evars, hvars
    <3>4. CASE Len(chain[e]) < 2
      <4>1. misused
        BY <2>3, <3>4, Zenon DEF NextFits, ReturnAborts
      <4> QED BY <3>3, <4>1 DEF AbortNeedsMisuse
    <3>5. CASE Len(chain[e]) > 1
      <4>1. prep[e] # chain[e][2]
        BY <2>3, <3>5, Zenon DEF ReturnAborts
      <4>2. Mixed(e)
        BY <3>2, <3>5, <4>1, DifferMixed, Zenon
      <4> QED BY <3>3, <4>2, Zenon DEF AbortNeedsMisuse, Mixed
    <3> QED BY <3>1, <3>4, <3>5
  <2> QED BY <1>4, <2>1, <2>2, <2>3 DEF EntryStep
<1> QED BY <1>1, <1>3, <1>4, CallbackSteps

-----------------------------------------------------------------------------
(***************************************************************************)
(* The theorems.                                                           *)
(***************************************************************************)

\* CallbackInv holds in every state, whatever clients, functions and workers do.
THEOREM CallbackInvariant == CSpec => []CallbackInv
<1>1. CallbackInv /\ [CNext]_vars => CallbackInv'
  BY EntriesTypeStep, PlacesStep, BrokenStep, CountedStep, ChainFitsStep,
     NextFitsStep, AbortStep DEF CallbackInv
<1> QED BY CallbackInitially, <1>1, PTL DEF CSpec

\* Every entry that was added is in one place: ProcessReadyCallbacks neither
\* loses an entry nor keeps one twice, also when a function adds callbacks to
\* the processor that polls it, and only a broken promise destroys entries.
THEOREM NoEntryForgotten == CSpec => []EntriesAccounted
<1>1. CallbackInv => EntriesAccounted
  <2> SUFFICES ASSUME CallbackInv PROVE EntriesAccounted
    OBVIOUS
  <2>1. QueuesTypeOK /\ Places /\ BrokenNeeds
    BY DEF CallbackInv
  <2>2. callbacks \in Seq(Entries) /\ kept \in Seq(Entries) /\ batch \in Seq(Entries)
    BY <2>1 DEF QueuesTypeOK
  <2>3. /\ callbacks \o kept \in Seq(Entries)
        /\ ToSet(callbacks \o kept) = ToSet(callbacks) \cup ToSet(kept)
    BY <2>2, ToSetConcat
  <2>4. IsInjective(callbacks \o kept)
    BY <2>1, <2>2, InjectiveConcat DEF Places
  <2>5. ToSet(callbacks \o kept) \cap ToSet(batch) = {}
    BY <2>1, <2>3, Zenon DEF Places
  <2>6. ToSet(Held) = ToSet(callbacks) \cup ToSet(kept) \cup ToSet(batch)
    <3>1. PICK s \in Seq(Entries) : s = callbacks \o kept
      BY <2>3, Zenon
    <3>2. ToSet(s \o batch) = ToSet(s) \cup ToSet(batch)
      BY <2>2, ToSetConcat
    <3> QED BY <2>3, <3>1, <3>2, Zenon DEF Held
  <2>7. IsInjective(Held)
    BY <2>1, <2>2, <2>3, <2>4, <2>5, InjectiveConcat, Zenon DEF Places, Held
  <2> QED BY <2>1, <2>6, <2>7 DEF EntriesAccounted, Places, BrokenNeeds
<1> QED BY CallbackInvariant, <1>1, PTL

\* The functions of queries and transactions are called at most once for each
\* operation that was executed, never for one that was dropped.
THEOREM FunctionsNeedResults == CSpec => []InvokedWasExecuted
<1>1. CallbackInv => InvokedWasExecuted
  <2> SUFFICES ASSUME CallbackInv, NEW e \in Entries, kind[e] # "holder"
               PROVE  invoked[e] <= executed[e]
    BY DEF InvokedWasExecuted
  <2>1. invoked[e] \in Nat /\ executed[e] \in Nat /\ Owed(e) \in Nat
    BY DEF CallbackInv, EntriesTypeOK, Owed
  <2>2. invoked[e] + Owed(e) <= executed[e]
    BY DEF CallbackInv, Counted
  <2> QED BY <2>1, <2>2
<1> QED BY CallbackInvariant, <1>1, PTL

\* The assertions of QueryCallback fail only for a caller's misuse, or for a
\* chain with functions of both types.
THEOREM AssertionsNeedMisuse == CSpec => []AbortNeedsMisuse
<1>1. CallbackInv => AbortNeedsMisuse
  BY DEF CallbackInv
<1> QED BY CallbackInvariant, <1>1, PTL
=============================================================================
