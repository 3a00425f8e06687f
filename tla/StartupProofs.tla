----------------------------- MODULE StartupProofs -----------------------------
(***************************************************************************)
(* Proofs about the startup of the server: for any contents of the files,  *)
(* any lists of modules and any sequence of loads and reloads, the options *)
(* are layered as the files say and what the loader reports is what it has *)
(* loaded; the version check refuses no supported server; undefined        *)
(* behaviour has one of the listed causes; and a server that serves is     *)
(* connected to what is written.                                           *)
(*                                                                         *)
(* Texts are taken apart by positions (Nth, Min), so that what a tokenizer *)
(* returns follows from counting.  ConfigInv is the inductive invariant of *)
(* the loads, StartInv that of everything behind them.                     *)
(***************************************************************************)
EXTENDS Startup, FiniteSetTheorems, WellFoundedInduction, TLAPS

\* A set of naturals has a least member.
LEMMA LeastNat ==
    ASSUME NEW T \in SUBSET Nat, T # {}
    PROVE  \E m \in T : \A n \in T : m <= n
<1> DEFINE R == OpToRel(<, Nat)
<1>1. IsWellFoundedOn(R, Nat)
  BY NatLessThanWellFounded
<1>2. \A x, y \in Nat : x < y => <<x, y>> \in R
  BY DEF OpToRel
<1> HIDE DEF R
<1>3. PICK x \in T : \A y \in T : ~(<<y, x>> \in R)
  BY <1>1, WFMin
<1>4. ASSUME NEW n \in T PROVE x <= n
  <2>1. ~(n < x)
    BY <1>2, <1>3
  <2> QED BY <2>1
<1> QED BY <1>4

-----------------------------------------------------------------------------
(***************************************************************************)
(* Positions.                                                              *)
(***************************************************************************)

\* The positions of P up to i.
UpTo(P, i) == {j \in P : j <= i}

\* Min finds the least of a set of positions.
LEMMA MinIs ==
    ASSUME NEW P \in SUBSET Nat, P # {}
    PROVE  Min(P) \in P /\ \A j \in P : Min(P) <= j
<1>1. \E x \in P : \A y \in P : x =< y
  BY LeastNat
<1> QED BY <1>1 DEF Min

\* The positions up to one of them are finitely many.
LEMMA UpToFinite ==
    ASSUME NEW P \in SUBSET Nat, IsFiniteSet(P), NEW i
    PROVE  /\ IsFiniteSet(UpTo(P, i)) /\ Cardinality(UpTo(P, i)) \in Nat
           /\ Cardinality(UpTo(P, i)) <= Cardinality(P)
<1>1. UpTo(P, i) \in SUBSET P
  BY DEF UpTo
<1> QED BY <1>1, FS_Subset, FS_CardinalityType

\* No two positions have the same number.
LEMMA NthIs ==
    ASSUME NEW P \in SUBSET Nat, IsFiniteSet(P), NEW i \in P, NEW k,
           Cardinality(UpTo(P, i)) = k
    PROVE  Nth(P, k) = i
<1>1. ASSUME NEW m \in P, Cardinality(UpTo(P, m)) = k PROVE m = i
  <2>1. ASSUME NEW a \in P, NEW b \in P, a < b,
               Cardinality(UpTo(P, a)) = Cardinality(UpTo(P, b))
        PROVE  FALSE
    <3>a. \A j \in P : j \in Nat
      OBVIOUS
    <3>1. UpTo(P, a) \in SUBSET UpTo(P, b) /\ b \in UpTo(P, b) /\ b \notin UpTo(P, a)
      <4>1. \A j \in P : j <= a => j <= b
        BY <2>1, <3>a
      <4>2. b <= b /\ ~(b <= a)
        BY <2>1, <3>a
      <4> QED BY <2>1, <4>1, <4>2, Zenon DEF UpTo
    <3>2. UpTo(P, a) = UpTo(P, b)
      BY <2>1, <3>1, UpToFinite, FS_Subset
    <3> QED BY <3>1, <3>2
  <2>2. m < i \/ i < m \/ m = i
    OBVIOUS
  <2> QED BY <1>1, <2>1, <2>2
<1>2. Nth(P, k) = CHOOSE m \in P : Cardinality(UpTo(P, m)) = k
  BY DEF Nth, UpTo
<1> QED BY <1>1, <1>2

\* There is a k-th position for every k up to the number of positions.
LEMMA NthIn ==
    ASSUME NEW P \in SUBSET Nat, IsFiniteSet(P), NEW k \in 1..Cardinality(P)
    PROVE  Nth(P, k) \in P /\ Cardinality(UpTo(P, Nth(P, k))) = k
<1> DEFINE Has(n) == \E i \in P : Cardinality(UpTo(P, i)) = n
           Bad == {n \in 1..Cardinality(P) : ~Has(n)}
<1>0. Cardinality(P) \in Nat
  BY FS_CardinalityType
<1>1. Bad = {}
  <2> SUFFICES ASSUME Bad # {} PROVE FALSE
    OBVIOUS
  <2>1. Bad \in SUBSET Nat
    BY <1>0
  <2>2. PICK n \in Bad : \A m \in Bad : n <= m
    BY <2>1, LeastNat
  <2>3. n \in Nat /\ n >= 1 /\ n <= Cardinality(P) /\ ~Has(n)
    BY <1>0, <2>2
  <2>4. CASE n = 1
    <3>1. P # {}
      BY <2>3, <2>4, FS_EmptySet
    <3>2. PICK i \in P : \A j \in P : i <= j
      BY <3>1, LeastNat
    <3>3. UpTo(P, i) = {i}
      <4>1. \A j \in P : j <= i <=> j = i
        BY <3>2
      <4> QED BY <4>1, Zenon DEF UpTo
    <3> QED BY <2>3, <2>4, <3>3, FS_Singleton
  <2>5. CASE n # 1
    <3>1. n - 1 \in 1..Cardinality(P) /\ n - 1 \notin Bad
      BY <1>0, <2>2, <2>3, <2>5
    <3>2. PICK i \in P : Cardinality(UpTo(P, i)) = n - 1
      BY <3>1
    <3> DEFINE Above == {j \in P : i < j}
    <3>3. Above # {}
      <4> SUFFICES ASSUME Above = {} PROVE FALSE
        OBVIOUS
      <4>0. \A j \in P : ~(i < j)
        OBVIOUS
      <4>1. UpTo(P, i) = P
        <5>1. \A j \in P : j <= i
          BY <4>0
        <5> QED BY <5>1, Zenon DEF UpTo
      <4> QED BY <2>3, <3>2, <4>1
    <3>4. PICK m \in Above : \A j \in Above : m <= j
      <4>1. Above \in SUBSET Nat
        OBVIOUS
      <4> QED BY <3>3, <4>1, LeastNat
    <3>5. UpTo(P, m) = UpTo(P, i) \cup {m} /\ m \notin UpTo(P, i)
      <4>1. m \in P /\ i < m /\ \A j \in P : i < j => m <= j
        BY <3>4
      <4>2. \A j \in P : j <= m <=> j <= i \/ j = m
        BY <4>1
      <4>3. ~(m <= i)
        BY <4>1
      <4> QED BY <4>1, <4>2, <4>3, Zenon DEF UpTo
    <3>6. Cardinality(UpTo(P, m)) = n - 1 + 1
      <4>1. IsFiniteSet(UpTo(P, i))
        BY UpToFinite
      <4> QED BY <3>2, <3>5, <4>1, FS_AddElement
    <3> QED BY <2>3, <3>4, <3>6
  <2> QED BY <2>4, <2>5
<1>2. PICK i \in P : Cardinality(UpTo(P, i)) = k
  BY <1>1
<1> QED BY <1>2, NthIs

\* The positions of a sequence with a property are finitely many.
LEMMA PositionsFinite ==
    ASSUME NEW X, NEW s \in Seq(X), NEW P \in SUBSET DOMAIN s
    PROVE  P \in SUBSET Nat /\ IsFiniteSet(P) /\ Cardinality(P) \in Nat
<1>1. Len(s) \in Nat /\ DOMAIN s = 1..Len(s)
  OBVIOUS
<1>2. IsFiniteSet(1..Len(s))
  BY <1>1, FS_Interval
<1> QED BY <1>1, <1>2, FS_Subset, FS_CardinalityType

-----------------------------------------------------------------------------
(***************************************************************************)
(* Texts.                                                                  *)
(***************************************************************************)

\* s begins with p.
Starts(s, p) == Len(p) <= Len(s) /\ \A i \in DOMAIN p : p[i] = s[i]

\* What FirstOf finds.
LEMMA FirstOfIs ==
    ASSUME NEW X, NEW s \in Seq(X), NEW x
    PROVE  /\ FirstOf(s, x) \in 1..(Len(s) + 1)
           /\ FirstOf(s, x) \in DOMAIN s => s[FirstOf(s, x)] = x
           /\ \A j \in 1..(FirstOf(s, x) - 1) : s[j] # x
<1> DEFINE P == {Len(s) + 1} \cup {i \in DOMAIN s : s[i] = x}
<1>1. Len(s) \in Nat /\ DOMAIN s = 1..Len(s)
  OBVIOUS
<1>2. P \in SUBSET Nat /\ P # {}
  BY <1>1
<1>3. FirstOf(s, x) \in P /\ \A j \in P : FirstOf(s, x) <= j
  BY <1>2, MinIs DEF FirstOf
<1>4. FirstOf(s, x) \in 1..(Len(s) + 1) /\ (FirstOf(s, x) \in DOMAIN s => s[FirstOf(s, x)] = x)
  BY <1>1, <1>3
<1>5. ASSUME NEW j \in 1..(FirstOf(s, x) - 1) PROVE s[j] # x
  <2>1. j \in DOMAIN s /\ ~(FirstOf(s, x) <= j)
    BY <1>1, <1>4
  <2> QED BY <1>3, <2>1
<1> QED BY <1>4, <1>5

\* There is one such position.
LEMMA FirstOfOnly ==
    ASSUME NEW X, NEW s \in Seq(X), NEW x, NEW i \in 1..(Len(s) + 1),
           i \in DOMAIN s => s[i] = x, \A j \in 1..(i - 1) : s[j] # x
    PROVE  FirstOf(s, x) = i
<1>1. Len(s) \in Nat /\ DOMAIN s = 1..Len(s)
  OBVIOUS
<1>2. PICK f \in 1..(Len(s) + 1) : /\ f = FirstOf(s, x) /\ (f \in DOMAIN s => s[f] = x)
                                   /\ \A j \in 1..(f - 1) : s[j] # x
  BY FirstOfIs
<1>3. ~(f < i) /\ ~(i < f)
  BY <1>1, <1>2
<1> QED BY <1>1, <1>2, <1>3

\* The text in front of the first x and the one behind it.
LEMMA BeforeAfter ==
    ASSUME NEW X, NEW s \in Seq(X), NEW x
    PROVE  /\ Before(s, x) \in Seq(X) /\ Len(Before(s, x)) = FirstOf(s, x) - 1
           /\ \A i \in 1..(FirstOf(s, x) - 1) : i \in DOMAIN s /\ Before(s, x)[i] = s[i]
           /\ After(s, x) \in Seq(X)
           /\ Len(After(s, x)) = IF FirstOf(s, x) > Len(s) THEN 0 ELSE Len(s) - FirstOf(s, x)
           /\ \A i \in DOMAIN After(s, x) :
                 FirstOf(s, x) + i \in DOMAIN s /\ After(s, x)[i] = s[FirstOf(s, x) + i]
<1>1. PICK f \in 1..(Len(s) + 1) : f = FirstOf(s, x)
  BY FirstOfIs
<1>2. /\ SubSeq(s, 1, f - 1) \in Seq(X) /\ Len(SubSeq(s, 1, f - 1)) = f - 1
      /\ \A i \in 1..(f - 1) : i \in DOMAIN s /\ SubSeq(s, 1, f - 1)[i] = s[i]
  OBVIOUS
<1>3. /\ SubSeq(s, f + 1, Len(s)) \in Seq(X)
      /\ Len(SubSeq(s, f + 1, Len(s))) = IF f > Len(s) THEN 0 ELSE Len(s) - f
      /\ \A i \in DOMAIN SubSeq(s, f + 1, Len(s)) :
            f + i \in DOMAIN s /\ SubSeq(s, f + 1, Len(s))[i] = s[f + i]
  OBVIOUS
<1> QED BY <1>1, <1>2, <1>3 DEF Before, After

\* What is found in the beginning of a text is found in the text.
LEMMA StartsFirst ==
    ASSUME NEW X, NEW s \in Seq(X), NEW p \in Seq(X), Starts(s, p), NEW x,
           FirstOf(p, x) <= Len(p)
    PROVE  /\ FirstOf(s, x) = FirstOf(p, x)
           /\ Before(s, x) = Before(p, x)
           /\ Starts(After(s, x), After(p, x))
<1>1. PICK f \in 1..(Len(p) + 1) : /\ f = FirstOf(p, x) /\ (f \in DOMAIN p => p[f] = x)
                                   /\ \A j \in 1..(f - 1) : p[j] # x
  BY FirstOfIs
<1>2. /\ f \in DOMAIN p /\ f \in DOMAIN s /\ Len(p) <= Len(s) /\ f \in 1..(Len(s) + 1) /\ f <= Len(p)
      /\ \A i \in DOMAIN p : p[i] = s[i]
  BY <1>1 DEF Starts
<1>3. \A j \in 1..(f - 1) : j \in DOMAIN p /\ s[j] # x
  BY <1>1, <1>2
<1>4. FirstOf(s, x) = f
  BY <1>1, <1>2, <1>3, FirstOfOnly
<1>5. Before(s, x) = Before(p, x)
  <2>1. \A i \in 1..(f - 1) : Before(s, x)[i] = Before(p, x)[i]
    BY <1>1, <1>2, <1>3, <1>4, BeforeAfter
  <2>2. /\ Before(s, x) \in Seq(X) /\ Len(Before(s, x)) = f - 1
        /\ Before(p, x) \in Seq(X) /\ Len(Before(p, x)) = f - 1
    BY <1>1, <1>4, BeforeAfter
  <2> QED BY <1>1, <2>1, <2>2
<1>6. Starts(After(s, x), After(p, x))
  <2>1. /\ After(p, x) \in Seq(X) /\ Len(After(p, x)) = Len(p) - f
        /\ Len(After(s, x)) = Len(s) - f /\ After(s, x) \in Seq(X)
    BY <1>1, <1>2, <1>4, BeforeAfter
  <2>2. ASSUME NEW i \in DOMAIN After(p, x) PROVE After(p, x)[i] = After(s, x)[i]
    <3>1. i \in DOMAIN After(s, x)
      BY <1>2, <2>1
    <3>2. f + i \in DOMAIN p /\ After(p, x)[i] = p[f + i] /\ After(s, x)[i] = s[f + i]
      BY <1>1, <1>4, <3>1, BeforeAfter
    <3> QED BY <1>2, <3>2
  <2>3. Len(After(p, x)) <= Len(After(s, x))
    BY <1>2, <2>1
  <2> QED BY <2>2, <2>3 DEF Starts
<1> QED BY <1>1, <1>4, <1>5, <1>6

\* What Without keeps.
LEMMA WithoutIs ==
    ASSUME NEW X, NEW s \in Seq(X), NEW x
    PROVE  /\ Without(s, x) \in Seq(X)
           /\ \A i \in DOMAIN s : s[i] # x => s[i] \in ToSet(Without(s, x))
<1> DEFINE P == {i \in DOMAIN s : s[i] # x}
<1>1. P \in SUBSET Nat /\ IsFiniteSet(P) /\ Cardinality(P) \in Nat
  BY PositionsFinite
<1>2. Without(s, x) = [k \in 1..Cardinality(P) |-> s[Nth(P, k)]]
  BY DEF Without
<1>3. \A k \in 1..Cardinality(P) : s[Nth(P, k)] \in X
  BY <1>1, NthIn
<1>4. Without(s, x) \in Seq(X)
  BY <1>1, <1>2, <1>3
<1>5. ASSUME NEW i \in DOMAIN s, s[i] # x PROVE s[i] \in ToSet(Without(s, x))
  <2> DEFINE k == Cardinality(UpTo(P, i))
  <2>1. i \in P
    BY <1>5
  <2>2. k \in Nat /\ k <= Cardinality(P)
    BY <1>1, UpToFinite
  <2>3. k # 0
    <3>1. i \in UpTo(P, i)
      BY <1>1, <2>1 DEF UpTo
    <3> QED BY <1>1, <3>1, UpToFinite, FS_EmptySet
  <2>4. Nth(P, k) = i
    BY <1>1, <2>1, NthIs
  <2>5. k \in 1..Cardinality(P)
    BY <1>1, <2>2, <2>3
  <2> HIDE DEF k, P
  <2>6. k \in DOMAIN Without(s, x) /\ Without(s, x)[k] = s[i]
    BY <1>2, <2>4, <2>5
  <2> QED BY <2>6 DEF ToSet
<1> QED BY <1>4, <1>5

\* Without keeps of the beginning of a text the beginning of what it keeps.
LEMMA WithoutStarts ==
    ASSUME NEW X, NEW s \in Seq(X), NEW p \in Seq(X), Starts(s, p), NEW x
    PROVE  Starts(Without(s, x), Without(p, x))
<1> DEFINE P == {i \in DOMAIN s : s[i] # x}
           Q == {i \in DOMAIN p : p[i] # x}
<1>1. P \in SUBSET Nat /\ IsFiniteSet(P) /\ Cardinality(P) \in Nat
  BY PositionsFinite
<1>2. Q \in SUBSET Nat /\ IsFiniteSet(Q) /\ Cardinality(Q) \in Nat
  BY PositionsFinite
<1>3. Without(s, x) = [k \in 1..Cardinality(P) |-> s[Nth(P, k)]]
  BY DEF Without
<1>4. Without(p, x) = [k \in 1..Cardinality(Q) |-> p[Nth(Q, k)]]
  BY DEF Without
<1>5. DOMAIN p \subseteq DOMAIN s /\ DOMAIN p = 1..Len(p) /\ Len(p) \in Nat /\ \A i \in DOMAIN p : p[i] = s[i]
  BY DEF Starts
<1>6. Q \in SUBSET P /\ Cardinality(Q) <= Cardinality(P)
  <2>1. Q \in SUBSET P
    BY <1>5
  <2> QED BY <1>1, <2>1, FS_Subset
<1>7. ASSUME NEW k \in 1..Cardinality(Q) PROVE Without(p, x)[k] = Without(s, x)[k]
  <2>1. Nth(Q, k) \in Q /\ Cardinality(UpTo(Q, Nth(Q, k))) = k
    BY <1>2, NthIn
  <2>2. PICK i \in Q : i = Nth(Q, k)
    BY <2>1
  <2>3. i \in DOMAIN p /\ i \in Nat /\ i <= Len(p)
    BY <1>5
  <2>4. \A j \in P : j <= i => j \in DOMAIN p /\ p[j] = s[j]
    BY <1>1, <1>5, <2>3
  <2>5. UpTo(P, i) = UpTo(Q, i)
    BY <1>6, <2>4 DEF UpTo
  <2>6. Nth(P, k) = i
    BY <1>1, <1>6, <2>1, <2>2, <2>5, NthIs
  <2>7. k \in 1..Cardinality(P)
    BY <1>1, <1>2, <1>6
  <2> HIDE DEF P, Q
  <2> QED BY <1>3, <1>4, <1>5, <2>2, <2>3, <2>6, <2>7
<1> HIDE DEF P, Q
<1>8. Len(Without(p, x)) = Cardinality(Q) /\ Len(Without(s, x)) = Cardinality(P)
      /\ DOMAIN Without(p, x) = 1..Cardinality(Q)
  BY <1>1, <1>2, <1>3, <1>4
<1> QED BY <1>6, <1>7, <1>8 DEF Starts

\* The n - 1 lexemes behind position m.
LEMMA SubSeqIs ==
    ASSUME NEW X, NEW s \in Seq(X), NEW m \in Nat, NEW n \in Nat \ {0}, m + n - 1 <= Len(s)
    PROVE  /\ SubSeq(s, m + 1, m + n - 1) \in Seq(X) /\ Len(SubSeq(s, m + 1, m + n - 1)) = n - 1
           /\ \A i \in 1..(n - 1) : SubSeq(s, m + 1, m + n - 1)[i] = s[m + i]
<1>1. Len(SubSeq(s, m + 1, m + n - 1)) = n - 1 /\ SubSeq(s, m + 1, m + n - 1) \in Seq(X)
  OBVIOUS
<1>2. ASSUME NEW i \in 1..(n - 1) PROVE SubSeq(s, m + 1, m + n - 1)[i] = s[m + i]
  OBVIOUS
<1> QED BY <1>1, <1>2

\* A text that begins with another one and is not longer is the same.
LEMMA StartsSame ==
    ASSUME NEW X, NEW s \in Seq(X), NEW p \in Seq(X), Starts(s, p), Len(p) = Len(s)
    PROVE  p = s
  BY DEF Starts

\* The first part of a text.
LEMMA StartsSub ==
    ASSUME NEW X, NEW s \in Seq(X), NEW m \in 1..(Len(s) + 1), NEW n \in 1..m
    PROVE  /\ SubSeq(s, 1, n - 1) \in Seq(X) /\ Len(SubSeq(s, 1, n - 1)) = n - 1
           /\ \A i \in 1..(n - 1) : SubSeq(s, 1, n - 1)[i] = s[i]
           /\ Starts(SubSeq(s, 1, m - 1), SubSeq(s, 1, n - 1))
  BY DEF Starts

\* What the parser takes from a line is the beginning of what its writer means,
\* and all of it unless that has a '#' in it.
LEMMA LineValue ==
    ASSUME NEW X, NEW line \in Seq(X), IsOption(line), NEW w,
           w = Without(After(Meant(line), "="), "quote")
    PROVE  /\ ValueOf(line) \in Seq(X) /\ w \in Seq(X)
           /\ Starts(w, ValueOf(line))
           /\ "#" \notin ToSet(w) => ValueOf(line) = w
<1> DEFINE hash == {i \in DOMAIN line :
                      line[i] = "#" /\ ~(Cardinality({j \in 1..(i - 1) : line[j] = "quote"}) % 2 = 1)}
           H == {Len(line) + 1} \cup hash
           U == Uncommented(line)
           M == Meant(line)
<1>1. Len(line) \in Nat /\ DOMAIN line = 1..Len(line)
  OBVIOUS
<1>2. PICK p \in 1..(Len(line) + 1) : /\ p = FirstOf(line, "#")
                                      /\ p \in DOMAIN line => line[p] = "#"
                                      /\ \A j \in 1..(p - 1) : line[j] # "#"
  BY FirstOfIs
<1>3. PICK q \in H : q = Min(H)
  <2>1. H \in SUBSET Nat /\ H # {}
    BY <1>1
  <2> QED BY <2>1, MinIs
<1>4. q \in 1..(Len(line) + 1) /\ (q \in DOMAIN line => line[q] = "#")
  BY <1>1, <1>3
<1>5. p \in 1..q
  BY <1>1, <1>2, <1>4
<1>6. U = SubSeq(line, 1, p - 1) /\ M = SubSeq(line, 1, q - 1)
  <2>1. U = SubSeq(line, 1, p - 1)
    BY <1>2 DEF Uncommented, Before
  <2>2. M = SubSeq(line, 1, Min(H) - 1)
    BY DEF Meant
  <2> QED BY <1>3, <2>1, <2>2
<1> HIDE DEF hash, H, U, M
<1>7. /\ U \in Seq(X) /\ Len(U) = p - 1 /\ Starts(M, U)
      /\ M \in Seq(X) /\ Len(M) = q - 1 /\ \A i \in 1..(q - 1) : M[i] = line[i]
  <2>1. q \in 1..q
    BY <1>4
  <2> QED BY <1>4, <1>5, <1>6, <2>1, StartsSub
<1>8. FirstOf(U, "=") <= Len(U)
  <2>1. PICK i \in DOMAIN U : U[i] = "="
    BY DEF IsOption, ToSet, U
  <2>2. PICK f \in 1..(Len(U) + 1) : f = FirstOf(U, "=") /\ \A j \in 1..(f - 1) : U[j] # "="
    BY <1>7, FirstOfIs
  <2> QED BY <1>7, <2>1, <2>2
<1>9. FirstOf(M, "=") = FirstOf(U, "=") /\ Starts(After(M, "="), After(U, "="))
  BY <1>7, <1>8, StartsFirst
<1>10. After(M, "=") \in Seq(X) /\ After(U, "=") \in Seq(X)
  BY <1>7, BeforeAfter
<1>11. ValueOf(line) = Without(After(U, "="), "quote") /\ w = Without(After(M, "="), "quote")
  BY DEF ValueOf, U, M
<1>12. ValueOf(line) \in Seq(X) /\ w \in Seq(X) /\ Starts(w, ValueOf(line))
  BY <1>9, <1>10, <1>11, WithoutIs, WithoutStarts
<1>13. ASSUME ValueOf(line) # w PROVE "#" \in ToSet(w)
  <2>1. p # q
    BY <1>6, <1>11, <1>13
  <2>2. PICK e \in 1..(Len(M) + 1) : e = FirstOf(M, "=")
    BY <1>7, FirstOfIs
  <2>3. e < p /\ p \in 1..(q - 1) /\ e \in Nat
    BY <1>2, <1>4, <1>5, <1>7, <1>8, <1>9, <2>1, <2>2
  <2>4. line[p] = "#" /\ M[p] = "#"
    BY <1>1, <1>2, <1>4, <1>7, <2>3
  <2>5. Len(After(M, "=")) = q - 1 - e
    <3>1. Len(After(M, "=")) = IF e > Len(M) THEN 0 ELSE Len(M) - e
      BY <1>7, <2>2, BeforeAfter
    <3> QED BY <1>4, <1>7, <2>3, <3>1
  <2>6. p - e \in DOMAIN After(M, "=")
    BY <1>4, <1>10, <2>3, <2>5
  <2>7. After(M, "=")[p - e] = M[e + (p - e)]
    <3>1. \A i \in DOMAIN After(M, "=") : After(M, "=")[i] = M[FirstOf(M, "=") + i]
      BY <1>7, BeforeAfter
    <3> QED BY <2>2, <2>6, <3>1
  <2>8. e + (p - e) = p
    BY <2>3
  <2>9. After(M, "=")[p - e] = "#" /\ "#" # "quote"
    BY <2>4, <2>7, <2>8
  <2> QED BY <1>10, <1>11, <2>6, <2>9, WithoutIs
<1> QED BY <1>12, <1>13

\* How often x is in s.
Occurs(s, x) == Cardinality({i \in DOMAIN s : s[i] = x})

\* The parts of an info that Open looks at, as Tokenize finds them.
LEMMA TokenizeIs ==
    ASSUME NEW X, NEW s \in Seq(X), NEW x, NEW n,
           n = Occurs(s, x)
    PROVE  /\ n \in Nat /\ Len(Tokenize(s, x, TRUE)) = n + 1
           /\ n > 0 => /\ Tokenize(s, x, TRUE)[1] = Before(s, x)
                       /\ Tokenize(s, x, TRUE)[2] = Before(After(s, x), x)
<1> DEFINE S == {i \in DOMAIN s : s[i] = x}
           P == {0, Len(s) + 1} \cup S
           T == [k \in 1..(Cardinality(P) - 1) |-> SubSeq(s, Nth(P, k) + 1, Nth(P, k + 1) - 1)]
<1>0. n = Cardinality(S)
  BY DEF Occurs
<1>1. Len(s) \in Nat /\ DOMAIN s = 1..Len(s)
  OBVIOUS
<1>2. S \in SUBSET Nat /\ IsFiniteSet(S) /\ n \in Nat
  BY <1>0, PositionsFinite
<1>3. IsFiniteSet(P) /\ Cardinality(P) = n + 2
  <2>1. 0 \notin S
    BY <1>1
  <2>2. IsFiniteSet(S \cup {0}) /\ Cardinality(S \cup {0}) = n + 1
    BY <1>0, <1>2, <2>1, FS_AddElement
  <2>3. Len(s) + 1 \notin S \cup {0}
    BY <1>1
  <2>4. PICK Q : Q = S \cup {0}
    OBVIOUS
  <2>5. P = Q \cup {Len(s) + 1}
    BY <2>4
  <2>6. IsFiniteSet(Q) /\ Cardinality(Q) = n + 1 /\ Len(s) + 1 \notin Q
    BY <2>2, <2>3, <2>4
  <2> HIDE DEF P
  <2>7. IsFiniteSet(P) /\ Cardinality(P) = (n + 1) + 1
    BY <2>5, <2>6, FS_AddElement
  <2> QED BY <1>2, <2>7
<1>4. P \in SUBSET Nat
  BY <1>1
<1>5. Tokenize(s, x, TRUE) = T
  BY DEF Tokenize
<1>6. Len(T) = n + 1
  BY <1>2, <1>3
<1>7. ASSUME n > 0 PROVE T[1] = Before(s, x) /\ T[2] = Before(After(s, x), x)
  <2>1. PICK f \in 1..(Len(s) + 1) : /\ f = FirstOf(s, x)
                                     /\ f \in DOMAIN s => s[f] = x
                                     /\ \A j \in 1..(f - 1) : s[j] # x
    BY FirstOfIs
  <2>2. f \in DOMAIN s
    <3>1. S # {}
      <4> SUFFICES ASSUME S = {} PROVE FALSE
        OBVIOUS
      <4>1. n = Cardinality({})
        BY <1>0, Zenon
      <4> QED BY <1>7, <4>1, FS_EmptySet
    <3> QED BY <1>1, <2>1, <3>1
  <2> DEFINE r == After(s, x)
  <2>3. /\ r \in Seq(X) /\ Len(r) = Len(s) - f
        /\ \A i \in 1..(Len(s) - f) : r[i] = s[f + i]
    <3>1. r \in Seq(X) /\ Len(r) = Len(s) - f /\ \A i \in DOMAIN r : r[i] = s[f + i]
      BY <1>1, <2>1, <2>2, BeforeAfter
    <3>2. DOMAIN r = 1..(Len(s) - f)
      BY <3>1
    <3> QED BY <3>1, <3>2
  <2> HIDE DEF r
  <2>4. PICK h \in 1..(Len(r) + 1) : /\ h = FirstOf(r, x)
                                     /\ h \in DOMAIN r => r[h] = x
                                     /\ \A j \in 1..(h - 1) : r[j] # x
    BY <2>3, FirstOfIs
  <2>5. f + h \in P
    <3>1. h = Len(r) + 1 \/ h \in DOMAIN r
      BY <2>3, <2>4
    <3>2. h = Len(r) + 1 => f + h = Len(s) + 1
      BY <1>1, <2>3
    <3>3. ASSUME h \in DOMAIN r PROVE f + h \in DOMAIN s /\ s[f + h] = x
      <4>1. h \in 1..(Len(s) - f) /\ r[h] = x
        BY <2>3, <2>4, <3>3
      <4>2. f + h \in DOMAIN s
        BY <1>1, <2>2, <4>1
      <4> QED BY <2>3, <4>1, <4>2
    <3> QED BY <3>1, <3>2, <3>3
  <2>6. \A j \in 1..(f - 1) : j \notin P
    BY <1>1, <2>1
  <2>7. \A j \in (f + 1)..(f + h - 1) : j \notin P
    <3> SUFFICES ASSUME NEW j \in (f + 1)..(f + h - 1) PROVE j \notin P
      OBVIOUS
    <3>1. j - f \in 1..(h - 1) /\ j - f \in 1..(Len(s) - f) /\ j \in 1..Len(s)
      BY <1>1, <2>2, <2>3, <2>4
    <3>2. r[j - f] = s[f + (j - f)] /\ r[j - f] # x
      BY <2>3, <2>4, <3>1
    <3>3. f + (j - f) = j
      BY <2>1
    <3> QED BY <1>1, <3>1, <3>2, <3>3
  <2>8. 0 \in P /\ f \in P
    BY <2>1, <2>2
  <2>9. UpTo(P, 0) = {0} /\ UpTo(P, f) = {0} \cup {f} /\ UpTo(P, f + h) = ({0} \cup {f}) \cup {f + h}
    <3> HIDE DEF P
    <3>0. \A j \in P : j \in Nat
      BY <1>4
    <3>1. \A j \in P : j <= 0 <=> j = 0
      BY <3>0
    <3>2. \A j \in P : j <= f <=> j = 0 \/ j = f
      BY <3>0, <2>1, <2>6
    <3>3. \A j \in P : j <= f + h <=> j = 0 \/ j = f \/ j = f + h
      <4> SUFFICES ASSUME NEW j \in P PROVE j <= f + h <=> j = 0 \/ j = f \/ j = f + h
        OBVIOUS
      <4>1. j \in Nat /\ f \in Nat /\ h \in Nat
        BY <3>0, <2>1, <2>4
      <4>2. j \notin 1..(f - 1) /\ j \notin (f + 1)..(f + h - 1)
        BY <2>6, <2>7
      <4> QED BY <4>1, <4>2
    <3>4. UpTo(P, 0) = {0}
      BY <2>8, <3>1, Zenon DEF UpTo
    <3>5. UpTo(P, f) = {0} \cup {f}
      BY <2>8, <3>2, Zenon DEF UpTo
    <3>6. UpTo(P, f + h) = ({0} \cup {f}) \cup {f + h}
      BY <2>5, <2>8, <3>3, Zenon DEF UpTo
    <3> QED BY <3>4, <3>5, <3>6
  <2>10. /\ Cardinality(UpTo(P, 0)) = 1 /\ Cardinality(UpTo(P, f)) = 2
         /\ Cardinality(UpTo(P, f + h)) = 3
    <3>1. IsFiniteSet({0}) /\ Cardinality({0}) = 1
      BY FS_Singleton
    <3>2. f \notin {0} /\ f + h \notin {0} \cup {f}
      BY <2>1, <2>4
    <3>3. IsFiniteSet({0} \cup {f}) /\ Cardinality({0} \cup {f}) = 2
      <4>1. PICK Q : Q = {0}
        OBVIOUS
      <4>2. IsFiniteSet(Q \cup {f}) /\ Cardinality(Q \cup {f}) = 1 + 1
        BY <3>1, <3>2, <4>1, FS_AddElement
      <4> QED BY <4>1, <4>2, SMTT(30)
    <3>4. Cardinality(({0} \cup {f}) \cup {f + h}) = 3
      <4>1. PICK Q : Q = {0} \cup {f}
        OBVIOUS
      <4>2. IsFiniteSet(Q) /\ Cardinality(Q) = 2 /\ f + h \notin Q
        BY <3>2, <3>3, <4>1
      <4>3. Cardinality(Q \cup {f + h}) = 2 + 1
        BY <4>2, FS_AddElement
      <4>4. 2 + 1 = 3
        OBVIOUS
      <4> QED BY <4>1, <4>3, <4>4, Zenon
    <3> QED BY <2>9, <3>1, <3>3, <3>4
  <2>11. Nth(P, 1) = 0 /\ Nth(P, 2) = f /\ Nth(P, 3) = f + h
    BY <1>3, <1>4, <2>5, <2>8, <2>10, NthIs
  <2>12. T[1] = SubSeq(s, 0 + 1, f - 1) /\ T[2] = SubSeq(s, f + 1, f + h - 1)
    <3>1. 1 \in 1..(Cardinality(P) - 1) /\ 2 \in 1..(Cardinality(P) - 1)
      BY <1>2, <1>3, <1>7
    <3> HIDE DEF P
    <3>2. \A k \in 1..(Cardinality(P) - 1) : T[k] = SubSeq(s, Nth(P, k) + 1, Nth(P, k + 1) - 1)
      OBVIOUS
    <3> HIDE DEF T
    <3>3. PICK a, b, c : a = Nth(P, 1) /\ b = Nth(P, 2) /\ c = Nth(P, 3)
      OBVIOUS
    <3>4. T[1] = SubSeq(s, a + 1, b - 1)
      BY <3>1, <3>2, <3>3
    <3>5. T[2] = SubSeq(s, b + 1, c - 1)
      BY <3>1, <3>2, <3>3
    <3>6. a = 0 /\ b = f /\ c = f + h
      BY <2>11, <3>3
    <3> QED BY <3>4, <3>5, <3>6
  <2> HIDE DEF T, P
  <2>13. T[1] = Before(s, x)
    <3>1. 0 + 1 = 1
      OBVIOUS
    <3> QED BY <2>1, <2>12, <3>1 DEF Before
  <2>14. SubSeq(s, f + 1, f + h - 1) = SubSeq(r, 1, h - 1)
    <3>1. /\ SubSeq(r, 1, h - 1) \in Seq(X) /\ Len(SubSeq(r, 1, h - 1)) = h - 1
          /\ \A i \in 1..(h - 1) : SubSeq(r, 1, h - 1)[i] = r[i]
      BY <2>3, <2>4
    <3>2. /\ SubSeq(s, f + 1, f + h - 1) \in Seq(X) /\ Len(SubSeq(s, f + 1, f + h - 1)) = h - 1
          /\ \A i \in 1..(h - 1) : SubSeq(s, f + 1, f + h - 1)[i] = s[f + i]
      <4>1. f \in Nat /\ h \in Nat \ {0} /\ f + h - 1 <= Len(s)
        BY <1>1, <2>2, <2>3, <2>4
      <4> QED BY <4>1, SubSeqIs
    <3>3. \A i \in 1..(h - 1) : r[i] = s[f + i]
      BY <2>2, <2>3, <2>4
    <3>4. PICK a, b : a = SubSeq(s, f + 1, f + h - 1) /\ b = SubSeq(r, 1, h - 1)
      OBVIOUS
    <3>5. a \in Seq(X) /\ b \in Seq(X) /\ Len(a) = Len(b) /\ \A i \in 1..Len(a) : a[i] = b[i]
      BY <3>1, <3>2, <3>3, <3>4
    <3>6. a = b
      BY <3>5
    <3> QED BY <3>4, <3>6
  <2> QED BY <2>4, <2>12, <2>13, <2>14 DEF Before, r
<1> HIDE DEF P, T
<1> QED BY <1>2, <1>5, <1>6, <1>7

-----------------------------------------------------------------------------
(***************************************************************************)
(* What a file says.                                                       *)
(***************************************************************************)

LoadedFiles == [file : Files, text : Texts \ {Missing}, optional : BOOLEAN]

\* Line i of text is its first for option k.
SaysIn(text, i, k) ==
    /\ text[i] \in OptionLines /\ KeyOf[text[i]] = k
    /\ \A j \in 1..(i - 1) : text[j] \in OptionLines => KeyOf[text[j]] # k

MentionsIn(text, k) == \E i \in DOMAIN text : SaysIn(text, i, k)

\* The options opts are those that the files ld give, layer over layer.
Layered(opts, ld) ==
    /\ DOMAIN opts = {k \in Keys : \E n \in DOMAIN ld : MentionsIn(ld[n].text, k) /\ ~ld[n].optional}
    /\ \A k \in DOMAIN opts : \E n \in DOMAIN ld :
          /\ \E m \in 1..n : MentionsIn(ld[m].text, k) /\ ~ld[m].optional
          /\ \A m \in (n + 1)..Len(ld) : ~MentionsIn(ld[m].text, k)
          /\ \E i \in DOMAIN ld[n].text :
                SaysIn(ld[n].text, i, k) /\ opts[k] = ValueOf(ld[n].text[i])

\* A content that can be read is a sequence of lines.
LEMMA TextLines ==
    ASSUME NEW text \in Texts \ {Missing}
    PROVE  /\ text \in Seq(Lines)
           /\ \A i \in DOMAIN text :
                 /\ text[i] \in OptionLines <=> IsOption(text[i])
                 /\ IsOption(text[i]) => KeyOf[text[i]] = EntryOf(text[i]) /\ EntryOf(text[i]) \in Keys
<1>1. PICK f \in Files : text \in Contents[f] \ {Missing}
  BY DEF Texts
<1>2. text \in Seq(ToSet(text))
  BY <1>1, ConfigAssumption
<1>3. \A i \in DOMAIN text : text[i] \in Lines
  BY DEF Lines, ToSet
<1>4. text \in Seq(Lines)
  BY <1>2, <1>3
<1>5. \A i \in DOMAIN text : text[i] \in OptionLines <=> IsOption(text[i])
  BY <1>3 DEF OptionLines
<1>6. \A l \in OptionLines : KeyOf[l] = EntryOf(l) /\ EntryOf(l) \in Keys
  BY DEF KeyOf, Keys
<1> QED BY <1>4, <1>5, <1>6

\* ParseFile keeps exactly the options that a file mentions, each with the value
\* of its first line.
LEMMA FileSays ==
    ASSUME NEW text \in Texts \ {Missing}, NEW k
    PROVE  /\ k \in DOMAIN FileConfigs(text) <=> MentionsIn(text, k)
           /\ MentionsIn(text, k) =>
                 /\ k \in Keys
                 /\ \E i \in DOMAIN text :
                       SaysIn(text, i, k) /\ FileConfigs(text)[k] = ValueOf(text[i])
<1> DEFINE For(i) == IsOption(text[i]) /\ EntryOf(text[i]) = k
           First(i) == For(i) /\ \A j \in 1..(i - 1) : IsOption(text[j]) => EntryOf(text[j]) # k
<1>1. text \in Seq(Lines) /\ DOMAIN text = 1..Len(text) /\ Len(text) \in Nat
  BY TextLines
<1>2. ASSUME NEW i \in DOMAIN text PROVE SaysIn(text, i, k) <=> First(i)
  <2>1. \A j \in 1..(i - 1) : j \in DOMAIN text
    BY <1>1
  <2>2. \A j \in DOMAIN text : text[j] \in OptionLines <=> IsOption(text[j])
    BY TextLines
  <2>3. \A j \in DOMAIN text : IsOption(text[j]) => KeyOf[text[j]] = EntryOf(text[j])
    BY TextLines
  <2> QED BY <2>1, <2>2, <2>3, Zenon DEF SaysIn
<1>3. k \in DOMAIN FileConfigs(text) <=> \E i \in DOMAIN text : For(i)
  BY DEF FileConfigs
<1>4. ASSUME NEW i \in DOMAIN text, For(i) PROVE \E m \in DOMAIN text : First(m)
  <2> DEFINE T == {n \in DOMAIN text : For(n)}
  <2>1. T \in SUBSET Nat /\ T # {}
    BY <1>1, <1>4
  <2>2. PICK m \in T : \A n \in T : m <= n
    BY <2>1, LeastNat
  <2>3. ASSUME NEW j \in 1..(m - 1), IsOption(text[j]) PROVE EntryOf(text[j]) # k
    <3>1. j \in DOMAIN text /\ ~(m <= j)
      BY <1>1, <2>2
    <3> QED BY <2>2, <2>3, <3>1
  <2> QED BY <2>2, <2>3
<1>5. ASSUME NEW i \in DOMAIN text, First(i)
      PROVE  /\ k \in Keys
             /\ \E m \in DOMAIN text : First(m) /\ FileConfigs(text)[k] = ValueOf(text[m])
  <2>1. k \in Keys
    BY <1>5, TextLines
  <2>2. FirstFor(text, k) \in DOMAIN text /\ First(FirstFor(text, k))
    BY <1>5, Zenon DEF FirstFor
  <2>3. k \in DOMAIN FileConfigs(text)
    BY <1>3, <1>5
  <2>4. FileConfigs(text)[k] = ValueOf(text[FirstFor(text, k)])
    BY <2>3, Zenon DEF FileConfigs
  <2> QED BY <2>1, <2>2, <2>4, Zenon
<1>6. MentionsIn(text, k) <=> \E i \in DOMAIN text : First(i)
  BY <1>2, Zenon DEF MentionsIn
<1>7. k \in DOMAIN FileConfigs(text) <=> MentionsIn(text, k)
  BY <1>3, <1>4, <1>6, Zenon
<1> QED BY <1>2, <1>5, <1>6, <1>7, Zenon

-----------------------------------------------------------------------------
(***************************************************************************)
(* Layers.                                                                 *)
(***************************************************************************)

\* No files, no options.
LEMMA NothingLayered == Layered(NoOptions, <<>>)
  BY DEF Layered, NoOptions

\* LoadFile puts one more layer over the options.
LEMMA LayerFile ==
    ASSUME NEW opts, NEW ld \in Seq(LoadedFiles), Layered(opts, ld), NEW x \in LoadedFiles
    PROVE  Layered(AddKeys(opts, FileConfigs(x.text), x.optional), Append(ld, x))
<1> DEFINE new == FileConfigs(x.text)
           opts2 == AddKeys(opts, new, x.optional)
           ld2 == Append(ld, x)
           N1 == Len(ld) + 1
<1>1. /\ x.text \in Texts \ {Missing} /\ x.optional \in BOOLEAN
  BY DEF LoadedFiles
<1>2. \A k : k \in DOMAIN new <=> MentionsIn(x.text, k)
  BY <1>1, FileSays
<1>3. \A k \in DOMAIN new : /\ k \in Keys
                            /\ \E i \in DOMAIN x.text :
                                  SaysIn(x.text, i, k) /\ new[k] = ValueOf(x.text[i])
  BY <1>1, FileSays
<1>4. /\ DOMAIN opts2 = DOMAIN opts \cup (IF x.optional THEN {} ELSE DOMAIN new)
      /\ \A k \in DOMAIN opts2 : opts2[k] = IF k \in DOMAIN new THEN new[k] ELSE opts[k]
  BY DEF AddKeys
<1>5. /\ Len(ld) \in Nat /\ DOMAIN ld = 1..Len(ld) /\ Len(ld2) = N1 /\ DOMAIN ld2 = 1..N1
      /\ ld2[N1] = x /\ \A n \in DOMAIN ld : ld2[n] = ld[n]
  OBVIOUS
<1> HIDE DEF new, opts2, ld2
<1>6. ASSUME NEW k
      PROVE  (\E n \in DOMAIN ld2 : MentionsIn(ld2[n].text, k) /\ ~ld2[n].optional)
               <=> \/ \E n \in DOMAIN ld : MentionsIn(ld[n].text, k) /\ ~ld[n].optional
                   \/ k \in DOMAIN new /\ ~x.optional
  <2>1. \A n \in DOMAIN ld2 : n \in DOMAIN ld \/ n = N1
    BY <1>5
  <2>2. N1 \in DOMAIN ld2 /\ \A n \in DOMAIN ld : n \in DOMAIN ld2
    BY <1>5
  <2> QED BY <1>2, <1>5, <2>1, <2>2, Zenon
<1>7. DOMAIN opts2 = {k \in Keys : \E n \in DOMAIN ld2 : MentionsIn(ld2[n].text, k) /\ ~ld2[n].optional}
  <2>1. DOMAIN opts = {k \in Keys : \E n \in DOMAIN ld : MentionsIn(ld[n].text, k) /\ ~ld[n].optional}
    BY DEF Layered
  <2>2. DOMAIN new \subseteq Keys
    BY <1>3
  <2>3. DOMAIN opts2 = DOMAIN opts \cup {k \in Keys : k \in DOMAIN new /\ ~x.optional}
    BY <1>1, <1>4, <2>2
  <2> QED BY <1>6, <2>1, <2>3, Zenon
<1>8. ASSUME NEW k \in DOMAIN opts2
      PROVE  \E n \in DOMAIN ld2 :
                /\ \E m \in 1..n : MentionsIn(ld2[m].text, k) /\ ~ld2[m].optional
                /\ \A m \in (n + 1)..Len(ld2) : ~MentionsIn(ld2[m].text, k)
                /\ \E i \in DOMAIN ld2[n].text :
                      SaysIn(ld2[n].text, i, k) /\ opts2[k] = ValueOf(ld2[n].text[i])
  <2>1. CASE k \in DOMAIN new
    <3>1. PICK m \in DOMAIN ld2 : MentionsIn(ld2[m].text, k) /\ ~ld2[m].optional
      BY <1>7
    <3>2. m \in 1..N1 /\ N1 \in DOMAIN ld2 /\ (N1 + 1)..Len(ld2) = {}
      BY <1>5
    <3>3. PICK i \in DOMAIN x.text : SaysIn(x.text, i, k) /\ new[k] = ValueOf(x.text[i])
      BY <1>3, <2>1
    <3>4. opts2[k] = new[k]
      BY <1>4, <2>1
    <3> QED BY <1>5, <3>1, <3>2, <3>3, <3>4, Zenon
  <2>2. CASE k \notin DOMAIN new
    <3>1. k \in DOMAIN opts /\ opts2[k] = opts[k]
      BY <1>4, <2>2
    <3>2. PICK n \in DOMAIN ld :
             /\ \E m \in 1..n : MentionsIn(ld[m].text, k) /\ ~ld[m].optional
             /\ \A m \in (n + 1)..Len(ld) : ~MentionsIn(ld[m].text, k)
             /\ \E i \in DOMAIN ld[n].text :
                   SaysIn(ld[n].text, i, k) /\ opts[k] = ValueOf(ld[n].text[i])
      BY <3>1 DEF Layered
    <3>3. n \in DOMAIN ld2 /\ 1..n \subseteq DOMAIN ld
      BY <1>5
    <3>4. \E m \in 1..n : MentionsIn(ld2[m].text, k) /\ ~ld2[m].optional
      BY <1>5, <3>2, <3>3, Zenon
    <3>5. ASSUME NEW m \in (n + 1)..Len(ld2) PROVE ~MentionsIn(ld2[m].text, k)
      <4>1. m = N1 \/ (m \in (n + 1)..Len(ld) /\ m \in DOMAIN ld)
        BY <1>5, <3>5
      <4> QED BY <1>2, <1>5, <2>2, <3>2, <4>1, Zenon
    <3> QED BY <1>5, <3>1, <3>2, <3>3, <3>4, <3>5, Zenon
  <2> QED BY <2>1, <2>2
<1> QED BY <1>7, <1>8 DEF Layered, opts2, ld2, new

-----------------------------------------------------------------------------
(***************************************************************************)
(* The inductive invariant.                                                *)
(***************************************************************************)

ModuleNames == UNION {ToSet(Names(list)) : list \in ModuleLists}

Steps == [call : {"none", "LoadAppConfigs", "LoadModulesConfigs"}, reload : BOOLEAN,
          at : Nat, next : {"dist", "conf", "orphan"}]

ConfigTypeOK == /\ usingDist \in BOOLEAN
                /\ additional \in Seq(ModuleNames)
                /\ step \in Steps
                /\ loaded \in Seq(LoadedFiles)

HasLoaded(f) == \E n \in DOMAIN loaded : loaded[n].file = f

\* LoadAppConfigs is between its two files.
Halfway == step.call = "LoadAppConfigs" /\ step.next = "conf"

\* GetFilename tells the truth, but for that moment.
NamedFile == HasLoaded(Dist(App)) /\ ~usingDist /\ ~Halfway => HasLoaded(Conf(App))

\* The modules a first load has dealt with have their .dist files loaded; only a
\* reload goes on without one.
ModulesSoFar ==
    step.call = "LoadModulesConfigs" =>
        /\ step.at > 0
        /\ step.next = "orphan" => step.reload
        /\ ~step.reload =>
             \A i \in DOMAIN additional :
                (i < step.at \/ (i = step.at /\ step.next # "dist")) => HasLoaded(Dist(additional[i]))

\* LoadModulesConfigs, when it has returned, and until anything else is called.
ModulesReported ==
    returned = [call |-> "LoadModulesConfigs", reload |-> FALSE, ok |-> TRUE] /\ step = Idle =>
        \A i \in DOMAIN additional : HasLoaded(Dist(additional[i]))

ConfigInv == ConfigTypeOK /\ Layered(options, loaded) /\ NamedFile /\ ModulesSoFar /\ ModulesReported

\* What a file that was found contains.
LEMMA FoundText ==
    ASSUME NEW f, NEW text \in Found(f), text # Missing
    PROVE  f \in Files /\ text \in Texts \ {Missing}
  BY DEF Found, Texts

\* What LoadFile has done.
LEMMA LoadFileDone ==
    ASSUME NEW opts, NEW ld \in Seq(LoadedFiles), Layered(opts, ld),
           NEW file, NEW text \in Found(file), text # Missing, NEW isOptional \in BOOLEAN,
           LoadFile(opts, ld, file, text, isOptional)
    PROVE  /\ loaded' \in Seq(LoadedFiles)
           /\ Layered(options', loaded')
           /\ \A f : HasLoaded(f)' <=> (\E n \in DOMAIN ld : ld[n].file = f) \/ f = file
<1> DEFINE x == [file |-> file, text |-> text, optional |-> isOptional]
<1>1. x \in LoadedFiles /\ x.file = file /\ x.text = text /\ x.optional = isOptional
  BY FoundText DEF LoadedFiles
<1>2. loaded' = Append(ld, x) /\ options' = AddKeys(opts, FileConfigs(text), isOptional)
  BY DEF LoadFile
<1> HIDE DEF x
<1>3. Append(ld, x) \in Seq(LoadedFiles)
  BY <1>1
<1>4. Layered(options', loaded')
  <2>1. Layered(AddKeys(opts, FileConfigs(x.text), x.optional), Append(ld, x))
    BY <1>1, LayerFile
  <2> QED BY <1>1, <1>2, <2>1, Zenon
<1>5. /\ DOMAIN Append(ld, x) = DOMAIN ld \cup {Len(ld) + 1}
      /\ Append(ld, x)[Len(ld) + 1] = x
      /\ \A n \in DOMAIN ld : Append(ld, x)[n] = ld[n]
  OBVIOUS
<1>6. \A f : HasLoaded(f)' <=> (\E n \in DOMAIN ld : ld[n].file = f) \/ f = file
  BY <1>1, <1>2, <1>5, Zenon DEF HasLoaded
<1> QED BY <1>2, <1>3, <1>4, <1>6

\* The same, over the files that are loaded.
LEMMA LoadOver ==
    ASSUME ConfigInv, NEW file, NEW text \in Found(file), NEW isOptional \in BOOLEAN,
           IF Parses(text) THEN LoadFile(options, loaded, file, text, isOptional)
                           ELSE UNCHANGED <<options, loaded>>
    PROVE  /\ loaded' \in Seq(LoadedFiles)
           /\ Layered(options', loaded')
           /\ \A f : HasLoaded(f)' <=> HasLoaded(f) \/ (Parses(text) /\ f = file)
<1>1. loaded \in Seq(LoadedFiles) /\ Layered(options, loaded)
  BY DEF ConfigInv, ConfigTypeOK
<1>2. CASE Parses(text)
  <2>1. text # Missing /\ LoadFile(options, loaded, file, text, isOptional)
    BY <1>2 DEF Parses
  <2>2. /\ loaded' \in Seq(LoadedFiles)
        /\ Layered(options', loaded')
        /\ \A f : HasLoaded(f)' <=> (\E n \in DOMAIN loaded : loaded[n].file = f) \/ f = file
    <3>1. PICK opts, ld : opts = options /\ ld = loaded
      OBVIOUS
    <3> QED BY <1>1, <2>1, <3>1, LoadFileDone
  <2> QED BY <1>2, <2>2 DEF HasLoaded
<1>3. CASE ~Parses(text)
  BY <1>1, <1>3 DEF HasLoaded
<1> QED BY <1>2, <1>3

\* A module's files are not those of the application.
LEMMA ModuleFiles ==
    ASSUME ConfigTypeOK, ModulesSoFar, InModules
    PROVE  /\ step.at \in DOMAIN additional
           /\ Dist(Module) # Dist(App) /\ Conf(Module) # Dist(App)
<1>1. step.at \in Nat /\ step.at > 0 /\ step.at <= Len(additional)
  BY DEF ConfigTypeOK, Steps, InModules, ModulesSoFar
<1>2. step.at \in DOMAIN additional /\ Module \in ModuleNames
  BY <1>1 DEF ConfigTypeOK, Module
<1>3. App \notin ModuleNames
  BY ConfigAssumption DEF ModuleNames
<1>4. Module # App
  BY <1>2, <1>3
<1>5. <<Module, ".conf.dist">> # <<App, ".conf.dist">>
  BY <1>4
<1>6. <<Module, ".conf">> # <<App, ".conf.dist">>
  OBVIOUS
<1> QED BY <1>2, <1>5, <1>6 DEF Dist, Conf

\* The initial state: nothing is loaded.
LEMMA ConfigInitially == Init => ConfigInv
<1> SUFFICES ASSUME Init PROVE ConfigInv
  OBVIOUS
<1>1. ConfigTypeOK
  <2>1. Idle \in Steps
    BY DEF Idle, Steps
  <2>2. <<>> \in Seq(ModuleNames) /\ <<>> \in Seq(LoadedFiles)
    OBVIOUS
  <2> QED BY <2>1, <2>2 DEF Init, CInit, ConfigTypeOK
<1>2. Layered(options, loaded)
  BY NothingLayered DEF Init, CInit
<1>3. NamedFile /\ ModulesSoFar /\ ModulesReported
  BY DEF Init, CInit, NamedFile, HasLoaded, ModulesSoFar, ModulesReported, Idle
<1> QED BY <1>1, <1>2, <1>3 DEF ConfigInv

\* Configure adds names; the calls of loads only set out.
LEMMA CallStep ==
    ASSUME ConfigInv, NEW list, NEW isReload \in BOOLEAN,
           \/ list \in ModuleLists /\ Configure(list)
           \/ CallLoadAppConfigs(isReload) \/ CallLoadModulesConfigs(isReload)
    PROVE  ConfigInv'
<1>1. /\ UNCHANGED <<options, usingDist, loaded>> /\ step = Idle
      /\ \A f : HasLoaded(f)' <=> HasLoaded(f)
  BY DEF Configure, CallLoadAppConfigs, CallLoadModulesConfigs, HasLoaded
<1>2. ~Halfway /\ ConfigTypeOK /\ NamedFile
  BY <1>1 DEF Halfway, Idle, ConfigInv
<1>3. Layered(options, loaded)' /\ NamedFile'
  BY <1>1, <1>2 DEF ConfigInv, NamedFile
<1>4. CASE list \in ModuleLists /\ Configure(list)
  <2>1. Names(list) \in Seq(ModuleNames)
    <3>1. \A i \in DOMAIN Names(list) : Names(list)[i] \in ModuleNames
      BY <1>4 DEF ModuleNames, ToSet
    <3>2. Names(list) \in Seq(ToSet(Names(list)))
      BY <1>4, ConfigAssumption
    <3> QED BY <3>1, <3>2
  <2>2. additional' \in Seq(ModuleNames)
    BY <1>2, <1>4, <2>1 DEF Configure, ConfigTypeOK
  <2>3. step' = step /\ returned'.call = "Configure"
    BY <1>4 DEF Configure
  <2>4. ConfigTypeOK'
    BY <1>1, <1>2, <2>2, <2>3 DEF ConfigTypeOK
  <2>5. ModulesSoFar' /\ ModulesReported'
    BY <1>1, <2>3 DEF ModulesSoFar, ModulesReported, Idle
  <2> QED BY <1>3, <2>4, <2>5 DEF ConfigInv
<1>5. CASE CallLoadAppConfigs(isReload) \/ CallLoadModulesConfigs(isReload)
  <2>1. /\ additional' = additional
        /\ step' \in Steps /\ step'.next = "dist" /\ step'.at = 1 /\ step'.call # "none"
    BY <1>5 DEF CallLoadAppConfigs, CallLoadModulesConfigs, Steps
  <2>2. ConfigTypeOK'
    BY <1>1, <1>2, <2>1 DEF ConfigTypeOK
  <2>3. ModulesSoFar'
    <3>1. \A i \in DOMAIN additional : ~(i < 1)
      BY <1>2 DEF ConfigTypeOK
    <3> QED BY <2>1, <3>1 DEF ModulesSoFar
  <2>4. ModulesReported'
    BY <2>1 DEF ModulesReported, Idle
  <2> QED BY <1>3, <2>2, <2>3, <2>4 DEF ConfigInv
<1> QED BY <1>4, <1>5

\* The two files of the application.
LEMMA AppStep ==
    ASSUME ConfigInv,
           (\E text \in Found(Dist(App)) : LoadInitial(text))
             \/ (\E text \in Found(Conf(App)) : LoadAppConf(text))
    PROVE  ConfigInv'
<1>1. ConfigTypeOK /\ step.call = "LoadAppConfigs" /\ additional' = additional
  BY DEF ConfigInv, LoadInitial, LoadAppConf
<1>2. ASSUME NEW text \in Found(Dist(App)), LoadInitial(text) PROVE ConfigInv'
  <2>1. CASE Parses(text)
    <3>1. /\ LoadFile(NoOptions, <<>>, Dist(App), text, FALSE)
          /\ step' = [step EXCEPT !.next = "conf"] /\ usingDist' = usingDist
      BY <1>2, <2>1 DEF LoadInitial
    <3>2. text # Missing /\ <<>> \in Seq(LoadedFiles)
      BY <2>1 DEF Parses
    <3>3. loaded' \in Seq(LoadedFiles) /\ Layered(options', loaded')
      BY <3>1, <3>2, NothingLayered, LoadFileDone
    <3>4. step' \in Steps /\ step'.call = "LoadAppConfigs" /\ step'.next = "conf"
      BY <1>1, <3>1 DEF ConfigTypeOK, Steps
    <3>5. ConfigTypeOK'
      BY <1>1, <3>1, <3>3, <3>4 DEF ConfigTypeOK
    <3>6. NamedFile' /\ ModulesSoFar' /\ ModulesReported'
      BY <3>4 DEF NamedFile, Halfway, ModulesSoFar, ModulesReported, Idle
    <3> QED BY <3>3, <3>5, <3>6 DEF ConfigInv
  <2>2. CASE ~Parses(text)
    <3>1. /\ options' = NoOptions /\ loaded' = <<>> /\ step' = Idle /\ usingDist' = usingDist
          /\ returned'.call = "LoadAppConfigs"
      BY <1>1, <1>2, <2>2 DEF LoadInitial, Return
    <3>2. Idle \in Steps /\ <<>> \in Seq(LoadedFiles)
      BY DEF Idle, Steps
    <3>3. ConfigTypeOK'
      BY <1>1, <3>1, <3>2 DEF ConfigTypeOK
    <3>4. NamedFile' /\ ModulesSoFar' /\ ModulesReported'
      BY <3>1 DEF NamedFile, HasLoaded, ModulesSoFar, ModulesReported, Idle
    <3> QED BY <3>1, <3>3, <3>4, NothingLayered DEF ConfigInv
  <2> QED BY <2>1, <2>2
<1>3. ASSUME NEW text \in Found(Conf(App)), LoadAppConf(text) PROVE ConfigInv'
  <2>1. /\ loaded' \in Seq(LoadedFiles) /\ Layered(options', loaded')
        /\ \A f : HasLoaded(f)' <=> HasLoaded(f) \/ (Parses(text) /\ f = Conf(App))
    BY <1>3, LoadOver DEF LoadAppConf
  <2>2. /\ usingDist' = (usingDist \/ ~Parses(text)) /\ step' = Idle
        /\ returned'.call = "LoadAppConfigs"
    BY <1>1, <1>3 DEF LoadAppConf, Return
  <2>3. usingDist' \in BOOLEAN
    BY <2>2, Zenon
  <2>4. Idle \in Steps
    BY DEF Idle, Steps
  <2>5. ConfigTypeOK'
    BY <1>1, <2>1, <2>2, <2>3, <2>4 DEF ConfigTypeOK
  <2>6. NamedFile'
    BY <2>1, <2>2 DEF NamedFile
  <2>7. ModulesSoFar' /\ ModulesReported'
    BY <2>2 DEF ModulesSoFar, ModulesReported, Idle
  <2> QED BY <2>1, <2>5, <2>6, <2>7 DEF ConfigInv
<1> QED BY <1>2, <1>3

\* The two files of a module, and the end.
LEMMA ModulesStep ==
    ASSUME ConfigInv,
           \/ InModules /\ \E text \in Found(Dist(Module)) : LoadModuleDist(text)
           \/ InModules /\ \E text \in Found(Conf(Module)) : LoadModuleConf(text)
           \/ LoadModulesEnd
    PROVE  ConfigInv'
<1>1. /\ ConfigTypeOK /\ NamedFile /\ ModulesSoFar
      /\ step.call = "LoadModulesConfigs" /\ ~Halfway
      /\ UNCHANGED <<additional, usingDist>>
  BY DEF ConfigInv, InModules, LoadModuleDist, LoadModuleConf, LoadModulesEnd, Halfway
<1>2. Idle \in Steps /\ Idle.call = "none" /\ step.at \in Nat
  BY <1>1 DEF Idle, Steps, ConfigTypeOK
<1>3. ASSUME NEW text \in Found(Dist(Module)), InModules, LoadModuleDist(text) PROVE ConfigInv'
  <2>1. /\ loaded' \in Seq(LoadedFiles) /\ Layered(options', loaded')
        /\ \A f : HasLoaded(f)' <=> HasLoaded(f) \/ (Parses(text) /\ f = Dist(Module))
    BY <1>3, LoadOver DEF LoadModuleDist
  <2>2. step.at \in DOMAIN additional /\ Dist(Module) # Dist(App)
    BY <1>1, <1>3, ModuleFiles
  <2>3. NamedFile'
    BY <1>1, <2>1, <2>2 DEF NamedFile
  <2>4. CASE Parses(text) \/ step.reload
    <3>1. step' = [step EXCEPT !.next = IF Parses(text) THEN "conf" ELSE "orphan"]
      BY <1>3, <2>4 DEF LoadModuleDist
    <3>2. /\ step' \in Steps /\ step'.call = step.call /\ step'.at = step.at
          /\ step'.reload = step.reload /\ step'.next = IF Parses(text) THEN "conf" ELSE "orphan"
      BY <1>1, <3>1 DEF ConfigTypeOK, Steps
    <3>3. ConfigTypeOK'
      BY <1>1, <2>1, <3>2 DEF ConfigTypeOK
    <3>4. ModulesReported'
      BY <1>1, <1>2, <3>2 DEF ModulesReported
    <3>5. ModulesSoFar'
      BY <1>1, <2>1, <2>4, <3>2 DEF ModulesSoFar, Module
    <3> QED BY <2>1, <2>3, <3>3, <3>4, <3>5 DEF ConfigInv
  <2>5. CASE ~(Parses(text) \/ step.reload)
    <3>1. step' = Idle /\ returned'.ok = FALSE
      BY <1>3, <2>5 DEF LoadModuleDist, Return
    <3>2. ConfigTypeOK' /\ ModulesReported' /\ ModulesSoFar'
      BY <1>1, <1>2, <2>1, <3>1 DEF ConfigTypeOK, ModulesReported, ModulesSoFar
    <3> QED BY <2>1, <2>3, <3>2 DEF ConfigInv
  <2> QED BY <2>4, <2>5
<1>4. ASSUME NEW text \in Found(Conf(Module)), InModules, LoadModuleConf(text) PROVE ConfigInv'
  <2>1. /\ loaded' \in Seq(LoadedFiles) /\ Layered(options', loaded')
        /\ \A f : HasLoaded(f)' <=> HasLoaded(f) \/ (Parses(text) /\ f = Conf(Module))
    BY <1>4, LoadOver DEF LoadModuleConf
  <2>2. Conf(Module) # Dist(App)
    BY <1>1, <1>4, ModuleFiles
  <2>3. NamedFile'
    BY <1>1, <2>1, <2>2 DEF NamedFile
  <2>4. step' = [step EXCEPT !.at = @ + 1, !.next = "dist"] /\ step.next # "dist"
    BY <1>4 DEF LoadModuleConf
  <2>5. /\ step' \in Steps /\ step'.call = step.call /\ step'.at = step.at + 1
        /\ step'.reload = step.reload /\ step'.next = "dist"
    <3>1. step.at + 1 \in Nat /\ step \in Steps
      BY <1>1, <1>2 DEF ConfigTypeOK
    <3> QED BY <2>4, <3>1 DEF Steps
  <2>6. ConfigTypeOK'
    BY <1>1, <2>1, <2>5 DEF ConfigTypeOK
  <2>7. ModulesReported'
    BY <1>1, <1>2, <2>5 DEF ModulesReported
  <2>8. ModulesSoFar'
    <3>1. \A i \in DOMAIN additional : i \in Nat /\ (i < step.at + 1 => i < step.at \/ i = step.at)
      BY <1>1, <1>2 DEF ConfigTypeOK
    <3>2. step.at + 1 > 0
      BY <1>2
    <3> QED BY <1>1, <2>1, <2>4, <2>5, <3>1, <3>2 DEF ModulesSoFar
  <2> QED BY <2>1, <2>3, <2>6, <2>7, <2>8 DEF ConfigInv
<1>5. CASE LoadModulesEnd
  <2>1. /\ UNCHANGED <<options, loaded>> /\ step' = Idle /\ step.at > Len(additional)
        /\ returned' = [call |-> "LoadModulesConfigs", reload |-> step.reload, ok |-> TRUE]
        /\ \A f : HasLoaded(f)' <=> HasLoaded(f)
    BY <1>1, <1>5 DEF LoadModulesEnd, Return, HasLoaded
  <2>2. ConfigTypeOK' /\ NamedFile' /\ ModulesSoFar'
    BY <1>1, <1>2, <2>1 DEF ConfigTypeOK, NamedFile, ModulesSoFar
  <2>3. \A i \in DOMAIN additional : i < step.at
    BY <1>1, <1>2, <2>1 DEF ConfigTypeOK
  <2>4. ModulesReported'
    BY <1>1, <2>1, <2>3 DEF ModulesReported, ModulesSoFar
  <2> QED BY <2>1, <2>2, <2>4 DEF ConfigInv
<1> QED BY <1>3, <1>4, <1>5

\* Every step of the startup: main and StartDB do not touch the options.
LEMMA ConfigStep == ConfigInv /\ [Next]_vars => ConfigInv'
<1> SUFFICES ASSUME ConfigInv, [Next]_vars PROVE ConfigInv'
  OBVIOUS
<1>1. CASE UNCHANGED cvars
  BY <1>1 DEF cvars, ConfigInv, ConfigTypeOK, NamedFile, HasLoaded, Halfway, ModulesSoFar,
              ModulesReported
<1>2. CASE CNext
  <2>1. ASSUME NEW isReload \in BOOLEAN,
               CallLoadAppConfigs(isReload) \/ CallLoadModulesConfigs(isReload)
        PROVE  ConfigInv'
    BY <2>1, CallStep
  <2> QED BY <1>2, <2>1, CallStep, AppStep, ModulesStep DEF CNext, ReadStep
<1>3. MNext \/ Rest \/ UNCHANGED vars => UNCHANGED cvars
  <2>1. StartDB => UNCHANGED cvars
    BY Zenon DEF StartDB
  <2>2. Open => UNCHANGED cvars
    BY Zenon DEF Open
  <2>3. OpenFails => UNCHANGED cvars
    BY Zenon DEF OpenFails
  <2>6. PrepareFails \/ Challenge => UNCHANGED cvars
    BY Zenon DEF PrepareFails, Challenge
  <2>4. CheckPort => UNCHANGED cvars
    BY Zenon DEF CheckPort
  <2>5. Rest \/ UNCHANGED vars => UNCHANGED cvars
    BY DEF Rest, vars
  <2> QED BY <2>1, <2>2, <2>3, <2>4, <2>5, <2>6 DEF MNext
<1> QED BY <1>1, <1>2, <1>3 DEF Next

\* ConfigInv holds during the whole startup.
THEOREM ConfigInvariant == Spec => []ConfigInv
  BY ConfigInitially, ConfigStep, PTL DEF Spec

\* The options are what the files say, layer over layer, after any sequence of
\* loads, reloads, failures and edits.
THEOREM OptionsAreLayered == Spec => []OptionsLayered
<1>1. ConfigInv => OptionsLayered
  <2>1. Layered(options, loaded) => OptionsLayered
    BY DEF Layered, OptionsLayered, Introduces, Mentions, MentionsIn, Says, SaysIn
  <2> QED BY <2>1 DEF ConfigInv
<1> QED BY <1>1, ConfigInvariant, PTL

\* The file that GetFilename names was used, and when LoadModulesConfigs has
\* returned true the files of all configured modules are loaded.
THEOREM ReportsAreTruthful == Spec => []ReportsTruthful
<1>1. ConfigInv => ReportsTruthful
  <2> SUFFICES ASSUME ConfigInv PROVE ReportsTruthful
    OBVIOUS
  <2>1. step = Idle => ~Halfway
    BY DEF Idle, Halfway
  <2>2. FilenameTruthful
    BY <2>1 DEF ConfigInv, NamedFile, HasLoaded, FilenameTruthful
  <2> QED BY <2>2 DEF ConfigInv, ModulesReported, HasLoaded, ReportsTruthful
<1> QED BY <1>1, ConfigInvariant, PTL

-----------------------------------------------------------------------------
(***************************************************************************)
(* Versions.                                                               *)
(***************************************************************************)

\* The digits of a component of a version.
LEMMA DigitsAre ==
    ASSUME NEW n \in 0..99
    PROVE  /\ Digits(n) \in Seq(Nat) /\ Digits(n)[1] \in 48..57
           /\ n < 10 => Digits(n)[1] = 48 + n /\ Len(Digits(n)) = 1
           /\ n >= 10 => Len(Digits(n)) = 2 /\ Digits(n)[2] \in 48..57
           /\ n >= 1 => Digits(n)[1] >= 49
<1>1. n >= 10 => n \div 10 \in 1..9
  OBVIOUS
<1>2. n % 10 \in 0..9
  OBVIOUS
<1> QED BY <1>1, <1>2 DEF Digits

\* u has s and then t.
Joins(s, t, u) == /\ u \in Seq(Nat) /\ Len(u) = Len(s) + Len(t)
                  /\ \A i \in 1..Len(s) : u[i] = s[i]
                  /\ \A i \in 1..Len(t) : u[Len(s) + i] = t[i]

\* What a concatenation has at its positions.
LEMMA ConcatIs ==
    ASSUME NEW s \in Seq(Nat), NEW t \in Seq(Nat)
    PROVE  s \o t \in Seq(Nat) /\ Joins(s, t, s \o t)
  BY DEF Joins

\* The characters of c that are compared, for digits a, b and d, m and n of them
\* in a and in b.
ComparedChars(a, b, d, m, n, c) ==
    /\ c[1] = a[1]
    /\ m = 1 => c[3] = b[1]
    /\ m = 1 /\ n = 1 => c[5] = d[1]
    /\ m = 2 => c[3] = 46
    /\ m = 2 /\ n = 1 => c[5] = 46
    /\ m = 2 /\ n = 2 => c[5] = b[2]

\* The characters that are compared, by the number of digits in front of them.
LEMMA JoinIs ==
    ASSUME NEW a \in Seq(Nat), NEW b \in Seq(Nat), NEW d \in Seq(Nat), NEW e \in Seq(Nat),
           NEW p \in Seq(Nat), NEW q \in Seq(Nat), NEW r \in Seq(Nat), NEW c \in Seq(Nat),
           Joins(a, e, p), Joins(p, b, q), Joins(q, e, r), Joins(r, d, c),
           NEW m \in 1..2, NEW n \in 1..2, NEW k \in 1..2,
           Len(a) = m /\ Len(b) = n /\ Len(d) = k, Len(e) = 1 /\ e[1] = 46
    PROVE  ComparedChars(a, b, d, m, n, c)
<1>1. (\A i \in 1..m : p[i] = a[i]) /\ p[m + 1] = 46 /\ Len(p) = m + 1
  BY DEF Joins
<1>2. (\A i \in 1..(m + 1) : q[i] = p[i]) /\ (\A i \in 1..n : q[m + 1 + i] = b[i]) /\ Len(q) = m + 1 + n
  BY <1>1 DEF Joins
<1>3. (\A i \in 1..(m + 1 + n) : r[i] = q[i]) /\ r[m + 2 + n] = 46 /\ Len(r) = m + 2 + n
  <2>1. /\ \A i \in 1..Len(q) : r[i] = q[i]
        /\ r[Len(q) + 1] = e[1] /\ Len(r) = Len(q) + 1
    BY DEF Joins
  <2>2. m + 2 + n = (m + 1 + n) + 1
    OBVIOUS
  <2> QED BY <1>2, <2>1, <2>2
<1>4. (\A i \in 1..(m + 2 + n) : c[i] = r[i]) /\ c[m + 3 + n] = d[1]
  <2>1. /\ \A i \in 1..Len(r) : c[i] = r[i]
        /\ c[Len(r) + 1] = d[1]
    BY SMTT(30) DEF Joins
  <2>2. m + 3 + n = (m + 2 + n) + 1
    OBVIOUS
  <2> QED BY <1>3, <2>1, <2>2
<1>5. ASSUME NEW i \in 1..(m + 1 + n) PROVE c[i] = q[i]
  <2>1. i \in 1..(m + 2 + n)
    OBVIOUS
  <2> QED BY <1>3, <1>4, <2>1
<1>6. \A i \in 1..(m + 1) : c[i] = p[i]
  BY <1>2, <1>5
<1>7. c[1] = a[1] /\ c[m + 1] = 46
  BY <1>1, <1>6
<1>8. \A i \in 1..n : c[m + 1 + i] = b[i]
  BY <1>2, <1>5, SMTT(30)
<1>9. c[m + 2 + n] = 46
  BY <1>3, <1>4, SMTT(30)
<1>10. CASE m = 1
  BY <1>4, <1>7, <1>8, <1>10 DEF ComparedChars
<1>11. CASE m = 2
  BY <1>7, <1>8, <1>9, <1>11, SMTT(30) DEF ComparedChars
<1> QED BY <1>10, <1>11

\* What is compared of a version.
Compared(x, y, z, c) ==
    /\ x < 10 /\ y < 10 => c[1] = 48 + x /\ c[3] = 48 + y /\ c[5] \in 48..57
    /\ z < 10 /\ x < 10 /\ y < 10 => c[5] = 48 + z
    /\ x = 10 /\ y = 5 => c[1] = 49 /\ c[3] = 46 /\ c[5] = 46
    /\ x >= 1 => c[1] \in 49..57 /\ c[3] \in 46..57
    /\ x >= 1 /\ c[3] = 46 => c[5] \in 46..57

\* The characters of a version are joined from its digits.
LEMMA CharsAre ==
    ASSUME NEW x \in 0..99, NEW y \in 0..99, NEW z \in 0..99
    PROVE  Compared(x, y, z, (((Digits(x) \o <<46>>) \o Digits(y)) \o <<46>>) \o Digits(z))
<1>1. PICK a \in Seq(Nat) : /\ a = Digits(x) /\ a[1] \in 48..57
                            /\ x < 10 => a[1] = 48 + x /\ Len(a) = 1
                            /\ x >= 10 => Len(a) = 2
                            /\ x >= 1 => a[1] >= 49
                            /\ x = 10 => a[1] = 49
  <2>1. x = 10 => Digits(x)[1] = 49
    BY DEF Digits
  <2> QED BY <2>1, DigitsAre
<1>2. PICK b \in Seq(Nat) : /\ b = Digits(y) /\ b[1] \in 48..57
                            /\ y < 10 => b[1] = 48 + y /\ Len(b) = 1
                            /\ y >= 10 => Len(b) = 2 /\ b[2] \in 48..57
  BY DigitsAre
<1>3. PICK d \in Seq(Nat) : /\ d = Digits(z) /\ d[1] \in 48..57
                            /\ z < 10 => d[1] = 48 + z /\ Len(d) = 1
                            /\ z >= 10 => Len(d) = 2
  BY DigitsAre
<1>4. <<46>> \in Seq(Nat) /\ Len(<<46>>) = 1 /\ <<46>>[1] = 46
  OBVIOUS
<1>5. PICK e \in Seq(Nat) : e = <<46>> /\ Len(e) = 1 /\ e[1] = 46
  BY <1>4, Zenon
<1>6. \A s, t \in Seq(Nat) : \E u \in Seq(Nat) : u = s \o t /\ Joins(s, t, u)
  BY ConcatIs, Zenon
<1>7. PICK p \in Seq(Nat) : p = a \o e /\ Joins(a, e, p)
  BY <1>6, Zenon
<1>8. PICK q \in Seq(Nat) : q = p \o b /\ Joins(p, b, q)
  BY <1>6, Zenon
<1>9. PICK r \in Seq(Nat) : r = q \o e /\ Joins(q, e, r)
  BY <1>6, Zenon
<1>10. PICK c \in Seq(Nat) : c = r \o d /\ Joins(r, d, c)
  BY <1>6, Zenon
<1>11. /\ c[1] = a[1]
       /\ Len(a) = 1 => c[3] = b[1]
       /\ Len(a) = 1 /\ Len(b) = 1 => c[5] = d[1]
       /\ Len(a) = 2 => c[3] = 46
       /\ Len(a) = 2 /\ Len(b) = 1 => c[5] = 46
       /\ Len(a) = 2 /\ Len(b) = 2 => c[5] = b[2]
  <2>1. Len(a) \in 1..2 /\ Len(b) \in 1..2 /\ Len(d) \in 1..2
    BY <1>1, <1>2, <1>3
  <2>3. PICK m \in 1..2, n \in 1..2, k \in 1..2 : Len(a) = m /\ Len(b) = n /\ Len(d) = k
    BY <2>1, Zenon
  <2>4. ComparedChars(a, b, d, m, n, c)
    BY <1>5, <1>7, <1>8, <1>9, <1>10, <2>3, JoinIs, ZenonT(60)
  <2> QED BY <2>3, <2>4 DEF ComparedChars
<1>12. Compared(x, y, z, c)
  <2>1. /\ x < 10 => c[1] = 48 + x /\ c[3] = b[1] /\ Len(a) = 1
        /\ x >= 10 => Len(a) = 2 /\ c[3] = 46
        /\ c[1] \in 48..57 /\ (x >= 1 => c[1] >= 49) /\ (x = 10 => c[1] = 49)
    BY <1>1, <1>11
  <2>2. x < 10 /\ y < 10 => c[3] = 48 + y /\ c[5] = d[1]
    BY <1>2, <1>11, <2>1
  <2>3. z < 10 => d[1] = 48 + z
    BY <1>3
  <2>4. x >= 10 /\ y < 10 => c[5] = 46
    BY <1>2, <1>11, <2>1
  <2>5. x >= 10 /\ y >= 10 => c[5] \in 48..57
    BY <1>2, <1>11, <2>1
  <2>6. b[1] \in 48..57 /\ d[1] \in 48..57
    BY <1>2, <1>3
  <2>7. x < 10 /\ y < 10 => c[1] = 48 + x /\ c[3] = 48 + y /\ c[5] \in 48..57 /\ (z < 10 => c[5] = 48 + z)
    BY <2>1, <2>2, <2>3, <2>6
  <2>8. x = 10 /\ y = 5 => c[1] = 49 /\ c[3] = 46 /\ c[5] = 46
    BY <2>1, <2>4
  <2>9. x >= 1 => c[1] \in 49..57 /\ c[3] \in 46..57
    <3>1. CASE x < 10
      BY <2>1, <2>6, <3>1, SMTT(30)
    <3>2. CASE x >= 10
      <4>1. c[3] = 46 /\ c[1] \in 49..57
        BY <2>1, <3>2
      <4> QED BY <4>1
    <3> QED BY <3>1, <3>2
  <2>10. x >= 1 /\ c[3] = 46 => c[5] \in 46..57
    <3>1. c[3] = 46 => x >= 10
      <4>1. x < 10 => c[3] \in 48..57
        BY <2>1, <2>6
      <4> QED BY <4>1
    <3> QED BY <2>4, <2>5, <3>1
  <2> QED BY <2>7, <2>8, <2>9, <2>10 DEF Compared
<1>13. c = (((Digits(x) \o <<46>>) \o Digits(y)) \o <<46>>) \o Digits(z)
  BY <1>1, <1>2, <1>3, <1>5, <1>7, <1>8, <1>9, <1>10, Zenon
<1> QED BY <1>12, <1>13, Zenon

\* The check against the minimum: it refuses no supported server, and a MySQL
\* server that it accepts is supported.
LEMMA VersionCheck ==
    ASSUME NEW v \in Versions
    PROVE  /\ IncompatibleVersion(v) => ~Supported(v)
           /\ ~IncompatibleVersion(v) => Supported(v) \/ v.mariadb
<1>1. v \in [mariadb : BOOLEAN, major : 1..99, minor : 0..99, patch : 0..99]
  BY StartupAssumption
<1>2. PICK x \in 1..99, y \in 0..99, z \in 0..99 : v.major = x /\ v.minor = y /\ v.patch = z
  BY <1>1
<1>3. ~v.mariadb => x < 10 /\ y < 10
  BY <1>2, StartupAssumption
<1>4. PICK a : a = Chars(v)
  OBVIOUS
<1>5. Compared(x, y, z, a)
  <2>1. a = (((Digits(x) \o <<46>>) \o Digits(y)) \o <<46>>) \o Digits(z)
    BY <1>2, <1>4, Zenon DEF Chars
  <2>2. x \in 0..99
    OBVIOUS
  <2> QED BY <2>1, <2>2, CharsAre, Zenon
<1>6. PICK b : b = Chars(MinVersion(v))
  OBVIOUS
<1>7. IncompatibleVersion(v) <=> \/ a[1] < b[1]
                                 \/ a[1] = b[1] /\ a[3] < b[3]
                                 \/ a[1] = b[1] /\ a[3] = b[3] /\ a[5] < b[5]
  <2>1. IncompatibleVersion(v) <=> \E i \in {1, 3, 5} : a[i] < b[i] /\ \A j \in {1, 3, 5} : j < i => a[j] = b[j]
    BY <1>4, <1>6 DEF IncompatibleVersion
  <2> QED BY <2>1
<1>8. CASE ~v.mariadb
  <2>1. MinVersion(v) = [major |-> 5, minor |-> 7, patch |-> 0]
    BY <1>8 DEF MinVersion
  <2>2. a[1] = 48 + x /\ a[3] = 48 + y /\ a[5] \in 48..57
    <3>1. x < 10 /\ y < 10
      BY <1>3, <1>8
    <3> QED BY <1>5, <3>1 DEF Compared
  <2>3. b[1] = 53 /\ b[3] = 55 /\ b[5] = 48
    <3>1. Compared(5, 7, 0, b)
      <4>1. PICK w : w = MinVersion(v) /\ w.major = 5 /\ w.minor = 7 /\ w.patch = 0
        BY <2>1
      <4>3. b = (((Digits(5) \o <<46>>) \o Digits(7)) \o <<46>>) \o Digits(0)
        BY <1>6, <4>1, Zenon DEF Chars
      <4>2. 5 \in 0..99 /\ 7 \in 0..99 /\ 0 \in 0..99
        OBVIOUS
      <4> QED BY <4>2, <4>3, CharsAre, Zenon
    <3> QED BY <3>1 DEF Compared
  <2>4. Supported(v) <=> x > 5 \/ (x = 5 /\ y > 7) \/ (x = 5 /\ y = 7 /\ z >= 0)
    BY <1>2, <2>1 DEF Supported, Newer
  <2>5. IncompatibleVersion(v) <=> ~Supported(v)
    BY <1>7, <2>2, <2>3, <2>4
  <2> QED BY <2>5
<1>9. CASE v.mariadb
  <2>1. MinVersion(v) = [major |-> 10, minor |-> 5, patch |-> 0]
    BY <1>9 DEF MinVersion
  <2>2. a[1] \in 49..57 /\ a[3] \in 46..57 /\ (a[3] = 46 => a[5] \in 46..57)
    <3>1. x >= 1
      OBVIOUS
    <3> QED BY <1>5, <3>1 DEF Compared
  <2>3. b[1] = 49 /\ b[3] = 46 /\ b[5] = 46
    <3>1. Compared(10, 5, 0, b)
      <4>1. PICK w : w = MinVersion(v) /\ w.major = 10 /\ w.minor = 5 /\ w.patch = 0
        BY <2>1
      <4>3. b = (((Digits(10) \o <<46>>) \o Digits(5)) \o <<46>>) \o Digits(0)
        BY <1>6, <4>1, Zenon DEF Chars
      <4>2. 10 \in 0..99 /\ 5 \in 0..99 /\ 0 \in 0..99
        OBVIOUS
      <4> QED BY <4>2, <4>3, CharsAre, Zenon
    <3> QED BY <3>1 DEF Compared
  <2>4. ~IncompatibleVersion(v)
    BY <1>7, <2>2, <2>3
  <2> QED BY <1>9, <2>4
<1> QED BY <1>8, <1>9

-----------------------------------------------------------------------------
(***************************************************************************)
(* The startup.  Everything behind the configuration is said in terms of   *)
(* the options, which no longer change: Shared is the info as StartDB has  *)
(* set it, and Placed where the i-th connection of a type may be.          *)
(***************************************************************************)

Shared == ConnectionInfo(options[<<"LoginDatabaseInfo">>])
OnSocket == Shared.host = <<".">>
SharedPort == FromString(Shared.port_or_socket, 0, UInt32Max)

\* Where the i-th connection of a type may be after so many retries.
Placed(x, kind, i, tries) ==
    \/ OnSocket /\ kind = "async" /\ i = 1 /\ x = <<"socket", Shared.port_or_socket>>
    \/ /\ SharedPort # <<>> /\ x = <<"port", SharedPort>>
       /\ OnSocket /\ kind = "async" /\ i = 1 => tries > 0

\* main has got past the checks that come before the pool.
Started == phase \in {"opening", "incompatible", "serving", "served", "undefined"}

StartTypeOK == /\ phase \in {"config", "opening", "exit", "incompatible", "serving", "served", "undefined"}
               /\ server \in Versions
               /\ \E S : opened \in [Kinds -> Seq(S)]
               /\ made \in Nat /\ retries \in Nat

ThreadsSet == Started => /\ <<"LoginDatabaseInfo">> \in DOMAIN options
                         /\ threads.async = GetOption("WorkerThreads", 0, 255, 1)
                         /\ threads.async \in 1..32
                         /\ threads.synch = GetOption("SynchThreads", 0, 255, 1)
                         /\ threads.synch \in Nat

\* A connection that needs a port has one, and is at its place.
InPlace == /\ phase = "config" => opened = NoneOpened /\ made = 0 /\ retries = 0
           /\ Started => \A k \in Kinds : \A i \in DOMAIN opened[k] : Placed(opened[k][i], k, i, retries)

\* The first call of Open for a socket has replaced the host of the others.
InfoShared == phase = "opening" =>
    info = IF OnSocket /\ NotTheFirst THEN [Shared EXCEPT !.host = <<"localhost">>] ELSE Shared

\* The connections of a pool of a and b threads after m connections of a call of
\* the pool's Open, and the asynchronous ones of some of the r calls before it.
Counts(a, b, m, r, la, ls) ==
    /\ m <= a + b
    /\ ls = IF m <= a THEN 0 ELSE m - a
    /\ \E n \in 0..r : la = n * a + (IF m <= a THEN m ELSE a)

\* A number of whole calls' connections, of at most r + 1 calls.
WholeCalls(a, r, la) == \E n \in 1..(r + 1) : la = n * a

Counted == Started => Counts(threads.async, threads.synch, made, retries,
                             Len(opened["async"]), Len(opened["synch"]))

AllOpen == phase \in {"serving", "served"} => made = Connections /\ PortExists

\* Why the program has reached undefined behaviour.
Caused == phase = "undefined" => \/ ~OnSocket /\ SharedPort = <<>>
                                 \/ OnSocket /\ NotTheFirst
                                 \/ made = Connections /\ threads.synch = 0

VersionChecked == /\ opened["async"] # <<>> => ~IncompatibleVersion(server)
                  /\ phase = "incompatible" => IncompatibleVersion(server)

StartInv == /\ StartTypeOK /\ ThreadsSet /\ InPlace /\ InfoShared /\ Counted
            /\ AllOpen /\ Caused /\ VersionChecked

\* The fields of an info.
LEMMA InfoFields ==
    ASSUME NEW t
    PROVE  \E h, p, u, w, d, s : ConnectionInfo(t) =
              [host |-> h, port_or_socket |-> p, user |-> u, password |-> w, database |-> d, ssl |-> s]
  BY ZenonT(60) DEF ConnectionInfo

\* One connection more, a call more, and what the first and the last connection
\* of a call say.
CountsOn(a, b, m, r, la, ls) ==
    /\ m < a => Counts(a, b, m + 1, r, la + 1, ls) /\ Counts(a, b, 0, r + 1, 0, ls)
    /\ ~(m < a) => /\ m < a + b => Counts(a, b, m + 1, r, la, ls + 1)
                   /\ Counts(a, b, 0, r + 1, la, 0)
    /\ m = 0 /\ r = 0 => la = 0
    /\ 0 < m /\ m < a => la > 0
    /\ m = a + b => ls = b /\ la > 0 /\ WholeCalls(a, r, la)

LEMMA Counting ==
    ASSUME NEW a \in 1..32, NEW b \in Nat, NEW m \in Nat, NEW r \in Nat, NEW la, NEW ls,
           Counts(a, b, m, r, la, ls)
    PROVE  CountsOn(a, b, m, r, la, ls)
<1>1. PICK n \in 0..r : la = n * a + (IF m <= a THEN m ELSE a)
  BY DEF Counts
<1>2. m <= a + b /\ ls = IF m <= a THEN 0 ELSE m - a
  BY DEF Counts
<1>3. n \in Nat /\ n * a \in Nat /\ (n + 1) * a = n * a + a /\ 0 * a = 0
  <2>1. \A x \in 1..32, y \in Nat : y * x \in Nat /\ (y + 1) * x = y * x + x /\ 0 * x = 0
    OBVIOUS
  <2>2. n \in Nat
    BY <1>1
  <2> QED BY <2>1, <2>2
<1>4. PICK p \in Nat : p = n * a /\ la = p + (IF m <= a THEN m ELSE a)
  BY <1>1, <1>3
<1>5. 0 < m /\ m < a => la > 0
  BY <1>2, <1>4
<1>6. CASE m < a
  <2>1. /\ m + 1 <= a + b /\ 0 <= a + b /\ m <= a /\ m + 1 <= a /\ 0 <= a /\ ls = 0
        /\ la + 1 = p + (m + 1) /\ m # a + b
    BY <1>2, <1>4, <1>6
  <2>2. Counts(a, b, m + 1, r, la + 1, ls)
    BY <1>1, <1>4, <2>1 DEF Counts
  <2>3. Counts(a, b, 0, r + 1, 0, ls)
    <3>1. 0 \in 0..(r + 1) /\ 0 = 0 * a + 0
      BY <1>3
    <3> QED BY <2>1, <3>1 DEF Counts
  <2>4. m = 0 /\ r = 0 => la = 0
    <3> SUFFICES ASSUME m = 0, r = 0 PROVE la = 0
      OBVIOUS
    <3>1. n = 0
      BY <1>1
    <3> QED BY <1>3, <1>4, <2>1, <3>1
  <2> QED BY <1>5, <1>6, <2>1, <2>2, <2>3, <2>4 DEF CountsOn
<1>7. CASE ~(m < a)
  <2>1. ls = m - a /\ la = p + a /\ 0 <= a /\ 0 <= a + b /\ ~(m + 1 <= a) /\ m # 0 /\ la > 0
    BY <1>2, <1>4, <1>7
  <2>2. m < a + b => Counts(a, b, m + 1, r, la, ls + 1)
    <3> SUFFICES ASSUME m < a + b PROVE Counts(a, b, m + 1, r, la, ls + 1)
      OBVIOUS
    <3>1. m + 1 <= a + b /\ ls + 1 = m + 1 - a
      BY <2>1
    <3> QED BY <1>1, <1>4, <2>1, <3>1 DEF Counts
  <2>3. n + 1 \in 1..(r + 1) /\ n + 1 \in 0..(r + 1) /\ la = (n + 1) * a /\ la = (n + 1) * a + 0
    BY <1>1, <1>3, <1>4, <2>1
  <2>4. Counts(a, b, 0, r + 1, la, 0)
    BY <2>1, <2>3 DEF Counts
  <2>5. m = a + b => ls = b
    BY <2>1
  <2>6. WholeCalls(a, r, la)
    BY <2>3 DEF WholeCalls
  <2> QED BY <1>5, <1>7, <2>1, <2>2, <2>4, <2>5, <2>6 DEF CountsOn
<1> QED BY <1>6, <1>7

LEMMA CountingPool ==
    ASSUME StartInv, Started
    PROVE  CountsOn(threads.async, threads.synch, made, retries,
                    Len(opened["async"]), Len(opened["synch"]))
<1>1. threads.async \in 1..32 /\ threads.synch \in Nat /\ made \in Nat /\ retries \in Nat
  BY DEF StartInv, ThreadsSet, StartTypeOK
<1>2. Counts(threads.async, threads.synch, made, retries, Len(opened["async"]), Len(opened["synch"]))
  BY DEF StartInv, Counted
<1> QED BY <1>1, <1>2, Counting, Zenon

LEMMA CountingStarts ==
    ASSUME NEW a \in 1..32, NEW b \in Nat
    PROVE  Counts(a, b, 0, 0, 0, 0)
<1>1. 0 \in 0..0 /\ 0 = 0 * a + 0 /\ 0 <= a /\ 0 <= a + b
  OBVIOUS
<1> QED BY <1>1 DEF Counts

\* The options no longer change.
LEMMA OptionsKept ==
    ASSUME UNCHANGED cvars
    PROVE  /\ options' = options /\ Shared' = Shared /\ (OnSocket' <=> OnSocket) /\ SharedPort' = SharedPort
           /\ \A x, k, i, n : Placed(x, k, i, n)' <=> Placed(x, k, i, n)
           /\ \A n, lo, hi, def : GetOption(n, lo, hi, def)' = GetOption(n, lo, hi, def)
           /\ PortExists' <=> PortExists
<1>1. options' = options
  BY DEF cvars
<1>2. Shared' = Shared
  BY <1>1 DEF Shared
<1>3. (OnSocket' <=> OnSocket) /\ SharedPort' = SharedPort
  BY <1>2 DEF OnSocket, SharedPort
<1>4. \A x, k, i, n : Placed(x, k, i, n)' <=> Placed(x, k, i, n)
  BY <1>2, <1>3 DEF Placed
<1>5. \A n, lo, hi, def : GetOption(n, lo, hi, def)' = GetOption(n, lo, hi, def)
  BY <1>1 DEF GetOption
<1>6. PortExists' <=> PortExists
  BY <1>1 DEF PortExists, GetOption
<1> QED BY <1>1, <1>2, <1>3, <1>4, <1>5, <1>6

\* What FromString returns.
LEMMA FromStringIs ==
    ASSUME NEW text, NEW lo, NEW hi
    PROVE  /\ IsNumber(text, lo, hi) => FromString(text, lo, hi) = <<Numerals[text[1]]>>
           /\ ~IsNumber(text, lo, hi) => FromString(text, lo, hi) = <<>>
           /\ FromString(text, lo, hi) # <<>> => IsNumber(text, lo, hi)
<1>1. /\ IsNumber(text, lo, hi) => FromString(text, lo, hi) = <<Numerals[text[1]]>>
      /\ ~IsNumber(text, lo, hi) => FromString(text, lo, hi) = <<>>
  BY Zenon DEF IsNumber, FromString
<1> QED BY <1>1

\* An option of a byte is one.
LEMMA OptionByte == ASSUME NEW name PROVE GetOption(name, 0, 255, 1) \in Nat
<1>1. PICK t : t = options[<<name>>]
  OBVIOUS
<1>2. FromString(t, 0, 255) # <<>> => FromString(t, 0, 255)[1] \in 0..255
  <2> SUFFICES ASSUME FromString(t, 0, 255) # <<>> PROVE FromString(t, 0, 255)[1] \in 0..255
    OBVIOUS
  <2>1. IsNumber(t, 0, 255) /\ FromString(t, 0, 255) = <<Numerals[t[1]]>>
    BY FromStringIs
  <2>2. Numerals[t[1]] \in 0..255
    BY <2>1 DEF IsNumber
  <2>3. PICK x : x = Numerals[t[1]]
    OBVIOUS
  <2>4. FromString(t, 0, 255) = <<x>> /\ <<x>>[1] = x
    BY <2>1, <2>3
  <2>5. FromString(t, 0, 255)[1] = x
    BY <2>4, Zenon
  <2> QED BY <2>2, <2>3, <2>5, Zenon
<1>3. \/ GetOption(name, 0, 255, 1) = 1
      \/ FromString(t, 0, 255) # <<>> /\ GetOption(name, 0, 255, 1) = FromString(t, 0, 255)[1]
  BY <1>1, Zenon DEF GetOption
<1>4. 1 \in Nat /\ \A x \in 0..255 : x \in Nat
  OBVIOUS
<1> QED BY <1>2, <1>3, <1>4

\* Where the next connection goes, and what Open leaves of the info.
LEMMA TargetIs ==
    ASSUME StartInv, phase = "opening"
    PROVE  /\ OnSocket /\ ~NotTheFirst => Target = <<"socket", Shared.port_or_socket>>
           /\ ~(OnSocket /\ ~NotTheFirst) =>
                 Target = IF SharedPort = <<>> THEN <<>> ELSE <<"port", SharedPort>>
           /\ Localised = IF OnSocket THEN [Shared EXCEPT !.host = <<"localhost">>] ELSE Shared
<1>1. PICK h, p, u, w, d, s : Shared =
         [host |-> h, port_or_socket |-> p, user |-> u, password |-> w, database |-> d, ssl |-> s]
  BY InfoFields DEF Shared
<1>2. info = IF OnSocket /\ NotTheFirst THEN [Shared EXCEPT !.host = <<"localhost">>] ELSE Shared
  BY DEF StartInv, InfoShared
<1>3. CASE OnSocket /\ ~NotTheFirst
  <2>1. info = Shared
    BY <1>2, <1>3
  <2>2. info.host = <<".">>
    BY <1>3, <2>1 DEF OnSocket
  <2> QED BY <1>3, <2>1, <2>2 DEF Target, Localised
<1>4. CASE ~(OnSocket /\ ~NotTheFirst)
  <2>1. info.host # <<".">> /\ info.port_or_socket = Shared.port_or_socket
    <3>1. CASE OnSocket
      <4>1. info = [Shared EXCEPT !.host = <<"localhost">>]
        BY <1>2, <1>4, <3>1
      <4>2. info.host = <<"localhost">> /\ info.port_or_socket = p
        BY <1>1, <4>1
      <4>3. <<"localhost">> # <<".">>
        OBVIOUS
      <4> QED BY <1>1, <4>2, <4>3
    <3>2. CASE ~OnSocket
      BY <1>2, <3>2 DEF OnSocket
    <3> QED BY <3>1, <3>2
  <2>2. Target = IF SharedPort = <<>> THEN <<>> ELSE <<"port", SharedPort>>
    BY <2>1, Zenon DEF Target, SharedPort
  <2>3. Localised = info
    BY <2>1 DEF Localised
  <2>4. OnSocket => NotTheFirst
    BY <1>4
  <2> QED BY <1>2, <1>4, <2>2, <2>3, <2>4
<1> QED BY <1>3, <1>4

\* Init and the steps of the configuration.
LEMMA StartInitially == Init => StartInv
<1> SUFFICES ASSUME Init PROVE StartInv
  OBVIOUS
<1>1. /\ phase = "config" /\ opened = NoneOpened /\ server \in Versions
      /\ made = 0 /\ retries = 0
  BY StartupAssumption DEF Init, MInit
<1>2. opened \in [Kinds -> Seq({})] /\ opened["async"] = <<>>
  BY <1>1 DEF Kinds, NoneOpened
<1> QED BY <1>1, <1>2 DEF StartInv, StartTypeOK, ThreadsSet, InPlace, InfoShared, Counted, AllOpen, Caused,
                          VersionChecked, Started

\* As long as main configures, nothing is opened.
LEMMA StartConfig ==
    ASSUME StartInv, phase = "config", UNCHANGED mvars
    PROVE  StartInv'
<1>1. /\ phase' = "config" /\ opened' = NoneOpened /\ server' \in Versions
      /\ made' = 0 /\ retries' = 0 /\ \E S : opened' \in [Kinds -> Seq(S)]
  BY DEF StartInv, StartTypeOK, InPlace, mvars
<1>2. opened'["async"] = <<>>
  BY <1>1 DEF Kinds, NoneOpened
<1> QED BY <1>1, <1>2 DEF StartInv, StartTypeOK, ThreadsSet, InPlace, InfoShared, Counted, AllOpen, Caused,
                    VersionChecked, Started

\* A step that changes nothing.
LEMMA StartStutter ==
    ASSUME StartInv, UNCHANGED vars
    PROVE  StartInv'
<1>1. UNCHANGED cvars /\ UNCHANGED mvars
  BY DEF vars
<1>2. /\ phase' = phase /\ info' = info /\ threads' = threads /\ opened' = opened /\ server' = server
      /\ made' = made /\ retries' = retries
      /\ Connections' = Connections /\ (NotTheFirst' <=> NotTheFirst)
  BY <1>1 DEF mvars, Connections, NotTheFirst
<1>3. StartTypeOK' /\ VersionChecked'
  BY <1>2 DEF StartInv, StartTypeOK, VersionChecked
<1>4. ThreadsSet' /\ InPlace' /\ Counted'
  BY <1>1, <1>2, OptionsKept DEF StartInv, ThreadsSet, InPlace, Counted, Started
<1>5. InfoShared' /\ AllOpen' /\ Caused'
  BY <1>1, <1>2, OptionsKept DEF StartInv, InfoShared, AllOpen, Caused
<1> QED BY <1>3, <1>4, <1>5 DEF StartInv

\* StartDB sets the info and the threads from the options.
LEMMA StartStartDB ==
    ASSUME StartInv, StartDB
    PROVE  StartInv'
<1>1. /\ phase = "config" /\ server' \in Versions /\ UNCHANGED cvars
      /\ opened' = NoneOpened /\ made' = 0 /\ retries' = 0
  BY DEF StartInv, InPlace, StartDB
<1>2. /\ opened' \in [Kinds -> Seq({})] /\ opened'["async"] = <<>> /\ opened'["synch"] = <<>>
      /\ Len(opened'["async"]) = 0 /\ Len(opened'["synch"]) = 0
      /\ \A k \in Kinds : DOMAIN opened'[k] = {}
  BY <1>1 DEF Kinds, NoneOpened
<1>3. CASE Refused
  <2>1. phase' = "exit"
    BY <1>3 DEF StartDB
  <2> QED BY <1>1, <1>2, <2>1 DEF StartInv, StartTypeOK, ThreadsSet, InPlace, InfoShared, Counted, AllOpen,
                                  Caused, VersionChecked, Started
<1>4. CASE ~Refused
  <2>1. /\ phase' = "opening" /\ info' = ConnectionInfo(GetText("LoginDatabaseInfo", <<>>))
        /\ threads' = [async |-> GetOption("WorkerThreads", 0, 255, 1),
                       synch |-> GetOption("SynchThreads", 0, 255, 1)]
    BY <1>4 DEF StartDB
  <2>2. <<"LoginDatabaseInfo">> \in DOMAIN options /\ GetOption("WorkerThreads", 0, 255, 1) \in 1..32
    BY <1>4 DEF Refused, GetText
  <2>3. info' = Shared
    BY <2>1, <2>2 DEF GetText, Shared
  <2>4. ThreadsSet'
    <3>1. GetOption("SynchThreads", 0, 255, 1) \in Nat
      BY OptionByte
    <3> QED BY <1>1, <2>1, <2>2, <3>1, OptionsKept DEF ThreadsSet
  <2>5. InfoShared'
    BY <1>1, <2>3, OptionsKept DEF InfoShared, NotTheFirst
  <2>6. StartTypeOK' /\ InPlace'
    BY <1>1, <1>2, <2>1 DEF StartTypeOK, InPlace
  <2>7. AllOpen' /\ Caused' /\ VersionChecked'
    BY <1>1, <1>2, <2>1 DEF AllOpen, Caused, VersionChecked
  <2>8. Counted'
    <3>1. PICK a \in 1..32, b \in Nat : threads' = [async |-> a, synch |-> b]
      BY <2>1, <2>2, OptionByte
    <3>2. threads'.async = a /\ threads'.synch = b
      BY <3>1
    <3> QED BY <1>1, <1>2, <3>2, CountingStarts DEF Counted
  <2> QED BY <2>4, <2>5, <2>6, <2>7, <2>8 DEF StartInv
<1> QED BY <1>3, <1>4

\* What a step of the pool's Open does not touch.
LEMMA StartThreads ==
    ASSUME StartInv, phase = "opening", UNCHANGED <<cvars, threads, server>>
    PROVE  /\ ThreadsSet' /\ Connections' = Connections
           /\ threads.async \in 1..32 /\ threads.synch \in Nat /\ Connections \in Nat
           /\ server \in Versions /\ made \in Nat /\ retries \in Nat
<1>1. /\ threads.async = GetOption("WorkerThreads", 0, 255, 1) /\ threads.async \in 1..32
      /\ threads.synch = GetOption("SynchThreads", 0, 255, 1) /\ threads.synch \in Nat
      /\ <<"LoginDatabaseInfo">> \in DOMAIN options
  BY DEF StartInv, ThreadsSet, Started
<1>2. ThreadsSet'
  BY <1>1, OptionsKept DEF ThreadsSet
<1>3. Connections' = Connections
  BY DEF Connections
<1>4. Connections \in Nat
  <2>1. \A a \in 1..32, b \in Nat : a + b \in Nat
    OBVIOUS
  <2> QED BY <1>1, <2>1 DEF Connections
<1>5. server \in Versions /\ made \in Nat /\ retries \in Nat
  BY DEF StartInv, StartTypeOK
<1> QED BY <1>1, <1>2, <1>3, <1>4, <1>5

\* A connection is opened, or the version is refused, or there is no port.
LEMMA StartOpen ==
    ASSUME StartInv, Open
    PROVE  StartInv'
<1>1. /\ phase = "opening" /\ UNCHANGED cvars /\ threads' = threads /\ server' = server
      /\ retries' = retries /\ info' = Localised /\ made < Connections
  BY DEF Open, Making
<1>2. PICK S : opened \in [Kinds -> Seq(S)]
  BY DEF StartInv, StartTypeOK
<1>3. /\ ThreadsSet' /\ Connections' = Connections
      /\ threads.async \in 1..32 /\ threads.synch \in Nat /\ Connections \in Nat
      /\ server \in Versions /\ made \in Nat /\ retries \in Nat
  BY <1>1, StartThreads
<1>4. \A k \in Kinds : \A i \in DOMAIN opened[k] : Placed(opened[k][i], k, i, retries)
  BY <1>1 DEF StartInv, InPlace, Started
<1>5. Started /\ Counted
  BY <1>1 DEF StartInv, Started
<1>10. PICK la, ls : la = Len(opened["async"]) /\ ls = Len(opened["synch"])
  OBVIOUS
<1>6. ASSUME UNCHANGED <<opened, made>>, phase' \in {"undefined", "incompatible"},
             phase' = "undefined" => Caused', phase' = "incompatible" => IncompatibleVersion(server)
      PROVE  StartInv'
  <2>1. StartTypeOK' /\ VersionChecked'
    BY <1>1, <1>6 DEF StartInv, StartTypeOK, VersionChecked
  <2>2. InPlace'
    BY <1>1, <1>4, <1>6, OptionsKept DEF InPlace
  <2>3. Counted'
    BY <1>1, <1>5, <1>6 DEF Counted
  <2>4. InfoShared' /\ AllOpen' /\ Caused'
    BY <1>6 DEF InfoShared, AllOpen, Caused
  <2> QED BY <1>3, <2>1, <2>2, <2>3, <2>4 DEF StartInv
<1>7. CASE Target = <<>>
  <2>1. phase' = "undefined" /\ UNCHANGED <<opened, made>>
    BY <1>7 DEF Open
  <2>2. <<"socket", Shared.port_or_socket>> # <<>> /\ <<"port", SharedPort>> # <<>>
    OBVIOUS
  <2>3. ~(OnSocket /\ ~NotTheFirst)
    BY <1>1, <1>7, <2>2, TargetIs
  <2>4. SharedPort = <<>>
    BY <1>1, <1>7, <2>2, <2>3, TargetIs
  <2>5. NotTheFirst' <=> NotTheFirst
    BY <1>1, <2>1 DEF NotTheFirst
  <2>6. Caused'
    BY <1>1, <2>1, <2>3, <2>4, <2>5, OptionsKept DEF Caused
  <2> QED BY <1>6, <2>1, <2>6
<1>8. CASE Target # <<>> /\ IncompatibleVersion(server)
  <2>1. phase' = "incompatible" /\ UNCHANGED <<opened, made>>
    BY <1>8 DEF Open
  <2> QED BY <1>6, <1>8, <2>1
<1>9. CASE Target # <<>> /\ ~IncompatibleVersion(server)
  <2>1. /\ phase' = "opening" /\ opened' = [opened EXCEPT ![Kind] = Append(@, Target)]
        /\ made' = made + 1
    BY <1>1, <1>9 DEF Open
  <2>2. Kind \in Kinds /\ (Kind = "async" <=> made < threads.async)
    BY DEF Kind, Kinds
  <2>3. PICK q : q = opened[Kind]
    OBVIOUS
  <2>4. q \in Seq(S) /\ Len(q) \in Nat
    BY <1>2, <2>2, <2>3
  <2>5. PICK r : r = Append(q, Target)
    OBVIOUS
  <2>6. /\ r \in Seq(S \cup {Target}) /\ Len(r) = Len(q) + 1 /\ r # <<>>
        /\ r[Len(q) + 1] = Target /\ DOMAIN r = DOMAIN q \cup {Len(q) + 1}
        /\ \A i \in DOMAIN q : r[i] = q[i]
    BY <2>4, <2>5
  <2>7. /\ opened' \in [Kinds -> Seq(S \cup {Target})]
        /\ opened'[Kind] = r /\ \A k \in Kinds : k # Kind => opened'[k] = opened[k]
    BY <1>2, <2>1, <2>2, <2>3, <2>5, <2>6
  <2>8. NotTheFirst'
    BY <1>1, <1>3, <2>1 DEF NotTheFirst
  <2>9. Placed(Target, Kind, Len(q) + 1, retries)
    <3>1. CASE OnSocket /\ ~NotTheFirst
      <4>1. Target = <<"socket", Shared.port_or_socket>>
        BY <1>1, <3>1, TargetIs
      <4>2. made = 0 /\ retries = 0
        BY <1>3, <3>1 DEF NotTheFirst
      <4>3. Kind = "async" /\ Len(opened["async"]) = 0
        <5>1. made < threads.async
          BY <1>3, <4>2
        <5> QED BY <1>5, <2>2, <4>2, <5>1, CountingPool DEF CountsOn
      <4> QED BY <2>3, <3>1, <4>1, <4>3 DEF Placed
    <3>2. CASE ~(OnSocket /\ ~NotTheFirst)
      <4>1. SharedPort # <<>> /\ Target = <<"port", SharedPort>>
        BY <1>1, <1>9, <3>2, TargetIs
      <4>2. OnSocket /\ Kind = "async" /\ Len(q) + 1 = 1 => retries > 0
        <5> SUFFICES ASSUME OnSocket, Kind = "async", Len(q) = 0, retries = 0 PROVE FALSE
          BY <1>3, <2>4
        <5>1. made > 0 /\ made < threads.async
          BY <1>3, <2>2, <3>2 DEF NotTheFirst
        <5>2. Len(opened["async"]) > 0
          BY <1>5, <5>1, CountingPool DEF CountsOn
        <5> QED BY <2>3, <5>2
      <4> QED BY <4>1, <4>2 DEF Placed
    <3> QED BY <3>1, <3>2
  <2>10. InPlace'
    <3>1. ASSUME NEW k \in Kinds, NEW i \in DOMAIN opened'[k] PROVE Placed(opened'[k][i], k, i, retries)
      <4>1. CASE k # Kind
        BY <1>4, <2>7, <3>1, <4>1
      <4>2. CASE k = Kind
        <5>1. i \in DOMAIN r /\ opened'[k][i] = r[i]
          BY <2>7, <3>1, <4>2
        <5>2. CASE i \in DOMAIN q
          BY <1>4, <2>2, <2>3, <2>6, <4>2, <5>1, <5>2
        <5>3. CASE i = Len(q) + 1
          BY <2>6, <2>9, <4>2, <5>1, <5>3
        <5> QED BY <2>6, <5>1, <5>2, <5>3
      <4> QED BY <4>1, <4>2
    <3> QED BY <1>1, <2>1, <3>1, OptionsKept DEF InPlace
  <2>11. InfoShared'
    BY <1>1, <2>8, TargetIs, OptionsKept DEF InfoShared
  <2>12. StartTypeOK'
    BY <1>1, <1>3, <2>1, <2>7 DEF StartTypeOK
  <2>13. Counted'
    <3>1. made < threads.async + threads.synch
      BY <1>1, <1>3 DEF Connections, Open, Making
    <3>2. CASE Kind = "async"
      <4>1. opened'["synch"] = opened["synch"] /\ Len(opened'["async"]) = Len(opened["async"]) + 1
        BY <2>3, <2>6, <2>7, <3>2 DEF Kinds
      <4>2. Counts(threads.async, threads.synch, made + 1, retries, la + 1, ls)
        BY <1>5, <1>10, <2>2, <3>2, CountingPool DEF CountsOn
      <4> QED BY <1>1, <1>10, <2>1, <4>1, <4>2 DEF Counted
    <3>3. CASE Kind = "synch"
      <4>1. opened'["async"] = opened["async"] /\ Len(opened'["synch"]) = Len(opened["synch"]) + 1
        BY <2>3, <2>6, <2>7, <3>3 DEF Kinds
      <4>2. ~(made < threads.async)
        BY <2>2, <3>3
      <4>3. Counts(threads.async, threads.synch, made + 1, retries, la, ls + 1)
        BY <1>5, <1>10, <3>1, <4>2, CountingPool DEF CountsOn
      <4> QED BY <1>1, <1>10, <2>1, <4>1, <4>3 DEF Counted
    <3> QED BY <2>2, <3>2, <3>3 DEF Kinds
  <2>14. AllOpen' /\ Caused' /\ VersionChecked'
    BY <1>1, <1>9, <2>1 DEF AllOpen, Caused, VersionChecked
  <2> QED BY <1>3, <2>10, <2>11, <2>12, <2>13, <2>14 DEF StartInv
<1> QED BY <1>7, <1>8, <1>9

\* A connection fails: those of its type are cleared, and the loader opens the
\* pool again with the host that is left in the info, or startup ends.
LEMMA StartOpenFails ==
    ASSUME StartInv, OpenFails
    PROVE  StartInv'
<1>1. /\ phase = "opening" /\ UNCHANGED cvars /\ threads' = threads /\ server' = server
      /\ info' = Localised /\ opened' = [opened EXCEPT ![Kind] = <<>>]
  BY DEF OpenFails, Making, Cleared
<1>2. PICK S : opened \in [Kinds -> Seq(S)]
  BY DEF StartInv, StartTypeOK
<1>3. /\ ThreadsSet' /\ Connections' = Connections
      /\ threads.async \in 1..32 /\ threads.synch \in Nat /\ Connections \in Nat
      /\ server \in Versions /\ made \in Nat /\ retries \in Nat
  BY <1>1, StartThreads
<1>4. \A k \in Kinds : \A i \in DOMAIN opened[k] : Placed(opened[k][i], k, i, retries)
  BY <1>1 DEF StartInv, InPlace, Started
<1>5. Started /\ Counted
  BY <1>1 DEF StartInv, Started
<1>11. PICK la, ls : la = Len(opened["async"]) /\ ls = Len(opened["synch"])
  OBVIOUS
<1>6. Kind \in Kinds /\ (Kind = "async" <=> made < threads.async)
  BY DEF Kind, Kinds
<1>7. /\ opened' \in [Kinds -> Seq(S)] /\ opened'[Kind] = <<>>
      /\ \A k \in Kinds : k # Kind => opened'[k] = opened[k]
  BY <1>1, <1>2, <1>6
<1>8. opened'["async"] # <<>> => opened["async"] # <<>>
  BY <1>6, <1>7 DEF Kinds
<1>9. CASE phase' = "exit" /\ UNCHANGED <<retries, made>>
  <2>1. StartTypeOK'
    BY <1>1, <1>3, <1>7, <1>9 DEF StartTypeOK
  <2>2. VersionChecked'
    BY <1>1, <1>8, <1>9 DEF StartInv, VersionChecked
  <2> QED BY <1>3, <1>9, <2>1, <2>2 DEF StartInv, InPlace, InfoShared, Counted, AllOpen, Caused, Started
<1>10. CASE phase' = "opening" /\ retries' = retries + 1 /\ made' = 0
  <2>1. StartTypeOK' /\ VersionChecked'
    BY <1>1, <1>3, <1>7, <1>8, <1>10 DEF StartInv, StartTypeOK, VersionChecked
  <2>2. InPlace'
    <3>1. ASSUME NEW k \in Kinds, NEW i \in DOMAIN opened'[k] PROVE Placed(opened'[k][i], k, i, retries + 1)
      <4>1. k # Kind /\ opened'[k] = opened[k]
        BY <1>7, <3>1
      <4>2. Placed(opened[k][i], k, i, retries)
        BY <1>4, <3>1, <4>1
      <4>3. retries + 1 > 0
        BY <1>3
      <4> QED BY <4>1, <4>2, <4>3 DEF Placed
    <3> QED BY <1>1, <1>10, <3>1, OptionsKept DEF InPlace
  <2>3. InfoShared'
    <3>1. NotTheFirst'
      BY <1>3, <1>10 DEF NotTheFirst
    <3> QED BY <1>1, <3>1, TargetIs, OptionsKept DEF InfoShared
  <2>4. Counted'
    <3>1. Len(<<>>) = 0
      OBVIOUS
    <3>2. CASE Kind = "async"
      <4>1. Len(opened'["async"]) = 0 /\ opened'["synch"] = opened["synch"] /\ made < threads.async
        BY <1>6, <1>7, <3>1, <3>2 DEF Kinds
      <4>2. Counts(threads.async, threads.synch, 0, retries + 1, 0, ls)
        BY <1>5, <1>11, <4>1, CountingPool DEF CountsOn
      <4> QED BY <1>1, <1>10, <1>11, <4>1, <4>2 DEF Counted
    <3>3. CASE Kind = "synch"
      <4>1. Len(opened'["synch"]) = 0 /\ opened'["async"] = opened["async"] /\ ~(made < threads.async)
        BY <1>6, <1>7, <3>1, <3>3 DEF Kinds
      <4>2. Counts(threads.async, threads.synch, 0, retries + 1, la, 0)
        BY <1>5, <1>11, <4>1, CountingPool DEF CountsOn
      <4> QED BY <1>1, <1>10, <1>11, <4>1, <4>2 DEF Counted
    <3> QED BY <1>6, <3>2, <3>3 DEF Kinds
  <2>5. AllOpen' /\ Caused'
    BY <1>10 DEF AllOpen, Caused
  <2> QED BY <1>3, <2>1, <2>2, <2>3, <2>4, <2>5 DEF StartInv
<1> QED BY <1>1, <1>9, <1>10 DEF OpenFails

\* PrepareStatements fails and closes the pool.
LEMMA StartPrepareFails ==
    ASSUME StartInv, PrepareFails
    PROVE  StartInv'
<1>1. /\ phase' = "exit" /\ opened' = NoneOpened /\ server' = server
      /\ made' = made /\ retries' = retries
  BY DEF PrepareFails
<1>2. opened' \in [Kinds -> Seq({})] /\ opened'["async"] = <<>>
  BY <1>1 DEF Kinds, NoneOpened
<1>3. StartTypeOK'
  BY <1>1, <1>2 DEF StartInv, StartTypeOK
<1> QED BY <1>1, <1>2, <1>3 DEF StartInv, ThreadsSet, InPlace, InfoShared, Counted, AllOpen, Caused,
                                VersionChecked, Started

\* The steps that only move main on: the check of the port, and the first
\* challenge.
LEMMA StartMoves ==
    ASSUME StartInv, CheckPort \/ Challenge
    PROVE  StartInv'
<1>1. /\ UNCHANGED cvars /\ threads' = threads /\ opened' = opened /\ server' = server /\ info' = info
      /\ made' = made /\ retries' = retries
  BY DEF CheckPort, Challenge
<1>3. Started /\ (phase' \in {"exit", "serving", "served", "undefined"})
  BY DEF CheckPort, Challenge, Started
<1>4. StartTypeOK' /\ VersionChecked' /\ InfoShared'
  BY <1>1, <1>3 DEF StartInv, StartTypeOK, VersionChecked, InfoShared
<1>6. Connections' = Connections
  BY <1>1 DEF Connections
<1>5. ThreadsSet' /\ InPlace' /\ Counted'
  BY <1>1, <1>3, <1>6, OptionsKept DEF StartInv, ThreadsSet, InPlace, Counted
<1>7. AllOpen'
  <2>1. phase' \in {"serving", "served"} => made = Connections /\ PortExists
    BY DEF CheckPort, Challenge, StartInv, AllOpen
  <2> QED BY <1>1, <1>6, <2>1, OptionsKept DEF AllOpen
<1>8. Caused'
  <2>1. ASSUME phase' = "undefined" PROVE made = Connections /\ threads.synch = 0
    <3>1. phase = "serving" /\ opened["synch"] = <<>>
      BY <2>1 DEF CheckPort, Challenge
    <3>2. /\ made = Connections /\ threads.async \in 1..32 /\ threads.synch \in Nat
          /\ made \in Nat /\ retries \in Nat
      BY <1>3, <3>1 DEF StartInv, AllOpen, ThreadsSet, StartTypeOK
    <3>3. Len(opened["synch"]) = threads.synch
      <4>1. made = threads.async + threads.synch
        BY <3>2 DEF Connections
      <4> QED BY <1>3, <4>1, CountingPool DEF CountsOn
    <3>4. Len(<<>>) = 0
      OBVIOUS
    <3> QED BY <3>1, <3>2, <3>3, <3>4
  <2> QED BY <1>1, <1>6, <2>1, OptionsKept DEF Caused
<1> QED BY <1>4, <1>5, <1>7, <1>8 DEF StartInv

\* The inductive invariant of the startup: what the pool holds and where its
\* connections are, also after retries with the info that a failed Open has left.
THEOREM StartInvariant == Spec => []StartInv
<1>1. StartInv /\ [Next]_vars => StartInv'
  BY StartConfig, StartStutter, StartStartDB, StartOpen, StartOpenFails, StartPrepareFails, StartMoves
     DEF Next, MNext, Rest
<1> QED BY <1>1, StartInitially, PTL DEF Spec

\* A server that is refused is not supported, and a MySQL server that is not
\* refused is supported, for any versions (DatabaseIncompatibleVersion).
THEOREM VersionGateHolds == Spec => []VersionGate
<1>1. StartInv => VersionGate
  <2> SUFFICES ASSUME StartInv PROVE VersionGate
    OBVIOUS
  <2>1. /\ server \in Versions
        /\ opened.async # <<>> => ~IncompatibleVersion(server)
        /\ phase = "incompatible" => IncompatibleVersion(server)
    BY DEF StartInv, StartTypeOK, VersionChecked
  <2>2. /\ IncompatibleVersion(server) => ~Supported(server)
        /\ ~IncompatibleVersion(server) => Supported(server) \/ server.mariadb
    BY <2>1, VersionCheck, Zenon
  <2> QED BY <2>1, <2>2 DEF VersionGate
<1> QED BY <1>1, StartInvariant, PTL

-----------------------------------------------------------------------------
(***************************************************************************)
(* What is written.                                                        *)
(***************************************************************************)

\* The value of an option is the beginning of what its line means, and all of
\* it unless that has a '#' in it.
LEMMA WrittenIs ==
    ASSUME ConfigInv, NEW k \in DOMAIN options
    PROVE  \E X : /\ options[k] \in Seq(X) /\ Written(k) \in Seq(X)
                  /\ Starts(Written(k), options[k])
                  /\ "#" \notin ToSet(Written(k)) => options[k] = Written(k)
<1> DEFINE Final(n) == Mentions(n, k) /\ \A m \in (n + 1)..Len(loaded) : ~Mentions(m, k)
           N == CHOOSE n \in DOMAIN loaded : Final(n)
           I == CHOOSE i \in DOMAIN loaded[N].text : Says(N, i, k)
<1>1. Written(k) = Without(After(Meant(loaded[N].text[I]), "="), "quote")
  BY DEF Written
<1>2. loaded \in Seq(LoadedFiles) /\ DOMAIN loaded = 1..Len(loaded) /\ Len(loaded) \in Nat
  BY DEF ConfigInv, ConfigTypeOK
<1>3. PICK n \in DOMAIN loaded :
         /\ \A m \in (n + 1)..Len(loaded) : ~Mentions(m, k)
         /\ \E i \in DOMAIN loaded[n].text : Says(n, i, k) /\ options[k] = ValueOf(loaded[n].text[i])
  <2>1. OptionsLayered
    BY DEF ConfigInv, Layered, OptionsLayered, Introduces, Mentions, MentionsIn, Says, SaysIn
  <2> QED BY <2>1 DEF OptionsLayered
<1>4. PICK i \in DOMAIN loaded[n].text : Says(n, i, k) /\ options[k] = ValueOf(loaded[n].text[i])
  BY <1>3
<1>5. Final(n)
  BY <1>3, <1>4 DEF Mentions
<1>6. N = n
  <2>1. ASSUME NEW m \in DOMAIN loaded, Final(m) PROVE m = n
    <3>1. m \in Nat /\ n \in Nat /\ m <= Len(loaded) /\ n <= Len(loaded)
      BY <1>2
    <3>2. ~(m < n)
      <4>1. m < n => n \in (m + 1)..Len(loaded)
        BY <1>2, <3>1
      <4> QED BY <1>5, <2>1, <4>1
    <3>3. ~(n < m)
      <4>1. n < m => m \in (n + 1)..Len(loaded)
        BY <1>2, <3>1
      <4> QED BY <1>5, <2>1, <4>1
    <3> QED BY <3>1, <3>2, <3>3
  <2> HIDE DEF Final
  <2> QED BY <1>5, <2>1, Zenon
<1> HIDE DEF N
<1> DEFINE text == loaded[n].text
<1>7. text \in Texts \ {Missing}
  <2>1. loaded[n] \in LoadedFiles
    BY <1>2
  <2> QED BY <2>1 DEF LoadedFiles
<1>8. text \in Seq(Lines) /\ DOMAIN text = 1..Len(text) /\ Len(text) \in Nat
  BY <1>7, TextLines
<1>9. I = i
  <2>1. ASSUME NEW j \in DOMAIN text, Says(n, j, k) PROVE j = i
    <3>1. ASSUME NEW a \in DOMAIN text, NEW b \in DOMAIN text, Says(n, a, k), Says(n, b, k), a < b
          PROVE  FALSE
      <4>1. a \in 1..(b - 1)
        BY <1>8, <3>1
      <4> QED BY <3>1, <4>1 DEF Says
    <3>2. i < j \/ j < i \/ i = j
      BY <1>8
    <3> QED BY <1>4, <2>1, <3>1, <3>2
  <2>2. I = CHOOSE j \in DOMAIN text : Says(n, j, k)
    BY <1>6
  <2> QED BY <1>4, <2>1, <2>2, Zenon
<1> HIDE DEF I, text
<1> DEFINE line == text[i]
<1>10. Written(k) = Without(After(Meant(line), "="), "quote") /\ options[k] = ValueOf(line)
  BY <1>1, <1>4, <1>6, <1>9 DEF text
<1>11. IsOption(line)
  <2>1. line \in OptionLines
    BY <1>4 DEF Says, text
  <2> QED BY <2>1 DEF OptionLines
<1>12. line \in Seq(ToSet(line))
  <2>1. PICK f \in Files : text \in Contents[f] \ {Missing}
    BY <1>7 DEF Texts
  <2>2. i \in DOMAIN text
    BY DEF text
  <2> QED BY <2>1, <2>2, ConfigAssumption
<1> HIDE DEF line
<1> QED BY <1>10, <1>11, <1>12, LineValue

\* A text with two separators has a separator, and another one behind that.
LEMMA TwoSeparators ==
    ASSUME NEW X, NEW s \in Seq(X), NEW x, NEW n,
           n = Occurs(s, x), n > 1
    PROVE  FirstOf(s, x) <= Len(s) /\ FirstOf(After(s, x), x) <= Len(After(s, x))
<1> DEFINE S == {i \in DOMAIN s : s[i] = x}
<1>1. PICK f \in 1..(Len(s) + 1) : /\ f = FirstOf(s, x) /\ (f \in DOMAIN s => s[f] = x)
                                   /\ \A j \in 1..(f - 1) : s[j] # x
  BY FirstOfIs
<1>2. Len(s) \in Nat /\ DOMAIN s = 1..Len(s)
  OBVIOUS
<1>3. f <= Len(s)
  <2> SUFFICES ASSUME ~(f <= Len(s)) PROVE FALSE
    OBVIOUS
  <2>1. \A j \in DOMAIN s : s[j] # x
    BY <1>1, <1>2
  <2>2. S = {}
    BY <2>1
  <2>3. n = Cardinality({})
    BY <2>2, Zenon DEF Occurs
  <2> QED BY <2>3, FS_EmptySet
<1> DEFINE r == After(s, x)
<1>4. r \in Seq(X) /\ Len(r) = Len(s) - f /\ \A i \in DOMAIN r : r[i] = s[f + i]
  BY <1>1, <1>2, <1>3, BeforeAfter
<1> HIDE DEF r
<1>5. PICK h \in 1..(Len(r) + 1) : h = FirstOf(r, x) /\ \A j \in 1..(h - 1) : r[j] # x
  BY <1>4, FirstOfIs
<1>6. h <= Len(r)
  <2> SUFFICES ASSUME ~(h <= Len(r)) PROVE FALSE
    OBVIOUS
  <2>1. \A j \in DOMAIN r : r[j] # x
    BY <1>4, <1>5
  <2>2. ASSUME NEW j \in DOMAIN s, s[j] = x PROVE j = f
    <3>1. ~(j < f)
      BY <1>1, <1>2, <2>2
    <3>2. ASSUME f < j PROVE FALSE
      <4>1. j - f \in DOMAIN r /\ f + (j - f) = j
        BY <1>2, <1>4, <3>2
      <4>2. r[j - f] = s[f + (j - f)]
        BY <1>4, <4>1
      <4> QED BY <2>1, <2>2, <4>1, <4>2
    <3> QED BY <1>2, <3>1, <3>2
  <2>3. S = {f}
    <3>1. f \in DOMAIN s
      BY <1>2, <1>3
    <3> QED BY <1>1, <2>2, <3>1
  <2>4. n = Cardinality({f})
    BY <2>3, Zenon DEF Occurs
  <2>5. n = 1
    BY <2>4, FS_Singleton
  <2> QED BY <2>5
<1> QED BY <1>1, <1>3, <1>5, <1>6 DEF r

\* What the pool makes of the info that is written: with five or six fields, its
\* first two; else nothing.
LEMMA SharedIs ==
    ASSUME ConfigInv, <<"LoginDatabaseInfo">> \in DOMAIN options,
           NEW t, t = options[<<"LoginDatabaseInfo">>]
    PROVE  /\ Occurs(t, ";") \in {4, 5} => Shared.host = WrittenHost /\ Shared.port_or_socket = WrittenPort
           /\ Occurs(t, ";") \notin {4, 5} => Shared.host = <<>> /\ Shared.port_or_socket = <<>>
           /\ ~Misread => t = WrittenInfo
<1>1. PICK X : /\ t \in Seq(X) /\ WrittenInfo \in Seq(X) /\ Starts(WrittenInfo, t)
               /\ "#" \notin ToSet(WrittenInfo) => t = WrittenInfo
  BY WrittenIs DEF WrittenInfo
<1>2. PICK n : n = Occurs(t, ";")
  OBVIOUS
<1>3. PICK T : T = Tokenize(t, ";", TRUE)
  OBVIOUS
<1>4. /\ n \in Nat /\ Len(T) = n + 1
      /\ n > 0 => T[1] = Before(t, ";") /\ T[2] = Before(After(t, ";"), ";")
  <2>1. /\ n \in Nat /\ Len(Tokenize(t, ";", TRUE)) = n + 1
        /\ n > 0 => /\ Tokenize(t, ";", TRUE)[1] = Before(t, ";")
                    /\ Tokenize(t, ";", TRUE)[2] = Before(After(t, ";"), ";")
    BY <1>1, <1>2, TokenizeIs, Zenon
  <2> QED BY <1>3, <2>1, Zenon
<1>5. /\ Shared.host = IF Len(T) \in {5, 6} /\ 1 <= Len(T) THEN T[1] ELSE <<>>
      /\ Shared.port_or_socket = IF Len(T) \in {5, 6} /\ 2 <= Len(T) THEN T[2] ELSE <<>>
  BY <1>3 DEF Shared, ConnectionInfo
<1>6. CASE n \in {4, 5}
  <2>1. Shared.host = Before(t, ";") /\ Shared.port_or_socket = Before(After(t, ";"), ";")
    <3>1. n > 0 /\ Len(T) \in {5, 6} /\ 1 <= Len(T) /\ 2 <= Len(T)
      <4>1. \A m \in {4, 5} : m > 0 /\ m + 1 \in {5, 6} /\ 1 <= m + 1 /\ 2 <= m + 1
        OBVIOUS
      <4> QED BY <1>4, <1>6, <4>1, Zenon
    <3> QED BY <1>4, <1>5, <3>1, Zenon
  <2>2. n > 1
    BY <1>6
  <2>3. FirstOf(t, ";") <= Len(t) /\ FirstOf(After(t, ";"), ";") <= Len(After(t, ";"))
    BY <1>1, <1>2, <2>2, TwoSeparators
  <2>4. Before(WrittenInfo, ";") = Before(t, ";") /\ Starts(After(WrittenInfo, ";"), After(t, ";"))
    BY <1>1, <2>3, StartsFirst
  <2>5. After(WrittenInfo, ";") \in Seq(X) /\ After(t, ";") \in Seq(X)
    BY <1>1, BeforeAfter
  <2>6. Before(After(WrittenInfo, ";"), ";") = Before(After(t, ";"), ";")
    BY <2>3, <2>4, <2>5, StartsFirst
  <2> QED BY <1>1, <1>2, <1>6, <2>1, <2>4, <2>6 DEF WrittenHost, WrittenPort, Misread
<1>7. CASE n \notin {4, 5}
  <2>1. Len(T) \notin {5, 6}
    <3>1. \A m \in Nat : m + 1 \in {5, 6} => m \in {4, 5}
      OBVIOUS
    <3> QED BY <1>4, <1>7, <3>1, Zenon
  <2> QED BY <1>1, <1>2, <1>5, <1>7, <2>1 DEF Misread
<1> QED BY <1>6, <1>7

\* An option that is taken as a number has that number written.
LEMMA OptionWritten ==
    ASSUME ConfigInv, NEW name, NEW n, n = GetOption(name, 0, 255, 1)
    PROVE  n = 1 \/ (<<name>> \in DOMAIN options /\ Numerals[Written(<<name>>)[1]] = n)
<1> SUFFICES ASSUME n # 1 PROVE <<name>> \in DOMAIN options /\ Numerals[Written(<<name>>)[1]] = n
  OBVIOUS
<1>1. PICK k, t : k = <<name>> /\ t = options[k]
  OBVIOUS
<1>2. k \in DOMAIN options /\ FromString(t, 0, 255) # <<>> /\ n = FromString(t, 0, 255)[1]
  BY <1>1 DEF GetOption
<1>3. IsNumber(t, 0, 255) /\ FromString(t, 0, 255) = <<Numerals[t[1]]>>
  BY <1>2, FromStringIs
<1>4. n = Numerals[t[1]] /\ Len(t) = 1
  BY <1>2, <1>3 DEF IsNumber
<1>5. PICK X : t \in Seq(X) /\ Starts(Written(k), t)
  BY <1>1, <1>2, WrittenIs
<1>6. 1 \in DOMAIN t
  BY <1>4, <1>5
<1>7. t[1] = Written(k)[1]
  BY <1>5, <1>6 DEF Starts
<1> QED BY <1>1, <1>2, <1>4, <1>7

\* An info without fields has neither a socket nor a port.
LEMMA NoFields == <<>> # <<".">> /\ ~IsNumber(<<>>, 0, UInt32Max)
<1>1. <<>> # <<".">> /\ Len(<<>>) # 1
  OBVIOUS
<1> QED BY <1>1 DEF IsNumber

\* Undefined behaviour is only reached with a malformed info, with a socket and a
\* second call of Open (for another connection, or a retry of the loader), or when
\* the pool is complete without a synchronous connection, whatever is in the files
\* and whatever sequence of loads has read them (StartDB, Open, OpenFails).
THEOREM UndefinedHasCause == Spec => []UndefinedNeedsCause
<1>1. ConfigInv /\ StartInv => UndefinedNeedsCause
  <2> SUFFICES ASSUME ConfigInv, StartInv, phase = "undefined", WellWritten
               PROVE  \/ WrittenHost = <<".">> /\ NotTheFirst
                      \/ made = Connections /\ threads.synch = 0
    BY DEF UndefinedNeedsCause
  <2>1. <<"LoginDatabaseInfo">> \in DOMAIN options
    BY DEF StartInv, ThreadsSet, Started
  <2>2. \/ ~OnSocket /\ SharedPort = <<>>
        \/ OnSocket /\ NotTheFirst
        \/ made = Connections /\ threads.synch = 0
    BY DEF StartInv, Caused
  <2>3. Shared.host = WrittenHost /\ Shared.port_or_socket = WrittenPort
    <3>1. PICK t : t = options[<<"LoginDatabaseInfo">>]
      OBVIOUS
    <3>2. t = WrittenInfo
      BY <2>1, <3>1, SharedIs DEF WellWritten
    <3>3. Occurs(t, ";") \in {4, 5}
      BY <3>2 DEF WellWritten, Occurs
    <3> QED BY <2>1, <3>1, <3>3, SharedIs
  <2>4. ~(~OnSocket /\ SharedPort = <<>>)
    <3> SUFFICES ASSUME ~OnSocket PROVE SharedPort # <<>>
      OBVIOUS
    <3>1. IsNumber(WrittenPort, 0, UInt32Max)
      BY <2>3 DEF WellWritten, OnSocket
    <3>2. SharedPort = <<Numerals[WrittenPort[1]]>>
      BY <2>3, <3>1, FromStringIs DEF SharedPort
    <3> QED BY <3>2
  <2> QED BY <2>2, <2>3, <2>4 DEF OnSocket
<1> QED BY <1>1, ConfigInvariant, StartInvariant, PTL

\* A server that serves asks for the place that is written, has the connections of
\* its threads and those that failed calls of the pool's Open have left, the threads
\* that are written, and a port that exists, for any files and any retries.
THEOREM ServesWhatIsWritten == Spec => []ServesAsWritten
<1>1. ConfigInv /\ StartInv => ServesAsWritten
  <2> SUFFICES ASSUME ConfigInv, StartInv, phase \in {"serving", "served"}
               PROVE  /\ WellWritten \/ Misread
                      /\ threads.async \in 1..32 /\ ThreadsAsWritten
                      /\ Len(opened.synch) = threads.synch
                      /\ \E n \in 1..(retries + 1) : Len(opened.async) = n * threads.async
                      /\ \A i \in DOMAIN opened.synch : opened.synch[i] = AtPort
                      /\ \A i \in DOMAIN opened.async :
                            \/ opened.async[i] = <<"socket", WrittenPort>> /\ WrittenHost = <<".">> /\ i = 1
                            \/ opened.async[i] = AtPort /\ (WrittenHost = <<".">> /\ i = 1 => retries > 0)
                      /\ <<"ServerPort">> \in DOMAIN options
                            /\ IsNumber(Written(<<"ServerPort">>), Int32Min, Int32Max) =>
                            Numerals[Written(<<"ServerPort">>)[1]] \in Ports
    BY Zenon DEF ServesAsWritten
  <2>1. /\ <<"LoginDatabaseInfo">> \in DOMAIN options
        /\ threads.async = GetOption("WorkerThreads", 0, 255, 1)
        /\ threads.async \in 1..32
        /\ threads.synch = GetOption("SynchThreads", 0, 255, 1)
        /\ threads.synch \in Nat
    BY DEF StartInv, ThreadsSet, Started
  <2>2. made = Connections /\ PortExists
    BY DEF StartInv, AllOpen
  <2>3. /\ \A i \in DOMAIN opened.async : Placed(opened.async[i], "async", i, retries)
        /\ \A i \in DOMAIN opened.synch : Placed(opened.synch[i], "synch", i, retries)
    BY DEF StartInv, InPlace, Started, Kinds
  <2>13. /\ Len(opened.synch) = threads.synch
        /\ \E n \in 1..(retries + 1) : Len(opened.async) = n * threads.async
        /\ 1 \in DOMAIN opened.async
    <3>1. made \in Nat /\ retries \in Nat /\ made = threads.async + threads.synch
      BY <2>2 DEF StartInv, StartTypeOK, Connections
    <3>2. /\ Len(opened["synch"]) = threads.synch /\ Len(opened["async"]) > 0
          /\ \E n \in 1..(retries + 1) : Len(opened["async"]) = n * threads.async
      BY <3>1, CountingPool DEF Started, CountsOn, WholeCalls
    <3>3. PICK S : opened["async"] \in Seq(S)
      BY DEF StartInv, StartTypeOK, Kinds
    <3>4. 1 \in DOMAIN opened["async"]
      BY <3>2, <3>3
    <3> QED BY <3>2, <3>4
  <2>4. Placed(opened.async[1], "async", 1, retries)
    BY <2>3, <2>13
  <2>5. PICK t : t = options[<<"LoginDatabaseInfo">>]
    OBVIOUS
  <2>6. Occurs(t, ";") \in {4, 5}
    <3> SUFFICES ASSUME Occurs(t, ";") \notin {4, 5} PROVE FALSE
      OBVIOUS
    <3>1. Shared.host = <<>> /\ Shared.port_or_socket = <<>>
      BY <2>1, <2>5, SharedIs
    <3>2. ~OnSocket
      BY <3>1, NoFields, Zenon DEF OnSocket
    <3>3. SharedPort = <<>>
      BY <3>1, NoFields, FromStringIs, Zenon DEF SharedPort
    <3> QED BY <2>4, <3>2, <3>3 DEF Placed
  <2>7. Shared.host = WrittenHost /\ Shared.port_or_socket = WrittenPort /\ (~Misread => t = WrittenInfo)
    BY <2>1, <2>5, <2>6, SharedIs
  <2>8. SharedPort # <<>> => /\ IsNumber(WrittenPort, 0, UInt32Max)
                             /\ SharedPort = <<Numerals[WrittenPort[1]]>>
    BY <2>7, FromStringIs DEF SharedPort
  <2>9. WellWritten \/ Misread
    <3>1. OnSocket \/ SharedPort # <<>>
      BY <2>4 DEF Placed
    <3>2. WrittenHost = <<".">> \/ IsNumber(WrittenPort, 0, UInt32Max)
      BY <2>7, <2>8, <3>1 DEF OnSocket
    <3>3. ~Misread => Cardinality({i \in DOMAIN WrittenInfo : WrittenInfo[i] = ";"}) \in {4, 5}
      BY <2>6, <2>7 DEF Occurs
    <3> QED BY <3>2, <3>3 DEF WellWritten
  <2>10. ThreadsAsWritten
    <3>1. threads.async = 1 \/ (<<"WorkerThreads">> \in DOMAIN options
                                  /\ Numerals[Written(<<"WorkerThreads">>)[1]] = threads.async)
      BY <2>1, OptionWritten
    <3>2. threads.synch = 1 \/ (<<"SynchThreads">> \in DOMAIN options
                                  /\ Numerals[Written(<<"SynchThreads">>)[1]] = threads.synch)
      BY <2>1, OptionWritten
    <3> QED BY <3>1, <3>2, Zenon DEF ThreadsAsWritten
  <2>11. /\ \A i \in DOMAIN opened.synch : opened.synch[i] = AtPort
         /\ \A i \in DOMAIN opened.async :
               \/ opened.async[i] = <<"socket", WrittenPort>> /\ WrittenHost = <<".">> /\ i = 1
               \/ opened.async[i] = AtPort /\ (WrittenHost = <<".">> /\ i = 1 => retries > 0)
    <3>1. \A x, k, i : Placed(x, k, i, retries) =>
             \/ x = <<"socket", WrittenPort>> /\ WrittenHost = <<".">> /\ i = 1 /\ k = "async"
             \/ x = AtPort /\ (WrittenHost = <<".">> /\ i = 1 /\ k = "async" => retries > 0)
      BY <2>7, <2>8 DEF Placed, OnSocket, AtPort
    <3> QED BY <2>3, <3>1
  <2>12. ASSUME <<"ServerPort">> \in DOMAIN options,
                IsNumber(Written(<<"ServerPort">>), Int32Min, Int32Max)
         PROVE  Numerals[Written(<<"ServerPort">>)[1]] \in Ports
    <3>1. PICK k, w : k = <<"ServerPort">> /\ w = Written(k)
      OBVIOUS
    <3>2. IsNumber(w, Int32Min, Int32Max) /\ k \in DOMAIN options
      BY <2>12, <3>1
    <3>3. Len(w) = 1 /\ w[1] \in DOMAIN Numerals
      BY <3>2 DEF IsNumber
    <3>4. PICK X : w \in Seq(X) /\ ("#" \notin ToSet(w) => options[k] = w)
      BY <3>1, <3>2, WrittenIs
    <3>5. "#" \notin ToSet(w)
      <4>1. \A j \in DOMAIN w : j = 1
        BY <3>3, <3>4
      <4> QED BY <3>3, <4>1, StartupAssumption DEF ToSet
    <3>6. FromString(options[k], Int32Min, Int32Max) = <<Numerals[w[1]]>>
      BY <3>2, <3>4, <3>5, FromStringIs
    <3>7. GetOption("ServerPort", Int32Min, Int32Max, 1234) = Numerals[w[1]]
      BY <3>1, <3>2, <3>6 DEF GetOption
    <3>8. GetOption("ServerPort", Int32Min, Int32Max, 1234) \in Ports
      BY <2>2, ZenonT(60) DEF PortExists
    <3>9. Numerals[w[1]] \in Ports
      BY <3>7, <3>8, ZenonT(60)
    <3> QED BY <3>1, <3>9
  <2> QED BY <2>1, <2>13, <2>9, <2>10, <2>11, <2>12, Zenon
<1> QED BY <1>1, ConfigInvariant, StartInvariant, PTL
=============================================================================
