------------------------ MODULE PreparedResultsProofs ------------------------
(***************************************************************************)
(* Proofs about PreparedResults, for every list of columns and every       *)
(* number of parameters, rows, results, reconnections and failures.        *)
(*                                                                         *)
(* The buffer of a result is laid out as a table: the value of column c in *)
(* period k is at Offset[c] + k * RowSize.  Values of different columns or *)
(* of different periods do not meet (CellsApart), and a column is never at *)
(* a later period than the row that is fetched, because a NULL leaves its  *)
(* period to the next row.  Offset is a recursive function: that it is     *)
(* defined and grows is shown by the least counterexample.                 *)
(*                                                                         *)
(* The inductive invariant ResultsInv has four parts: the course of calls  *)
(* and results, the slots of the parameters, the bytes of the buffers and  *)
(* the blocks.  A buffer is intact because its result is the one the       *)
(* statement is bound to, no block is freed twice because no two owners    *)
(* have the same arrays, and a row can be read because a result is handed  *)
(* over only when all its rows are there.                                  *)
(*                                                                         *)
(* What a Get does is a matter of the tables of Fields alone, for every     *)
(* field a caller may be at (GetsFit, GetsReturn).                         *)
(***************************************************************************)
EXTENDS PreparedResults, WellFoundedInduction, TLAPS

\* A set of naturals has a least element.
LEMMA LeastNat ==
    ASSUME NEW S, S \subseteq Nat, S # {}
    PROVE  \E n \in S : \A m \in S : n <= m
<1> DEFINE R == OpToRel(<, Nat)
<1>1. IsWellFoundedOn(R, Nat)
  BY NatLessThanWellFounded
<1>2. \A x, y \in Nat : x < y => <<x, y>> \in R
  BY DEF OpToRel
<1> HIDE DEF R
<1>3. PICK n \in S : \A m \in S : ~(<<m, n>> \in R)
  BY <1>1, WFMin
<1>4. ASSUME NEW m \in S PROVE n <= m
  <2>1. ~(m < n)
    BY <1>2, <1>3
  <2> QED
    BY <2>1
<1> QED
  BY <1>4

-----------------------------------------------------------------------------
(***************************************************************************)
(* The layout of a row.                                                    *)
(***************************************************************************)

Ends == Len(Columns) + 1

\* SizeForType gives every type a number of bytes, and a string one more than
\* its longest value has.
LEMMA SizeType ==
    ASSUME NEW c \in Cols
    PROVE  /\ Size(c) \in Nat
           /\ Columns[c] \in StringTypes => Size(c) = MaxLength + 1
<1>1. Columns[c] \in MySQLTypes /\ MaxLength \in Nat
  BY ResultsAssumption DEF Cols
<1> QED
  BY <1>1 DEF Size, SizeForType, MySQLTypes, IntTypes, TimeTypes, StringTypes, DecimalTypes, MYSQL_TIME

\* The recursion of Offset is well defined.
LEMMA OffsetDef ==
    Offset = [c \in 1..Ends |-> IF c = 1 THEN 0 ELSE Offset[c - 1] + Size(c - 1)]
<1> DEFINE Sums(n, f) == f = [c \in 1..n |-> IF c = 1 THEN 0 ELSE f[c - 1] + Size(c - 1)]
           Bad == {n \in Nat \ {0} : ~\E f : Sums(n, f)}
<1>1. Bad = {}
  <2> SUFFICES ASSUME Bad # {} PROVE FALSE
    OBVIOUS
  <2>1. PICK n \in Bad : \A m \in Bad : n <= m
    BY LeastNat
  <2>2. CASE n = 1
    <3>1. Sums(1, [c \in 1..1 |-> 0])
      OBVIOUS
    <3> QED
      BY <2>1, <2>2, <3>1
  <2>3. CASE n # 1
    <3>0. n \in Nat \ {0} /\ (n - 1 \in Bad => n <= n - 1)
      BY <2>1
    <3>1. n - 1 \in Nat \ {0} /\ n - 1 \notin Bad
      <4> HIDE DEF Bad
      <4> QED
        BY <3>0, <2>3
    <3>2. PICK f : Sums(n - 1, f)
      BY <3>1
    <3> DEFINE g == [c \in 1..n |-> IF c = n THEN f[n - 1] + Size(n - 1) ELSE f[c]]
    <3>3. \A c \in 1..n : g[c] = IF c = 1 THEN 0 ELSE g[c - 1] + Size(c - 1)
      <4> SUFFICES ASSUME NEW c \in 1..n PROVE g[c] = IF c = 1 THEN 0 ELSE g[c - 1] + Size(c - 1)
        OBVIOUS
      <4>1. CASE c = n
        BY <4>1, <2>3, <3>1
      <4>2. CASE c # n
        <5>1. c \in 1..(n - 1) /\ g[c] = f[c]
          BY <4>2, <3>1
        <5>2. f[c] = IF c = 1 THEN 0 ELSE f[c - 1] + Size(c - 1)
          BY <5>1, <3>2
        <5>3. c # 1 => c - 1 \in 1..n /\ c - 1 # n /\ g[c - 1] = f[c - 1]
          BY <5>1
        <5> QED
          BY <5>1, <5>2, <5>3
      <4> QED
        BY <4>1, <4>2
    <3>4. Sums(n, g)
      BY <3>3
    <3> QED
      BY <3>4, <2>1
  <2> QED
    BY <2>2, <2>3
<1>2. Ends \in Nat \ {0}
  BY ResultsAssumption DEF Ends
<1>3. \E f : Sums(Ends, f)
  BY <1>1, <1>2
<1>4. Offset = CHOOSE f : Sums(Ends, f)
  BY DEF Offset, Ends
<1> QED
  BY <1>3, <1>4

\* The columns of a row follow each other: one begins behind the end of every
\* column before it, and the row ends behind all of them.
LEMMA OffsetsGrow ==
    /\ \A d \in 1..Ends : Offset[d] \in Nat
    /\ \A d \in 1..Ends : \A c \in 1..(d - 1) : c \in Cols /\ Offset[c] + Size(c) <= Offset[d]
<1> DEFINE Good(d) == /\ Offset[d] \in Nat
                      /\ \A c \in 1..(d - 1) : Offset[c] + Size(c) <= Offset[d]
           Bad == {d \in 1..Ends : ~Good(d)}
<1>a. Len(Columns) \in Nat /\ Cols = 1..Len(Columns)
  BY ResultsAssumption DEF Cols
<1>b. \A d \in 1..Ends : d # 1 => d - 1 \in Cols /\ d - 1 \in 1..Ends /\ Size(d - 1) \in Nat
  BY <1>a, SizeType DEF Ends
<1>c. \A d \in 1..Ends : Offset[d] = IF d = 1 THEN 0 ELSE Offset[d - 1] + Size(d - 1)
  BY OffsetDef, Zenon
<1>1. Bad = {}
  <2> SUFFICES ASSUME Bad # {} PROVE FALSE
    OBVIOUS
  <2>0. Bad \subseteq Nat
    BY <1>a DEF Ends
  <2>1. PICK d \in Bad : \A m \in Bad : d <= m
    BY <2>0, LeastNat, Zenon
  <2>2. CASE d = 1
    BY <2>1, <2>2, <1>c
  <2>3. CASE d # 1
    <3>0. d \in 1..Ends /\ d - 1 \in 1..Ends
      BY <2>1, <2>3, <1>b
    <3>1. Good(d - 1)
      <4>1. d - 1 \notin Bad
        BY <2>1, <3>0, <1>a DEF Ends
      <4> QED
        BY <4>1, <3>0
    <3>2. Offset[d] = Offset[d - 1] + Size(d - 1) /\ Size(d - 1) \in Nat
      BY <3>0, <2>3, <1>c, <1>b
    <3>3. ASSUME NEW c \in 1..(d - 1) PROVE Offset[c] + Size(c) <= Offset[d]
      <4>1. CASE c = d - 1
        BY <4>1, <3>1, <3>2
      <4>2. CASE c # d - 1
        <5>1. c \in 1..((d - 1) - 1) /\ c \in 1..Ends /\ c \in Cols
          BY <4>2, <3>0, <1>a DEF Ends
        <5>2. Offset[c] + Size(c) <= Offset[d - 1]
          BY <5>1, <3>1
        <5>3. c < d /\ c \notin Bad /\ Offset[c] \in Nat /\ Size(c) \in Nat
          BY <5>1, <2>1, <3>0, SizeType, <1>a DEF Ends
        <5> QED
          BY <5>2, <5>3, <3>1, <3>2
      <4> QED
        BY <4>1, <4>2
    <3>4. Good(d)
      BY <3>1, <3>2, <3>3
    <3> QED
      BY <3>4, <2>1
  <2> QED
    BY <2>2, <2>3
<1>2. ASSUME NEW d \in 1..Ends, NEW c \in 1..(d - 1) PROVE c \in Cols
  BY <1>a DEF Ends
<1> QED
  BY <1>1, <1>2

\* What the proofs use of the layout.
LEMMA Layout ==
    /\ RowSize \in Nat
    /\ \A c \in Cols : /\ Offset[c] \in Nat /\ Size(c) \in Nat
                       /\ Offset[c] + Size(c) <= RowSize
                       /\ \A d \in Cols : c < d => Offset[c] + Size(c) <= Offset[d]
<1>1. Len(Columns) \in Nat /\ Cols = 1..Len(Columns)
  BY ResultsAssumption DEF Cols
<1>2. Ends \in 1..Ends /\ \A c \in Cols : c \in 1..Ends /\ c \in 1..(Ends - 1)
  BY <1>1 DEF Ends
<1>3. RowSize = Offset[Ends]
  BY DEF RowSize, Ends
<1>4. \A c \in Cols : Size(c) \in Nat
  BY SizeType
<1>5. \A c, d \in Cols : c < d => c \in 1..(d - 1)
  BY <1>1
<1> QED
  BY <1>2, <1>3, <1>4, <1>5, OffsetsGrow

\* Where the value of column c in period k is.
At(c, k) == Offset[c] + k * RowSize

\* Multiplication in this buffer: a period ends before a later one begins.
LEMMA Periods ==
    ASSUME NEW R \in Nat, NEW k \in Nat, NEW m \in Nat, k < m
    PROVE  k * R \in Nat /\ m * R \in Nat /\ k * R + R <= m * R
<1>1. PICK j \in Nat : m = k + 1 + j
  <2>1. m - k - 1 \in Nat /\ m = k + 1 + (m - k - 1)
    OBVIOUS
  <2> QED
    BY <2>1
<1>2. m * R = k * R + R + j * R
  BY <1>1
<1>3. k * R \in Nat /\ j * R \in Nat
  OBVIOUS
<1> QED
  BY <1>2, <1>3

\* No byte belongs to the values of two columns, or to two values of a column.
LEMMA CellsApart ==
    ASSUME NEW c \in Cols, NEW d \in Cols, NEW k \in Nat, NEW m \in Nat,
           NEW a \in Int,
           At(c, k) <= a, a < At(c, k) + Size(c),
           At(d, m) <= a, a < At(d, m) + Size(d)
    PROVE  c = d /\ k = m
<1>1. RowSize \in Nat /\ k * RowSize \in Nat /\ m * RowSize \in Nat
  BY Layout
<1>2. /\ Offset[c] \in Nat /\ Size(c) \in Nat /\ Offset[c] + Size(c) <= RowSize
      /\ Offset[d] \in Nat /\ Size(d) \in Nat /\ Offset[d] + Size(d) <= RowSize
  BY Layout
<1>3. k = m
  <2>1. ASSUME k < m PROVE FALSE
    <3>1. k * RowSize + RowSize <= m * RowSize
      BY <2>1, <1>1, Periods
    <3> QED
      BY <3>1, <1>1, <1>2 DEF At
  <2>2. ASSUME m < k PROVE FALSE
    <3>1. m * RowSize + RowSize <= k * RowSize
      BY <2>2, <1>1, Periods
    <3> QED
      BY <3>1, <1>1, <1>2 DEF At
  <2> QED
    BY <2>1, <2>2
<1>4. c \in Nat /\ d \in Nat
  BY ResultsAssumption DEF Cols
<1>5. c < d => Offset[c] + Size(c) <= Offset[d]
  BY Layout
<1>6. d < c => Offset[d] + Size(d) <= Offset[c]
  BY Layout
<1>7. c = d
  BY <1>1, <1>2, <1>3, <1>4, <1>5, <1>6 DEF At
<1> QED
  BY <1>3, <1>7

\* A value of one of the first n periods is inside a buffer of n rows.
LEMMA CellInside ==
    ASSUME NEW c \in Cols, NEW k \in Nat, NEW n \in Nat, k < n
    PROVE  At(c, k) \in Nat /\ At(c, k) + Size(c) <= RowSize * n
<1>1. RowSize \in Nat /\ Offset[c] \in Nat /\ Size(c) \in Nat /\ Offset[c] + Size(c) <= RowSize
  BY Layout
<1>2. k * RowSize \in Nat /\ n * RowSize \in Nat /\ k * RowSize + RowSize <= n * RowSize
  BY <1>1, Periods
<1>3. n * RowSize = RowSize * n
  BY <1>1
<1> QED
  BY <1>1, <1>2, <1>3 DEF At

-----------------------------------------------------------------------------
(***************************************************************************)
(* The inductive invariant, in the order in which its parts are proved.    *)
(***************************************************************************)

Slot == [is : Data \cup {"zero"}, buffer : BOOLEAN, length : BOOLEAN, lost : BOOLEAN]
Statement == [attached : BOOLEAN, done : BOOLEAN, arrays : Ids \cup {NoResult},
              into : Ids \cup {NoResult}, at : [Cols -> Nat], slots : [Params -> Slot]]
Cell == [value : Int, length : Int]

\* A record with the fields of NoRes.
ResultFields == {"state", "kind", "rowCount", "rowPosition", "data", "rows", "intact", "rBind", "meta"}
IsRec(x) == DOMAIN x = ResultFields /\ x = [f \in ResultFields |-> x[f]]

IsResult(x) ==
    /\ IsRec(x)
    /\ x.state \in {"none", "making", "held", "read", "gone"}
    /\ x.kind \in {"prepared", "affected", "text"}
    /\ x.rowCount \in Nat /\ x.rowPosition \in Nat
    /\ x.rows \in Seq([Cols -> Cell])
    /\ {x.intact, x.rBind, x.meta} \subseteq BOOLEAN

ACall == [at : {"idle", "execute", "store", "fetch", "done", "aborted"},
          stmt : Stmts, params : Seq(Data), query : BOOLEAN,
          result : Ids \cup {NoResult}, sent : {<<>>} \cup [Params -> Data \cup {"zero"}]]

ResultsTyped == res = [i \in Ids |-> res[i]] /\ \A i \in Ids : IsResult(res[i])

\* The types of the variables.
RTypeOK ==
    /\ open \in BOOLEAN /\ fault \in BOOLEAN /\ broken \in Nat
    /\ stmt \in [Stmts -> Statement]
    /\ call \in ACall
    /\ ResultsTyped

Kept(x) == x.state \in {"making", "held", "read"}

\* A result of a SELECT that libmysqlclient has stored and bound.
Standing(x) == Kept(x) /\ x.kind = "prepared" /\ x.intact

\* How far result i has come.
ResultOK(i) ==
    LET x == res[i]
    IN /\ x.state = "none" => x = NoRes
       /\ x.state = "making" <=> call.at \in {"fetch", "done"} /\ call.result = i
       /\ x.state = "making" => x.rowPosition = 0 /\ x.kind # "text"
       /\ x.kind = "affected" => ~x.rBind /\ ~x.meta
       /\ x.kind = "text" => /\ ~x.rBind
                             /\ x.state = "held" => x.meta /\ x.rowPosition > 0
                             /\ x.state = "read" => ~x.meta
       /\ Standing(x) => /\ x.rBind /\ x.meta
                         /\ (x.state = "making" /\ call.at = "fetch") \/ Len(x.rows) = x.rowCount
                         /\ x.state = "held" => x.rowPosition < x.rowCount
       /\ ~x.intact => broken > 0

\* Whose binding a statement has.
BindingsOK ==
    /\ \A s \in Stmts : stmt[s].done => stmt[s].arrays \in Ids /\ res[stmt[s].arrays].state # "none"
    /\ stmt["indexed"].done /\ stmt["jit"].done => stmt["indexed"].arrays # stmt["jit"].arrays
    /\ call.at = "idle" \/ call.stmt = "indexed" => ~stmt["jit"].done

CallOK ==
    /\ call.at \notin {"fetch", "done"} => call.result = NoResult
    /\ call.at \in {"execute", "store"} => Unused # {}
    /\ call.at = "fetch" => /\ call.result \in Ids /\ Standing(res[call.result])
                            /\ Stmt.into = call.result

Course == RTypeOK /\ (\A i \in Ids : ResultOK(i)) /\ BindingsOK /\ CallOK

\* What BindParameters leaves in a slot, and what ClearParameters does.
Bound(o, value) == /\ o.is = value /\ ~o.lost
                   /\ o.buffer <=> value # "null"
                   /\ o.length <=> value = "text"
Cleared(o) == ~o.buffer /\ ~o.length /\ ~o.lost

BoundOK ==
    /\ \A s \in Stmts : \/ s = call.stmt /\ call.at \in {"execute", "aborted"}
                        \/ \A p \in Params : Cleared(stmt[s].slots[p])
    /\ call.at = "execute" =>
          /\ Len(call.params) <= NumParams
          /\ call.stmt = "indexed" => Len(call.params) = NumParams
          /\ \A p \in Params : IF p <= Len(call.params) THEN Bound(Stmt.slots[p], call.params[p])
                                                        ELSE Stmt.slots[p].is = "zero" /\ Cleared(Stmt.slots[p])
    /\ SentAsSet

\* Where the values of a result are: a value is in its period, the bytes are
\* there and hold it.
CellOK(x, r, c) ==
    LET cell == x.rows[r][c]
    IN cell.value # NULL =>
          /\ cell.length \in 0..Size(c)
          /\ \E k \in Nat : k < x.rowCount /\ cell.value = At(c, k)
          /\ \A a \in cell.value..(cell.value + cell.length - 1) : x.data[a] = <<r, c>>

\* How far the column c is when a row is fetched: at a period that is not behind
\* the number of rows, and behind every value the column has.
Position(x, c) ==
    \E k \in 0..Len(x.rows) :
        /\ Stmt.at[c] = At(c, k)
        /\ \A r \in DOMAIN x.rows : x.rows[r][c].value # NULL =>
              \E m \in 0..(k - 1) : x.rows[r][c].value = At(c, m)

RowsOK ==
    /\ \A i \in Ids : Standing(res[i]) =>
          /\ Len(res[i].rows) <= res[i].rowCount
          /\ DOMAIN res[i].data = 0..(RowSize * res[i].rowCount - 1)
          /\ \A r \in DOMAIN res[i].rows, c \in Cols : CellOK(res[i], r, c)
    /\ call.at = "fetch" => \A c \in Cols : Position(res[call.result], c)

\* The blocks that are allocated: never fewer than a reader needs and, as long as
\* libmysqlclient does not fail, exactly those that somebody will free.
OwnExact(i) ==
    LET x == res[i]
    IN /\ Meta(i) \in live <=> Kept(x) /\ x.kind # "text" /\ x.meta
       /\ RBind(i) \in live <=> Kept(x) /\ x.kind # "text" /\ x.rBind
       /\ Buffer(i) \in live <=> Kept(x) /\ x.kind # "text" /\ x.rBind
       /\ Text(i) \in live <=> Kept(x) /\ x.kind = "text" /\ x.meta
ArraysExact(i) == Arrays(i) \in live <=> \E s \in Stmts : stmt[s].done /\ stmt[s].arrays = i

\* What a reader of result i needs.
ReadersNeed(i) == /\ Standing(res[i]) => Buffer(i) \in live
                  /\ Kept(res[i]) /\ res[i].kind = "text" /\ res[i].meta => Text(i) \in live

AllBlocks == {<<b, i>> : b \in {"arrays", "rBind", "buffer", "meta", "text"}, i \in Ids}

BlocksOK ==
    /\ \A i \in Ids : ReadersNeed(i)
    /\ broken = 0 => ~fault /\ live \subseteq AllBlocks /\ \A i \in Ids : OwnExact(i) /\ ArraysExact(i)

ResultsInv == Course /\ BoundOK /\ RowsOK /\ BlocksOK

-----------------------------------------------------------------------------
(***************************************************************************)
(* The getters.  GetData makes at most four different calls, and whether   *)
(* one is made is a matter of the type, the table of the aggregates and    *)
(* the type asked for.                                                     *)
(***************************************************************************)

\* A field that is neither an aggregate nor of a _dbc table, and an aggregate.
Plain(f) == f.alias \in {"none", "min", "max"} /\ f.dbc = FALSE
Aggregate(f) == f.alias \in {"sum", "avg", "count"} /\ f.dbc = FALSE

\* A plain field is read as what it was asked for.
LEMMA PlainCalls ==
    ASSUME NEW T, NEW f, Plain(f)
    PROVE  Deferred(T, f) = <<>> /\ Calls(T, f)[4] = T
<1>1. Deferred(T, f) = <<>>
  BY DEF Deferred, Plain
<1> QED
  BY <1>1 DEF Calls

\* The type of the call that reads an aggregate, by the table of Field.h.
Reads(f) == IF f.alias = "count" THEN "uint64" ELSE "double"

\* An aggregate comes with the field type that it has by the table of Field.h.
Tabled(f) == MysqlTypeToFieldType(f.type) = (IF f.alias = "count" THEN "Int64" ELSE "Decimal")

\* The call for an aggregate goes on to the type that reads it, unless it is
\* that one and the aggregate has the type of the table.
LEMMA AggregateDefers ==
    ASSUME NEW T \in Arithmetic, NEW f, Aggregate(f)
    PROVE  Deferred(T, f) = IF T = Reads(f) /\ Tabled(f) THEN <<>> ELSE <<Reads(f)>>
<1>1. PICK ft, alias : ft = MysqlTypeToFieldType(f.type) /\ alias = f.alias
  OBVIOUS
<1>2. IsCorrectAlias(T, ft, alias) <=> T = Reads(f) /\ Tabled(f)
  <2>1. CASE T = "double"
    BY <1>1, <2>1 DEF IsCorrectAlias, Reads, Tabled, Aggregate
  <2>2. CASE T = "uint64"
    BY <1>1, <2>2 DEF IsCorrectAlias, Reads, Tabled, Aggregate
  <2>3. CASE T # "double" /\ T # "uint64"
    BY <1>1, <2>3 DEF IsCorrectAlias, Reads, Tabled, Aggregate
  <2> QED BY <2>1, <2>2, <2>3
<1>3. Deferred(T, f) = IF IsCorrectAlias(T, ft, alias) THEN <<>> ELSE <<Reads(f)>>
  <2>1. CASE alias = "count"
    BY <1>1, <2>1 DEF Deferred, Reads, Aggregate
  <2>2. CASE alias # "count"
    BY <1>1, <2>2 DEF Deferred, Reads, Aggregate
  <2> QED BY <2>1, <2>2
<1> QED BY <1>2, <1>3

\* The fourth call for an aggregate is the one of the type that reads it, and it
\* ends exactly if the aggregate has the type of the table.
LEMMA AggregateEnds ==
    ASSUME NEW T \in Arithmetic, NEW f, Aggregate(f)
    PROVE  /\ Calls(T, f)[4] = Reads(f)
           /\ Deferred(Reads(f), f) = <<>> <=> Tabled(f)
<1> DEFINE next(t) == IF Deferred(t, f) = <<>> THEN t ELSE Deferred(t, f)[1]
<1>1. Reads(f) \in Arithmetic
  BY DEF Reads, Arithmetic, Width
<1>2. \A t \in Arithmetic : next(t) = Reads(f)
  <2> TAKE t \in Arithmetic
  <2>1. Deferred(t, f) = IF t = Reads(f) /\ Tabled(f) THEN <<>> ELSE <<Reads(f)>>
    BY AggregateDefers
  <2> QED BY <2>1
<1>3. Calls(T, f) = <<T, next(T), next(next(T)), next(next(next(T)))>>
  BY DEF Calls
<1>4. Deferred(Reads(f), f) = IF Tabled(f) THEN <<>> ELSE <<Reads(f)>>
  BY <1>1, AggregateDefers
<1> HIDE DEF next
<1>5. next(next(next(T))) = Reads(f)
  BY <1>1, <1>2
<1>6. <<Reads(f)>> # <<>>
  OBVIOUS
<1> QED BY <1>3, <1>4, <1>5, <1>6

\* What GetData does, by its last call.
LEMMA GetDataEnds ==
    ASSUME NEW T, NEW f, NEW last, Calls(T, f)[4] = last
    PROVE  /\ GetData(T, f).outcome = "value" =>
                 Deferred(last, f) = <<>> /\ GetData(T, f).as = last
           /\ Deferred(last, f) = <<>> /\ HasResult(last, f) =>
                 GetData(T, f).outcome \in {"default", "value"}
  BY DEF GetData

\* By the guideline a caller asks for arithmetic types, and those of the same
\* width as the type of the column.
LEMMA GuidelineFits ==
    ASSUME NEW type \in MySQLTypes, NEW T \in Guideline(type), NEW n
    PROVE  /\ T \in Arithmetic
           /\ type \notin DecimalTypes => Width[T] = SizeForType(type, n)
<1>1. type \in {"TINY", "SHORT", "INT24", "LONG", "LONGLONG", "FLOAT", "DOUBLE",
                "DECIMAL", "NEWDECIMAL"}
  BY DEF Guideline, DecimalTypes
<1>2. T \in Arithmetic
  BY <1>1 DEF Guideline, Arithmetic, Width, DecimalTypes
<1>3. ASSUME type \notin DecimalTypes PROVE Width[T] = SizeForType(type, n)
  BY <1>1, <1>3 DEF Guideline, Width, SizeForType, DecimalTypes, TimeTypes, StringTypes
<1> QED BY <1>2, <1>3

\* What a field of a row is.
LEMMA FieldFacts ==
    ASSUME NEW x, NEW c \in Cols, NEW f \in FieldsOf(x, c)
    PROVE  /\ f.type = Columns[c] /\ f.alias = Aliases[c]
           /\ f.as = Guideline(Columns[c]) \cup {"float"}
           /\ Columns[c] \in MySQLTypes
           /\ Plain(f) \/ Aggregate(f)
<1>1. Columns[c] \in MySQLTypes /\ Aliases[c] \in {"none", "min", "max", "sum", "avg", "count"}
  BY ResultsAssumption DEF Cols
<1>2. f.type = Columns[c] /\ f.alias = Aliases[c] /\ f.dbc = FALSE
      /\ f.as = Guideline(Columns[c]) \cup {"float"}
  BY DEF FieldsOf
<1> QED BY <1>1, <1>2 DEF Plain, Aggregate

\* No value is read beyond the bytes that are reserved for it.
LEMMA GetsFit ==
    ASSUME NEW x, NEW c \in Cols, NEW T \in Guideline(Columns[c]), NEW f \in FieldsOf(x, c),
           GetData(T, f).outcome = "value", f.type \notin DecimalTypes
    PROVE  ~(Width[GetData(T, f).as] > Size(c))
<1>f. /\ f.type = Columns[c] /\ Columns[c] \in MySQLTypes
      /\ Plain(f) \/ Aggregate(f)
  BY FieldFacts
<1>0. T \in Arithmetic /\ Width[T] = Size(c) /\ Size(c) \in Nat
  BY <1>f, GuidelineFits, SizeType DEF Size
<1>1. CASE Plain(f)
  <2>1. Calls(T, f)[4] = T
    BY <1>1, PlainCalls
  <2>2. GetData(T, f).as = T
    BY <2>1, GetDataEnds
  <2> QED BY <1>0, <2>2
<1>2. CASE Aggregate(f)
  <2>1. Calls(T, f)[4] = Reads(f) /\ (Deferred(Reads(f), f) = <<>> <=> Tabled(f))
    BY <1>0, <1>2, AggregateEnds
  <2>2. GetData(T, f).as = Reads(f) /\ Tabled(f)
    BY <2>1, GetDataEnds
  <2>3. f.type \in {"TINY", "SHORT", "INT24", "LONG", "LONGLONG", "FLOAT", "DOUBLE"}
    BY <1>f DEF Guideline, DecimalTypes
  <2>4. f.type = "LONGLONG" /\ f.alias = "count"
    BY <2>2, <2>3 DEF Tabled, MysqlTypeToFieldType, DecimalTypes, TimeTypes, StringTypes
  <2>5. Width[T] = 8 /\ Width["uint64"] = 8
    BY <1>f, <2>4 DEF Guideline, Width
  <2> QED BY <1>0, <2>2, <2>4, <2>5 DEF Reads
<1> QED BY <1>f, <1>1, <1>2

\* Every Get by the guideline returns, if aggregates have the types of the table.
LEMMA GetsReturn ==
    ASSUME NEW x, NEW c \in Cols, NEW T \in Guideline(Columns[c]), NEW f \in FieldsOf(x, c),
           Columns[c] \in AggregateTypes(Aliases[c])
    PROVE  GetData(T, f).outcome \notin {"abort", "recurses"}
<1>f. /\ f.type = Columns[c] /\ f.alias = Aliases[c]
      /\ f.as = Guideline(Columns[c]) \cup {"float"}
      /\ Columns[c] \in MySQLTypes
      /\ Plain(f) \/ Aggregate(f)
  BY FieldFacts
<1>0. T \in Arithmetic
  BY <1>f, GuidelineFits
<1>1. CASE Plain(f)
  <2>1. HasResult(T, f)
    BY <1>f DEF HasResult
  <2>2. Calls(T, f)[4] = T /\ Deferred(T, f) = <<>>
    BY <1>1, PlainCalls
  <2>3. GetData(T, f).outcome \in {"default", "value"}
    BY <2>1, <2>2, GetDataEnds
  <2> QED BY <2>3
<1>2. CASE Aggregate(f)
  <2>1. Tabled(f)
    <3>1. CASE f.alias = "count"
      <4>1. f.type = "LONGLONG"
        BY <1>f, <3>1 DEF AggregateTypes
      <4> QED BY <3>1, <4>1 DEF Tabled, MysqlTypeToFieldType, DecimalTypes, TimeTypes, StringTypes
    <3>2. CASE f.alias # "count"
      <4>1. f.type \in DecimalTypes
        BY <1>f, <1>2, <3>2 DEF AggregateTypes, Aggregate
      <4> QED BY <3>2, <4>1 DEF Tabled, MysqlTypeToFieldType, DecimalTypes, TimeTypes, StringTypes
    <3> QED BY <3>1, <3>2
  <2>2. HasResult(Reads(f), f)
    <3>1. CASE f.alias = "count"
      <4>1. f.type = "LONGLONG"
        BY <1>f, <3>1 DEF AggregateTypes
      <4>2. "uint64" \in Guideline("LONGLONG")
        BY DEF Guideline, DecimalTypes
      <4> QED BY <1>f, <3>1, <4>1, <4>2 DEF HasResult, Reads
    <3>2. CASE f.alias # "count"
      BY <1>f, <3>2 DEF HasResult, Reads
    <3> QED BY <3>1, <3>2
  <2>3. Calls(T, f)[4] = Reads(f) /\ Deferred(Reads(f), f) = <<>>
    BY <1>0, <1>2, <2>1, AggregateEnds
  <2>4. GetData(T, f).outcome \in {"default", "value"}
    BY <2>2, <2>3, GetDataEnds
  <2> QED BY <2>4
<1> QED BY <1>f, <1>1, <1>2

-----------------------------------------------------------------------------
(***************************************************************************)
(* Types and course.                                                       *)
(***************************************************************************)

\* NewId is a result that is not made yet.
LEMMA NewIdFree ==
    ASSUME Unused # {}
    PROVE  NewId \in Ids /\ res[NewId].state = "none"
<1>1. Ids \subseteq Nat /\ Unused \subseteq Ids /\ Unused \subseteq Nat
  BY ResultsAssumption DEF Ids, Unused
<1>2. \E i \in Unused : \A j \in Unused : i <= j
  BY <1>1, LeastNat, Zenon
<1>3. NewId \in Unused
  BY <1>2, Zenon DEF NewId
<1> QED
  BY <1>3 DEF Unused

\* The constants of the model.
LEMMA Constants ==
    /\ NumParams \in Nat /\ MaxRows \in Nat /\ MaxLength \in Nat /\ MaxResults \in Nat
    /\ Ids \subseteq Nat \ {0} /\ NoResult \notin Ids
    /\ Params \subseteq Nat /\ AffectedOfSelect \in Nat
  BY ResultsAssumption DEF Ids, Params, NoResult, AffectedOfSelect

\* The slots of a statement stay slots.
LEMMA SlotTypes ==
    ASSUME NEW slots \in [Params -> Slot], NEW params \in Seq(Data)
    PROVE  /\ BindParameters(slots, params) \in [Params -> Slot]
           /\ ClearParameters(slots) \in [Params -> Slot]
           /\ Transmitted(slots) \in [Params -> Data \cup {"zero"}]
<1>1. ASSUME NEW p \in Params, p <= Len(params) PROVE params[p] \in Data
  BY <1>1 DEF Params
<1>2. ASSUME NEW o \in Slot, NEW v \in Data PROVE SetParameter(o, v) \in Slot
  BY DEF SetParameter, Slot
<1>3. BindParameters(slots, params) \in [Params -> Slot]
  BY <1>1, <1>2 DEF BindParameters
<1>4. ClearParameters(slots) \in [Params -> Slot]
  BY DEF ClearParameters, Slot
<1>5. Transmitted(slots) \in [Params -> Data \cup {"zero"}]
  BY DEF Transmitted, Slot
<1> QED
  BY <1>3, <1>4, <1>5

\* A statement that is prepared has no binding and no parameters.
LEMMA NewStmtType == NoStmt \in Statement /\ NewStmt \in Statement /\ NewStmt = [NoStmt EXCEPT !.attached = TRUE]
<1>1. ZeroSlot \in Slot
  BY DEF ZeroSlot, Slot
<1>2. NoStmt \in Statement
  BY <1>1 DEF NoStmt, Statement
<1> QED
  BY <1>2 DEF NewStmt, Statement

\* What callers give is a sequence of parameters, and for an indexed statement
\* there are as many as it has.
LEMMA ParamListsType ==
    ASSUME NEW s \in Stmts, NEW params \in ParamLists(s)
    PROVE  params \in Seq(Data) /\ (s = "indexed" => Len(params) = NumParams)
<1>1. \A n \in Nat : [1..n -> Data] \subseteq Seq(Data)
  OBVIOUS
<1>2. Lists \subseteq Seq(Data) /\ \A l \in Lists : Len(l) = NumParams
  BY Constants DEF Lists
<1>3. OtherLists \subseteq Seq(Data)
  <2>1. [p \in 1..(NumParams + 1) |-> "number"] \in Seq(Data)
    BY <1>1, Constants DEF Data
  <2>2. CASE NumParams = 0
    <3>1. 1..(NumParams - 1) = 1..0
      BY <2>2
    <3> QED
      BY <2>1, <3>1, <1>1, Zenon DEF OtherLists
  <2>3. CASE NumParams # 0
    <3>1. NumParams - 1 \in Nat
      BY <2>3, Constants
    <3> QED
      BY <2>1, <3>1, <1>1 DEF OtherLists
  <2> QED
    BY <2>2, <2>3
<1> QED
  BY <1>2, <1>3 DEF ParamLists, Stmts

\* A result that has not begun.
LEMMA NoResType == IsResult(NoRes)
<1>1. <<>> \in Seq([Cols -> Cell])
  OBVIOUS
<1>2. IsRec(NoRes)
  BY DEF IsRec, ResultFields, NoRes
<1> QED
  BY <1>1, <1>2 DEF IsResult, NoRes

\* The row that a fetch adds is a row of cells.
LEMMA RowType ==
    ASSUME NEW row \in [Cols -> UNION {Lengths(c) : c \in Cols}],
           \A c \in Cols : row[c] \in Lengths(c)
    PROVE  \A c \in Cols : /\ row[c] \in Int
                           /\ row[c] # NULL => row[c] \in Nat /\ row[c] <= Size(c)
<1> SUFFICES ASSUME NEW c \in Cols
             PROVE  row[c] \in Int /\ (row[c] # NULL => row[c] \in Nat /\ row[c] <= Size(c))
  OBVIOUS
<1>1. Size(c) \in Nat /\ (Columns[c] \in StringTypes => Size(c) = MaxLength + 1) /\ MaxLength \in Nat
  BY SizeType, Constants
<1> QED
  BY <1>1 DEF Lengths, NULL

\* A step that replaces one result.
Puts(i, x) == res' = [res EXCEPT ![i] = x]

\* The others stay, and the types are kept.
LEMMA PutResult ==
    ASSUME NEW i \in Ids, NEW x, IsResult(x), Puts(i, x), ResultsTyped
    PROVE  /\ ResultsTyped'
           /\ res'[i] = x /\ \A j \in Ids : j # i => res'[j] = res[j]
<1>1. res'[i] = x /\ \A j \in Ids : j # i => res'[j] = res[j]
  BY DEF Puts, ResultsTyped
<1>2. res' = [j \in Ids |-> res'[j]]
  BY DEF Puts, ResultsTyped
<1>3. \A j \in Ids : IsResult(res'[j])
  BY <1>1, Zenon DEF ResultsTyped
<1> QED
  BY <1>1, <1>2, <1>3 DEF ResultsTyped

\* The results that the constructors make.
Made(x, state, kind, n, pos, intact, rBind, meta, data) ==
    /\ IsResult(x)
    /\ x.state = state /\ x.kind = kind /\ x.rowCount = n /\ x.rowPosition = pos
    /\ x.intact = intact /\ x.rBind = rBind /\ x.meta = meta /\ x.data = data
    /\ x.rows = <<>>

\* The caller's next call, or the one that goes on with result i.
Goes(at, i) == call' = [at |-> at, stmt |-> call.stmt, params |-> <<>>, query |-> TRUE,
                        result |-> i, sent |-> <<>>]

\* No metadata: a result without rows.
LEMMA NoMetadataMakes ==
    ASSUME Course, NoMetadata
    PROVE  \E i \in Ids, n \in Nat : \E x :
              /\ i = NewId /\ res[i].state = "none" /\ Goes("done", i)
              /\ Puts(i, x) /\ Made(x, "making", "affected", n, 0, TRUE, FALSE, FALSE, <<>>)
<1>1. PICK i \in Ids : i = NewId /\ res[i].state = "none"
  BY NewIdFree DEF NoMetadata, Course, CallOK
<1>2. PICK n \in 0..MaxRows : res' = [res EXCEPT ![i] = [NoRes EXCEPT !.state = "making", !.kind = "affected", !.rowCount = n]]
  BY <1>1 DEF NoMetadata
<1>3. Goes("done", i)
  BY <1>1 DEF NoMetadata, Goes, Idle
<1> DEFINE x == [NoRes EXCEPT !.state = "making", !.kind = "affected", !.rowCount = n]
<1>4. Puts(i, x)
  BY <1>2 DEF Puts
<1>5. IsRec(x)
  BY NoResType, Zenon DEF IsResult, IsRec
<1>6. Made(x, "making", "affected", n, 0, TRUE, FALSE, FALSE, <<>>) /\ n \in Nat
  BY <1>5, NoResType, Constants DEF Made, IsResult, IsRec, ResultFields, NoRes
<1> HIDE DEF x
<1> QED
  BY <1>1, <1>3, <1>4, <1>6

\* mysql_stmt_store_result fails.
LEMMA StoreFailsMakes ==
    ASSUME Course, StoreFails
    PROVE  \E i \in Ids, n \in Nat : \E x :
              /\ i = NewId /\ res[i].state = "none" /\ Goes("done", i)
              /\ Puts(i, x) /\ Made(x, "making", "prepared", n, 0, FALSE, TRUE, TRUE, <<>>)
              /\ FreeWith(OldArrays, {Meta(i)})
<1>1. PICK i \in Ids : i = NewId /\ res[i].state = "none"
  BY NewIdFree DEF StoreFails, Course, CallOK
<1> DEFINE x == [NoRes EXCEPT !.state = "making", !.rowCount = AffectedOfSelect, !.rBind = TRUE,
                  !.meta = TRUE, !.intact = FALSE]
<1>2. Puts(i, x)
  BY <1>1 DEF StoreFails, Puts
<1>3. Goes("done", i) /\ FreeWith(OldArrays, {Meta(i)})
  BY <1>1 DEF StoreFails, Goes, Idle
<1>4. IsRec(x)
  BY NoResType, Zenon DEF IsResult, IsRec
<1>5. Made(x, "making", "prepared", AffectedOfSelect, 0, FALSE, TRUE, TRUE, <<>>)
  BY <1>4, NoResType, Constants DEF Made, IsResult, IsRec, ResultFields, NoRes
<1> HIDE DEF x
<1> QED
  BY <1>1, <1>2, <1>3, <1>5, Constants

\* The buffer is laid out and bound.
LEMMA StoreMakes ==
    ASSUME Course, Store
    PROVE  \E i \in Ids, n \in Nat : \E x :
              /\ i = NewId /\ res[i].state = "none" /\ Goes("fetch", i)
              /\ Puts(i, x) /\ Made(x, "making", "prepared", n, 0, TRUE, TRUE, TRUE, [a \in 0..(RowSize * n - 1) |-> <<>>])
              /\ stmt' = [stmt EXCEPT ![call.stmt] =
                    [@ EXCEPT !.done = TRUE, !.arrays = i, !.into = i, !.at = [c \in Cols |-> Offset[c]]]]
              /\ FreeWith(OldArrays, {Meta(i), RBind(i), Buffer(i), Arrays(i)})
<1>1. PICK i \in Ids : i = NewId /\ res[i].state = "none"
  BY NewIdFree DEF Store, Course, CallOK
<1>2. PICK n \in 0..MaxRows : res' = [res EXCEPT ![i] = [NoRes EXCEPT !.state = "making", !.rowCount = n, !.rBind = TRUE,
                  !.meta = TRUE, !.data = [a \in 0..(RowSize * n - 1) |-> <<>>]]]
  BY <1>1 DEF Store
<1>3. Goes("fetch", i) /\ FreeWith(OldArrays, {Meta(i), RBind(i), Buffer(i), Arrays(i)})
  BY <1>1 DEF Store, Goes, Idle
<1>4. stmt' = [stmt EXCEPT ![call.stmt] =
                    [@ EXCEPT !.done = TRUE, !.arrays = i, !.into = i, !.at = [c \in Cols |-> Offset[c]]]]
  BY <1>1 DEF Store
<1> DEFINE x == [NoRes EXCEPT !.state = "making", !.rowCount = n, !.rBind = TRUE,
                  !.meta = TRUE, !.data = [a \in 0..(RowSize * n - 1) |-> <<>>]]
<1>5. Puts(i, x)
  BY <1>2 DEF Puts
<1>6. IsRec(x)
  BY NoResType, Zenon DEF IsResult, IsRec
<1>7. Made(x, "making", "prepared", n, 0, TRUE, TRUE, TRUE, [a \in 0..(RowSize * n - 1) |-> <<>>]) /\ n \in Nat
  BY <1>6, NoResType, Constants DEF Made, IsResult, IsRec, ResultFields, NoRes
<1> HIDE DEF x
<1> QED
  BY <1>1, <1>3, <1>4, <1>5, <1>7

\* mysql_stmt_bind_result fails.
LEMMA BindFailsMakes ==
    ASSUME Course, BindFails
    PROVE  \E i \in Ids, n \in Nat : \E x :
              /\ i = NewId /\ res[i].state = "none" /\ Goes("done", i)
              /\ Puts(i, x) /\ Made(x, "making", "prepared", n, 0, FALSE, FALSE, TRUE, <<>>)
              /\ stmt' = [stmt EXCEPT ![call.stmt].arrays = i]
              /\ FreeWith(OldArrays, {})
<1>1. PICK i \in Ids : i = NewId /\ res[i].state = "none"
  BY NewIdFree DEF BindFails, Course, CallOK
<1>2. PICK n \in 0..MaxRows : res' = [res EXCEPT ![i] = [NoRes EXCEPT !.state = "making", !.rowCount = n,
                  !.meta = TRUE, !.intact = FALSE]]
  BY <1>1 DEF BindFails
<1>3. Goes("done", i) /\ FreeWith(OldArrays, {}) /\ stmt' = [stmt EXCEPT ![call.stmt].arrays = i]
  BY <1>1 DEF BindFails, Goes, Idle
<1> DEFINE x == [NoRes EXCEPT !.state = "making", !.rowCount = n,
                  !.meta = TRUE, !.intact = FALSE]
<1>4. Puts(i, x)
  BY <1>2 DEF Puts
<1>5. IsRec(x)
  BY NoResType, Zenon DEF IsResult, IsRec
<1>6. Made(x, "making", "prepared", n, 0, FALSE, FALSE, TRUE, <<>>) /\ n \in Nat
  BY <1>5, NoResType, Constants DEF Made, IsResult, IsRec, ResultFields, NoRes
<1> HIDE DEF x
<1> QED
  BY <1>1, <1>3, <1>4, <1>6

\* A ResultSet, at its first row.
LEMMA TextQueryMakes ==
    ASSUME Course, TextQuery
    PROVE  \E i \in Ids, n \in Nat : \E x :
              /\ i = NewId /\ res[i].state = "none" /\ live' = live \cup {Text(i)}
              /\ Puts(i, x) /\ Made(x, "held", "text", n, 1, TRUE, FALSE, TRUE, <<>>)
<1>1. PICK i \in Ids : i = NewId /\ res[i].state = "none"
  BY NewIdFree DEF TextQuery
<1>2. PICK n \in 1..MaxRows : res' = [res EXCEPT ![i] = [NoRes EXCEPT !.state = "held", !.kind = "text", !.rowCount = n,
                  !.meta = TRUE, !.rowPosition = FirstRow(n)]]
  BY <1>1 DEF TextQuery
<1>3. live' = live \cup {Text(i)}
  BY <1>1 DEF TextQuery
<1> DEFINE x == [NoRes EXCEPT !.state = "held", !.kind = "text", !.rowCount = n,
                  !.meta = TRUE, !.rowPosition = FirstRow(n)]
<1>4. Puts(i, x)
  BY <1>2 DEF Puts
<1>5. IsRec(x)
  BY NoResType, Zenon DEF IsResult, IsRec
<1>6. Made(x, "held", "text", n, 1, TRUE, FALSE, TRUE, <<>>) /\ n \in Nat
  BY <1>5, NoResType, Constants DEF Made, IsResult, IsRec, ResultFields, NoRes, FirstRow
<1> HIDE DEF x
<1> QED
  BY <1>1, <1>3, <1>4, <1>6

\* The row of Fields that a fetch adds.
RowOf(row) == [c \in Cols |-> [value |-> IF row[c] = NULL THEN NULL ELSE Stmt.at[c], length |-> row[c]]]

\* What a caller's steps leave of a result.
Same(x, y) == /\ x.kind = y.kind /\ x.rowCount = y.rowCount /\ x.rows = y.rows
              /\ x.data = y.data /\ x.intact = y.intact /\ x.rBind = y.rBind

\* One round of the loop adds a row to the result of the call.
LEMMA FetchRowAdds ==
    ASSUME Course, FetchRow
    PROVE  \E i \in Ids, row \in [Cols -> UNION {Lengths(c) : c \in Cols}] : \E x :
              /\ i = call.result /\ Puts(i, x) /\ IsResult(x)
              /\ \A c \in Cols : row[c] \in Lengths(c)
              /\ x.rows = Append(res[i].rows, RowOf(row))
              /\ x.data = Written(res[i].data, Len(res[i].rows) + 1, row)
              /\ x.state = res[i].state /\ x.kind = res[i].kind /\ x.rowCount = res[i].rowCount
              /\ x.rowPosition = res[i].rowPosition /\ x.intact = res[i].intact
              /\ x.rBind = res[i].rBind /\ x.meta = res[i].meta
              /\ stmt' = [stmt EXCEPT ![call.stmt].at = Advance(row)]
              /\ Advance(row) \in [Cols -> Nat]
              /\ RowOf(row) \in [Cols -> Cell]
              /\ fault' = (fault \/ Buffer(i) \notin live
                                 \/ \E c \in Cols :
                                       ~(Extent(c, row[c]) \subseteq 0..(RowSize * res[i].rowCount - 1)))
<1>0. RTypeOK /\ Stmt \in Statement /\ Stmt.at \in [Cols -> Nat]
  BY DEF Course, RTypeOK, Stmt, Statement, ACall
<1>1. PICK i \in Ids : i = call.result /\ Stmt.into = i
  BY DEF FetchRow, Course, CallOK
<1>2. PICK row \in [Cols -> UNION {Lengths(c) : c \in Cols}] :
          /\ \A c \in Cols : row[c] \in Lengths(c)
          /\ res' = [res EXCEPT ![i].rows = Append(@, RowOf(row)),
                                ![i].data = Written(@, Len(res[i].rows) + 1, row)]
          /\ stmt' = [stmt EXCEPT ![call.stmt].at = Advance(row)]
          /\ fault' = (fault \/ Buffer(i) \notin live
                                 \/ \E c \in Cols :
                                       ~(Extent(c, row[c]) \subseteq 0..(RowSize * res[i].rowCount - 1)))
  BY <1>1 DEF FetchRow, RowOf
<1>3. Advance(row) \in [Cols -> Nat]
  BY <1>0, Layout DEF Advance
<1>4. RowOf(row) \in [Cols -> Cell]
  <2>1. \A c \in Cols : row[c] \in Int
    BY <1>2, RowType, Zenon
  <2>2. \A c \in Cols : Stmt.at[c] \in Int /\ NULL \in Int
    BY <1>0 DEF NULL
  <2> QED
    BY <2>1, <2>2 DEF RowOf, Cell
<1>5. PICK y : y = res[i] /\ IsResult(y)
  BY <1>0 DEF RTypeOK, ResultsTyped
<1>6. PICK new : new = RowOf(row)
  OBVIOUS
<1>7. PICK mem : mem = Written(res[i].data, Len(res[i].rows) + 1, row)
  OBVIOUS
<1>8. PICK x : x = [y EXCEPT !.rows = Append(@, new), !.data = mem]
  OBVIOUS
<1>9. Puts(i, x)
  BY <1>0, <1>2, <1>5, <1>6, <1>7, <1>8 DEF Puts, RTypeOK, ResultsTyped, IsResult, IsRec, ResultFields
<1>10. IsRec(x)
  BY <1>5, <1>8, Zenon DEF IsResult, IsRec
<1>11. Append(y.rows, new) \in Seq([Cols -> Cell])
  BY <1>4, <1>5, <1>6 DEF IsResult
<1>12. /\ x.rows = Append(y.rows, new) /\ x.data = mem
       /\ x.state = y.state /\ x.kind = y.kind /\ x.rowCount = y.rowCount
       /\ x.rowPosition = y.rowPosition /\ x.intact = y.intact
       /\ x.rBind = y.rBind /\ x.meta = y.meta
  BY <1>5, <1>8 DEF IsResult, IsRec, ResultFields
<1>13. IsResult(x)
  BY <1>5, <1>10, <1>11, <1>12 DEF IsResult
<1>14. /\ x.rows = Append(res[i].rows, RowOf(row))
       /\ x.data = Written(res[i].data, Len(res[i].rows) + 1, row)
       /\ x.state = res[i].state /\ x.kind = res[i].kind /\ x.rowCount = res[i].rowCount
       /\ x.rowPosition = res[i].rowPosition /\ x.intact = res[i].intact
       /\ x.rBind = res[i].rBind /\ x.meta = res[i].meta
  BY <1>5, <1>6, <1>7, <1>12
<1> WITNESS i \in Ids, row \in [Cols -> UNION {Lengths(c) : c \in Cols}]
<1> WITNESS x
<1> QED
  BY <1>1, <1>2, <1>3, <1>4, <1>9, <1>13, <1>14

\* The end of a call hands the result over or deletes it.
LEMMA ReturnGives ==
    ASSUME Course, Return, call.result \in Ids
    PROVE  \E i \in Ids : \E x :
              /\ i = call.result /\ Puts(i, x) /\ IsResult(x) /\ Same(x, res[i])
              /\ x.state = (IF res[i].rowCount > 0 THEN "held" ELSE "gone")
              /\ x.rowPosition = res[i].rowPosition /\ x.meta = res[i].meta
<1>0. RTypeOK
  BY DEF Course
<1>1. PICK i \in Ids : i = call.result /\ i # NoResult
  BY Constants
<1>2. PICK st : st = IF res[i].rowCount > 0 THEN "held" ELSE "gone"
  OBVIOUS
<1>3. PICK y : y = res[i] /\ IsResult(y)
  BY <1>0 DEF RTypeOK, ResultsTyped
<1>4. PICK x : x = [y EXCEPT !.state = st]
  OBVIOUS
<1>5. Puts(i, x)
  BY <1>1, <1>2, <1>3, <1>4 DEF Puts, Return
<1>6. IsRec(x)
  BY <1>3, <1>4, Zenon DEF IsResult, IsRec
<1>7. Same(x, y) /\ x.state = st /\ x.rowPosition = y.rowPosition /\ x.meta = y.meta
  BY <1>3, <1>4 DEF Same, IsResult, IsRec, ResultFields
<1>8. IsResult(x)
  BY <1>2, <1>3, <1>6, <1>7 DEF IsResult, Same
<1> QED
  BY <1>1, <1>2, <1>3, <1>5, <1>7, <1>8, Zenon

\* NextRow moves on, or ends the result.
LEMMA NextRowMoves ==
    ASSUME Course, NEW i \in Ids, NextRow(i)
    PROVE  \E x :
              /\ Puts(i, x) /\ IsResult(x) /\ Same(x, res[i])
              /\ x.state = (IF MoreRows(res[i]) THEN "held" ELSE "read")
              /\ x.rowPosition = (IF MoreRows(res[i]) \/ res[i].kind # "text" THEN res[i].rowPosition + 1
                                                                             ELSE res[i].rowPosition)
              /\ x.meta = (res[i].meta /\ (MoreRows(res[i]) \/ res[i].kind # "text"))
<1>0. RTypeOK
  BY DEF Course
<1>1. PICK st : st = IF MoreRows(res[i]) THEN "held" ELSE "read"
  OBVIOUS
<1>2. PICK pos : pos = IF MoreRows(res[i]) \/ res[i].kind # "text" THEN res[i].rowPosition + 1
                                                                             ELSE res[i].rowPosition
  OBVIOUS
<1>3. PICK me \in BOOLEAN : me = (res[i].meta /\ (MoreRows(res[i]) \/ res[i].kind # "text"))
  OBVIOUS
<1>4. PICK y : y = res[i] /\ IsResult(y)
  BY <1>0 DEF RTypeOK, ResultsTyped
<1>5. PICK x : x = [y EXCEPT !.rowPosition = pos, !.state = st, !.meta = me]
  OBVIOUS
<1>6. Puts(i, x)
  <2>1. res' = [res EXCEPT ![i].rowPosition = pos, ![i].state = st, ![i].meta = me]
    BY <1>1, <1>2, <1>3, <1>4, <1>0 DEF NextRow
  <2> QED
    BY <2>1, <1>0, <1>4, <1>5 DEF Puts, RTypeOK, ResultsTyped, IsResult, IsRec, ResultFields
<1>7. IsRec(x)
  BY <1>4, <1>5, Zenon DEF IsResult, IsRec
<1>8. Same(x, y) /\ x.state = st /\ x.rowPosition = pos /\ x.meta = me
  BY <1>4, <1>5 DEF Same, IsResult, IsRec, ResultFields
<1>9. pos \in Nat
  BY <1>2, <1>4 DEF IsResult
<1>10. IsResult(x)
  BY <1>1, <1>3, <1>4, <1>7, <1>8, <1>9 DEF IsResult, Same
<1> QED
  BY <1>1, <1>2, <1>3, <1>4, <1>6, <1>8, <1>10, Zenon

\* The last reference to a result goes.
LEMMA DeleteResultEnds ==
    ASSUME Course, NEW i \in Ids, DeleteResult(i)
    PROVE  \E x : /\ Puts(i, x) /\ IsResult(x)
                  /\ x.state = "gone" /\ x.kind = "prepared" /\ x.intact = TRUE
<1> DEFINE x == [NoRes EXCEPT !.state = "gone"]
<1>1. Puts(i, x)
  BY DEF DeleteResult, Puts
<1>2. IsRec(x)
  BY NoResType, Zenon DEF IsResult, IsRec
<1>3. IsResult(x) /\ x.state = "gone" /\ x.kind = "prepared" /\ x.intact = TRUE
  BY <1>2, NoResType DEF IsResult, IsRec, ResultFields, NoRes
<1> HIDE DEF x
<1> QED
  BY <1>1, <1>3

\* The parts of Course that no definition hides.
LEMMA CourseFacts ==
    ASSUME Course
    PROVE  /\ RTypeOK /\ ResultsTyped /\ call \in ACall /\ call.stmt \in Stmts
           /\ \A s \in Stmts : stmt[s] \in Statement
           /\ \A i \in Ids : IsResult(res[i]) /\ ResultOK(i)
           /\ BindingsOK /\ CallOK
  BY DEF Course, RTypeOK, ResultsTyped, ACall

\* A result is made: what the four ways have in common.
LEMMA CourseMake ==
    ASSUME Course, call.at = "store", NEW at \in {"fetch", "done"}, NEW i \in Ids, NEW x,
           res[i].state = "none", Goes(at, i), Puts(i, x), IsResult(x),
           x.state = "making", x.rowPosition = 0, x.kind # "text",
           x.kind = "affected" => ~x.rBind /\ ~x.meta,
           Standing(x) => x.rBind /\ x.meta /\ at = "fetch",
           at = "fetch" => Standing(x) /\ stmt'[call.stmt].into = i,
           ~x.intact => broken' > 0, broken' \in Nat, broken' >= broken,
           open' \in BOOLEAN, fault' \in BOOLEAN,
           stmt' \in [Stmts -> Statement],
           \A s \in Stmts : \/ stmt'[s].done = stmt[s].done /\ stmt'[s].arrays = stmt[s].arrays
                            \/ s = call.stmt /\ stmt'[s].arrays = i
    PROVE  Course'
<1> USE CourseFacts, Constants
<1>0. call' \in ACall /\ call'.at = at /\ call'.result = i /\ call'.stmt = call.stmt
  BY DEF Goes, ACall
<1>1. ResultsTyped' /\ res'[i] = x /\ \A j \in Ids : j # i => res'[j] = res[j]
  BY PutResult
<1>2. RTypeOK'
  BY <1>0, <1>1 DEF RTypeOK
<1>3. ASSUME NEW j \in Ids PROVE ResultOK(j)'
  <2>1. CASE j = i
    BY <2>1, <1>0, <1>1 DEF ResultOK, Standing, Kept
  <2>2. CASE j # i
    <3>1. res'[j] = res[j] /\ ResultOK(j) /\ IsResult(res[j])
      BY <2>2, <1>1
    <3>2. call.result = NoResult /\ res[j].state # "making"
      BY <3>1 DEF CallOK, ResultOK
    <3> QED
      BY <2>2, <3>1, <3>2, <1>0, <1>1 DEF ResultOK, Standing, Kept, RTypeOK
  <2> QED
    BY <2>1, <2>2
<1>4. BindingsOK'
  <2>1. call.at # "idle"
    OBVIOUS
  <2>2. \A s \in Stmts : stmt[s].done => stmt[s].arrays # i
    BY DEF BindingsOK
  <2>3. stmt'["jit"].done => call.stmt = "jit" \/ stmt["jit"].done
    BY DEF Stmts
  <2>4. ASSUME NEW s \in Stmts, stmt'[s].done
        PROVE  stmt'[s].arrays \in Ids /\ res'[stmt'[s].arrays].state # "none"
    <3>1. CASE stmt'[s].arrays = i
      BY <3>1, <1>1
    <3>2. CASE stmt'[s].arrays # i
      <4>1. stmt[s].done /\ stmt'[s].arrays = stmt[s].arrays
        BY <3>2, <2>4
      <4>2. stmt[s].arrays \in Ids /\ res[stmt[s].arrays].state # "none"
        BY <4>1 DEF BindingsOK
      <4> QED
        BY <3>2, <4>1, <4>2, <1>1
    <3> QED
      BY <3>1, <3>2
  <2> QED
    BY <1>0, <2>1, <2>2, <2>3, <2>4 DEF BindingsOK, Stmts
<1>5. CallOK'
  BY <1>0, <1>1 DEF CallOK, Stmt
<1> QED
  BY <1>2, <1>3, <1>4, <1>5 DEF Course

\* The four ends of the constructor of PreparedResultSet keep the course.
LEMMA CourseMakes ==
    ASSUME Course, NoMetadata \/ StoreFails \/ Store \/ BindFails
    PROVE  Course'
<1> USE CourseFacts, Constants
<1>0. /\ stmt \in [Stmts -> Statement] /\ open \in BOOLEAN /\ fault \in BOOLEAN /\ broken \in Nat
      /\ stmt[call.stmt] \in Statement /\ call.stmt \in Stmts
  BY DEF RTypeOK
<1>1. CASE NoMetadata
  <2>1. PICK i \in Ids, n \in Nat : \E x :
              /\ i = NewId /\ res[i].state = "none" /\ Goes("done", i)
              /\ Puts(i, x) /\ Made(x, "making", "affected", n, 0, TRUE, FALSE, FALSE, <<>>)
    BY <1>1, NoMetadataMakes
  <2>2. PICK x : Puts(i, x) /\ Made(x, "making", "affected", n, 0, TRUE, FALSE, FALSE, <<>>)
    BY <2>1
  <2>3. call.at = "store" /\ UNCHANGED <<open, stmt, live, fault, losses, broken>>
    BY <1>1 DEF NoMetadata
  <2>4. /\ IsResult(x) /\ x.state = "making" /\ x.rowPosition = 0 /\ x.kind = "affected"
        /\ ~x.rBind /\ ~x.meta /\ x.intact /\ ~Standing(x)
    BY <2>2 DEF Made, Standing
  <2>5. /\ stmt' \in [Stmts -> Statement] /\ open' \in BOOLEAN /\ fault' \in BOOLEAN
        /\ broken' \in Nat /\ broken' >= broken
        /\ \A s \in Stmts : stmt'[s].done = stmt[s].done /\ stmt'[s].arrays = stmt[s].arrays
    BY <1>0, <2>3
  <2> QED
    BY <2>1, <2>2, <2>3, <2>4, <2>5, CourseMake
<1>2. CASE StoreFails
  <2>1. PICK i \in Ids, n \in Nat : \E x :
              /\ i = NewId /\ res[i].state = "none" /\ Goes("done", i)
              /\ Puts(i, x) /\ Made(x, "making", "prepared", n, 0, FALSE, TRUE, TRUE, <<>>)
              /\ FreeWith(OldArrays, {Meta(i)})
    BY <1>2, StoreFailsMakes
  <2>2. PICK x : Puts(i, x) /\ Made(x, "making", "prepared", n, 0, FALSE, TRUE, TRUE, <<>>)
    BY <2>1
  <2>3. call.at = "store" /\ UNCHANGED <<open, stmt, losses>> /\ broken' = broken + 1
    BY <1>2 DEF StoreFails
  <2>4. fault' \in BOOLEAN
    BY <2>1 DEF FreeWith
  <2>5. /\ IsResult(x) /\ x.state = "making" /\ x.rowPosition = 0 /\ x.kind = "prepared"
        /\ ~x.intact /\ ~Standing(x)
    BY <2>2 DEF Made, Standing
  <2>6. /\ stmt' \in [Stmts -> Statement] /\ open' \in BOOLEAN
        /\ broken' \in Nat /\ broken' >= broken /\ broken' > 0
        /\ \A s \in Stmts : stmt'[s].done = stmt[s].done /\ stmt'[s].arrays = stmt[s].arrays
    BY <1>0, <2>3
  <2> QED
    BY <2>1, <2>2, <2>3, <2>4, <2>5, <2>6, CourseMake
<1>3. CASE Store
  <2>1. PICK i \in Ids, n \in Nat : \E x :
              /\ i = NewId /\ res[i].state = "none" /\ Goes("fetch", i)
              /\ Puts(i, x) /\ Made(x, "making", "prepared", n, 0, TRUE, TRUE, TRUE, [a \in 0..(RowSize * n - 1) |-> <<>>])
              /\ stmt' = [stmt EXCEPT ![call.stmt] =
                    [@ EXCEPT !.done = TRUE, !.arrays = i, !.into = i, !.at = [c \in Cols |-> Offset[c]]]]
              /\ FreeWith(OldArrays, {Meta(i), RBind(i), Buffer(i), Arrays(i)})
    BY <1>3, StoreMakes
  <2>2. PICK x : Puts(i, x) /\ Made(x, "making", "prepared", n, 0, TRUE, TRUE, TRUE, [a \in 0..(RowSize * n - 1) |-> <<>>])
    BY <2>1
  <2>3. call.at = "store" /\ UNCHANGED <<open, losses, broken>>
    BY <1>3 DEF Store
  <2>4. fault' \in BOOLEAN
    BY <2>1 DEF FreeWith
  <2>a. [c \in Cols |-> Offset[c]] \in [Cols -> Nat]
    BY Layout
  <2>5. PICK offs : offs = [c \in Cols |-> Offset[c]] /\ offs \in [Cols -> Nat]
    BY <2>a, Zenon
  <2>6. stmt' = [stmt EXCEPT ![call.stmt] = [@ EXCEPT !.done = TRUE, !.arrays = i, !.into = i, !.at = offs]]
    BY <2>1, <2>5
  <2>7. stmt' \in [Stmts -> Statement] /\ stmt'[call.stmt].into = i /\ stmt'[call.stmt].arrays = i
        /\ \A s \in Stmts : s # call.stmt => stmt'[s] = stmt[s]
    BY <1>0, <2>5, <2>6 DEF Statement
  <2>8. IsResult(x) /\ Standing(x) /\ x.rBind /\ x.meta /\ x.intact /\ x.state = "making" /\ x.rowPosition = 0
        /\ x.kind = "prepared"
    BY <2>2 DEF Made, Standing, Kept
  <2>9. /\ broken' \in Nat /\ broken' >= broken /\ open' \in BOOLEAN
        /\ \A s \in Stmts : \/ stmt'[s].done = stmt[s].done /\ stmt'[s].arrays = stmt[s].arrays
                            \/ s = call.stmt /\ stmt'[s].arrays = i
    BY <1>0, <2>3, <2>7
  <2>10. res[i].state = "none" /\ Goes("fetch", i) /\ Puts(i, x) /\ call.at = "store"
    BY <2>1, <2>2, <2>3
  <2> QED
    BY <2>4, <2>7, <2>8, <2>9, <2>10, CourseMake
<1>4. CASE BindFails
  <2>1. PICK i \in Ids, n \in Nat : \E x :
              /\ i = NewId /\ res[i].state = "none" /\ Goes("done", i)
              /\ Puts(i, x) /\ Made(x, "making", "prepared", n, 0, FALSE, FALSE, TRUE, <<>>)
              /\ stmt' = [stmt EXCEPT ![call.stmt].arrays = i]
              /\ FreeWith(OldArrays, {})
    BY <1>4, BindFailsMakes
  <2>2. PICK x : Puts(i, x) /\ Made(x, "making", "prepared", n, 0, FALSE, FALSE, TRUE, <<>>)
    BY <2>1
  <2>3. call.at = "store" /\ UNCHANGED <<open, losses>> /\ broken' = broken + 1
    BY <1>4 DEF BindFails
  <2>4. fault' \in BOOLEAN
    BY <2>1 DEF FreeWith
  <2>5. stmt' \in [Stmts -> Statement] /\ stmt'[call.stmt].arrays = i
        /\ \A s \in Stmts : s # call.stmt => stmt'[s] = stmt[s]
    <3>1. stmt' = [stmt EXCEPT ![call.stmt] = [@ EXCEPT !.arrays = i]]
      BY <1>0, <2>1
    <3>2. PICK y \in Statement : y = stmt[call.stmt]
      BY <1>0
    <3>3. [y EXCEPT !.arrays = i] \in Statement /\ [y EXCEPT !.arrays = i].arrays = i
      BY DEF Statement
    <3> QED
      BY <1>0, <3>1, <3>2, <3>3
  <2>6. /\ IsResult(x) /\ x.state = "making" /\ x.rowPosition = 0 /\ x.kind = "prepared"
        /\ ~x.intact /\ ~Standing(x)
    BY <2>2 DEF Made, Standing
  <2>7. /\ open' \in BOOLEAN /\ broken' \in Nat /\ broken' >= broken /\ broken' > 0
        /\ \A s \in Stmts : \/ stmt'[s].done = stmt[s].done /\ stmt'[s].arrays = stmt[s].arrays
                            \/ s = call.stmt /\ stmt'[s].arrays = i
    BY <1>0, <2>3, <2>5
  <2> QED
    BY <2>1, <2>2, <2>3, <2>4, <2>5, <2>6, <2>7, CourseMake
<1> QED
  BY <1>1, <1>2, <1>3, <1>4

\* A step that changes no result.
LEMMA CourseStays ==
    ASSUME Course, res' = res, open' \in BOOLEAN, fault' \in BOOLEAN, broken' = broken,
           call' \in ACall, stmt' \in [Stmts -> Statement],
           call.result = NoResult, call'.result = NoResult, call'.at # "fetch",
           call'.at \in {"execute", "store"} => Unused # {},
           \A s \in Stmts : stmt'[s].done => stmt[s].done /\ stmt'[s].arrays = stmt[s].arrays,
           call'.at = "idle" \/ call'.stmt = "indexed" => ~stmt'["jit"].done
    PROVE  Course'
<1> USE CourseFacts, Constants
<1>1. RTypeOK'
  BY DEF RTypeOK, ResultsTyped
<1>2. ASSUME NEW i \in Ids PROVE ResultOK(i)'
  <2>1. res'[i] = res[i] /\ ResultOK(i) /\ i # NoResult
    OBVIOUS
  <2>2. res[i].state # "making"
    BY <2>1 DEF ResultOK
  <2> QED
    BY <2>1, <2>2 DEF ResultOK, Standing, Kept
<1>3. BindingsOK'
  BY DEF BindingsOK, Stmts
<1>4. CallOK'
  BY DEF CallOK, Unused
<1> QED
  BY <1>1, <1>2, <1>3, <1>4 DEF Course

\* A new call keeps it: no result is being made, and the just-in-time statement is new.
LEMMA CourseCalls ==
    ASSUME Course, NEW s \in Stmts, NEW params \in ParamLists(s), Call(s, params)
    PROVE  Course'
<1> USE CourseFacts, Constants
<1>1. params \in Seq(Data)
  BY ParamListsType
<1>2. PICK old : old = (IF s = "jit" THEN NewStmt ELSE stmt[s]) /\ old \in Statement
  BY NewStmtType
<1>3. PICK b : b = BindParameters(old.slots, params) /\ b \in [Params -> Slot]
  BY <1>1, <1>2, SlotTypes DEF Statement
<1>4. PICK new : new = [old EXCEPT !.slots = b]
  OBVIOUS
<1>5. new \in Statement /\ new.done = old.done /\ new.arrays = old.arrays
  BY <1>2, <1>3, <1>4 DEF Statement
<1>6. stmt' = [stmt EXCEPT ![s] = new] /\ UNCHANGED <<open, res, live, fault, losses, broken>>
      /\ call.at = "idle" /\ Unused # {}
  BY <1>2, <1>3, <1>4 DEF Call
<1>7. stmt' \in [Stmts -> Statement] /\ stmt'[s] = new /\ \A t \in Stmts : t # s => stmt'[t] = stmt[t]
  BY <1>5, <1>6 DEF RTypeOK
<1>8. /\ call' \in ACall /\ call'.at \in {"execute", "aborted"} /\ call'.result = NoResult
      /\ call'.stmt = s
  BY <1>1 DEF Call, Idle, ACall
<1>9. NewStmt.done = FALSE
  BY DEF NewStmt, NoStmt
<1>10. ~stmt["jit"].done /\ call.result = NoResult
  BY <1>6 DEF BindingsOK, CallOK
<1>11. ASSUME NEW t \in Stmts, stmt'[t].done PROVE stmt[t].done /\ stmt'[t].arrays = stmt[t].arrays
  BY <1>2, <1>5, <1>7, <1>9, <1>11
<1>12. ~stmt'["jit"].done
  BY <1>10, <1>11 DEF Stmts
<1>13. open' \in BOOLEAN /\ fault' \in BOOLEAN
  BY <1>6 DEF RTypeOK
<1> QED
  BY <1>6, <1>7, <1>8, <1>10, <1>11, <1>12, <1>13, CourseStays

\* So does an execution, whether it works or fails.
LEMMA CourseExecutes ==
    ASSUME Course, Execute \/ ExecuteFails
    PROVE  Course'
<1> USE CourseFacts, Constants
<1>1. PICK old \in Statement : old = Stmt
  BY DEF Stmt
<1>2. PICK b : b = ClearParameters(old.slots) /\ b \in [Params -> Slot]
  <2>1. <<>> \in Seq(Data) /\ old.slots \in [Params -> Slot]
    BY DEF Statement
  <2> QED
    BY <2>1, SlotTypes
<1>3. PICK new : new = [old EXCEPT !.slots = b]
  OBVIOUS
<1>4. new \in Statement /\ new.done = old.done /\ new.arrays = old.arrays
  BY <1>2, <1>3 DEF Statement
<1>5. call.at = "execute" /\ call.result = NoResult
  BY DEF Execute, ExecuteFails, CallOK
<1>6. CASE Execute
  <2>1. stmt' = [stmt EXCEPT ![call.stmt] = new]
    BY <1>6, <1>1, <1>2, <1>3 DEF Execute, Stmt
  <2>2. stmt' \in [Stmts -> Statement] /\ stmt'[call.stmt] = new /\ \A t \in Stmts : t # call.stmt => stmt'[t] = stmt[t]
    BY <1>4, <2>1 DEF RTypeOK
  <2>3. \A t \in Stmts : stmt'[t].done = stmt[t].done /\ stmt'[t].arrays = stmt[t].arrays
    BY <1>1, <1>4, <2>2 DEF Stmt
  <2>4. PICK sent \in [Params -> Data \cup {"zero"}] : sent = Transmitted(Stmt.slots)
    <3>1. <<>> \in Seq(Data) /\ Stmt.slots \in [Params -> Slot]
      BY <1>1 DEF Statement
    <3> QED
      BY <3>1, SlotTypes
  <2>5. call' = [call EXCEPT !.sent = sent, !.at = IF call.query THEN "store" ELSE "done"]
    BY <1>6, <2>4 DEF Execute
  <2>6. /\ call' \in ACall /\ call'.at \in {"store", "done"} /\ call'.result = NoResult
        /\ call'.stmt = call.stmt
    BY <2>5, <1>5 DEF ACall
  <2>7. UNCHANGED <<open, res, fault, broken>> /\ open' \in BOOLEAN /\ fault' \in BOOLEAN /\ Unused # {}
    BY <1>6, <1>5 DEF Execute, RTypeOK, CallOK
  <2>8. call.stmt = "indexed" => ~stmt'["jit"].done
    BY <2>3 DEF BindingsOK, Stmts
  <2> QED
    BY <2>2, <2>3, <2>6, <2>7, <2>8, <1>5, CourseStays
<1>7. CASE ExecuteFails
  <2>0. NoStmt \in Statement /\ NoStmt.done = FALSE
    BY NewStmtType DEF NoStmt
  <2>1. stmt' = [stmt EXCEPT ![call.stmt] = IF call.stmt = "jit" THEN NoStmt ELSE new]
    BY <1>7, <1>1, <1>2, <1>3 DEF ExecuteFails, AfterCall
  <2>2. /\ stmt' \in [Stmts -> Statement] /\ stmt'[call.stmt] = (IF call.stmt = "jit" THEN NoStmt ELSE new)
        /\ \A t \in Stmts : t # call.stmt => stmt'[t] = stmt[t]
    BY <1>4, <2>0, <2>1 DEF RTypeOK
  <2>3. \A t \in Stmts : stmt'[t].done => stmt[t].done /\ stmt'[t].arrays = stmt[t].arrays
    BY <1>1, <1>4, <2>0, <2>2 DEF Stmt
  <2>4. call' = Idle /\ fault' \in BOOLEAN
    BY <1>7 DEF ExecuteFails, CallEnds, Free, FreeWith, RTypeOK
  <2>5. call' \in ACall /\ call'.at = "idle" /\ call'.result = NoResult
    BY <2>4 DEF Idle, ACall, Stmts
  <2>6. UNCHANGED <<open, res, broken>> /\ open' \in BOOLEAN
    BY <1>7 DEF ExecuteFails, RTypeOK
  <2>7. ~stmt'["jit"].done
    <3>1. CASE call.stmt = "jit"
      BY <3>1, <2>0, <2>2
    <3>2. CASE call.stmt = "indexed"
      BY <3>2, <2>2 DEF BindingsOK, Stmts
    <3> QED
      BY <3>1, <3>2 DEF Stmts
  <2> QED
    BY <2>2, <2>3, <2>4, <2>5, <2>6, <2>7, <1>5, CourseStays
<1> QED
  BY <1>6, <1>7

\* A reconnection takes the bindings of the indexed statements, and nothing of a result.
LEMMA CourseRetries ==
    ASSUME Course, LoseAndRetry
    PROVE  Course'
<1> USE CourseFacts, Constants
<1> DEFINE new(s) == IF s = "indexed" THEN NewStmt ELSE [stmt[s] EXCEPT !.attached = FALSE]
           bound(s) == [new(s) EXCEPT !.slots = Rebind(@, call.params)]
<1>0. NewStmt \in Statement /\ NewStmt.done = FALSE
  BY NewStmtType DEF NewStmt, NoStmt
<1>1. \A s \in Stmts : new(s) \in Statement /\ (new(s).done => stmt[s].done /\ new(s).arrays = stmt[s].arrays)
  BY <1>0 DEF Statement
<1>2. \A s \in Stmts : Rebind(new(s).slots, call.params) \in [Params -> Slot]
  <2>1. \A s \in Stmts : new(s).slots \in [Params -> Slot]
    BY <1>1 DEF Statement
  <2>2. call.params \in Seq(Data)
    BY DEF ACall
  <2> QED
    BY <2>1, <2>2, SlotTypes DEF Rebind
<1>3. \A s \in Stmts : bound(s) \in Statement /\ bound(s).done = new(s).done /\ bound(s).arrays = new(s).arrays
  <2> HIDE DEF new
  <2> QED
    BY <1>1, <1>2 DEF Statement
<1>4. stmt' = [s \in Stmts |-> IF s = call.stmt THEN bound(s) ELSE new(s)]
  BY DEF LoseAndRetry
<1>5. /\ stmt' \in [Stmts -> Statement]
      /\ \A s \in Stmts : stmt'[s].done => stmt[s].done /\ stmt'[s].arrays = stmt[s].arrays
  <2> HIDE DEF new, bound
  <2> QED
    BY <1>1, <1>3, <1>4
<1>6. call.at = "execute" /\ call.result = NoResult /\ UNCHANGED <<open, call, res, broken>> /\ Unused # {}
  BY DEF LoseAndRetry, CallOK
<1>7. open' \in BOOLEAN /\ fault' \in BOOLEAN
  BY DEF LoseAndRetry, Free, FreeWith, RTypeOK
<1>8. call.stmt = "indexed" => ~stmt'["jit"].done
  BY <1>5 DEF BindingsOK, Stmts
<1> QED
  BY <1>5, <1>6, <1>7, <1>8, CourseStays

\* So does the end of the connection.
LEMMA CourseCloses ==
    ASSUME Course, Close
    PROVE  Course'
<1> USE CourseFacts, Constants
<1>1. stmt' \in [Stmts -> Statement] /\ \A s \in Stmts : ~stmt'[s].done
  BY NewStmtType DEF Close, NoStmt
<1>2. call.at = "idle" /\ call.result = NoResult /\ UNCHANGED <<call, res, broken>>
  BY DEF Close, CallOK
<1>3. open' \in BOOLEAN /\ fault' \in BOOLEAN
  BY DEF Close, Free, FreeWith, RTypeOK
<1> QED
  BY <1>1, <1>2, <1>3, CourseStays DEF Stmts

\* A step of a reader, or of a text query: one result changes that is not the
\* result of the call.
LEMMA CourseReads ==
    ASSUME Course, NEW i \in Ids, NEW x, Puts(i, x), IsResult(x),
           UNCHANGED <<open, stmt, call, broken>>, fault' \in BOOLEAN,
           res[i].state # "making", x.state \in {"held", "read", "gone"},
           res[i].state = "none" => call.at = "idle",
           x.kind = "affected" => ~x.rBind /\ ~x.meta,
           x.kind = "text" => /\ ~x.rBind
                              /\ x.state = "held" => x.meta /\ x.rowPosition > 0
                              /\ x.state = "read" => ~x.meta,
           Standing(x) => /\ x.rBind /\ x.meta /\ Len(x.rows) = x.rowCount
                          /\ x.state = "held" => x.rowPosition < x.rowCount,
           ~x.intact => broken > 0
    PROVE  Course'
<1> USE CourseFacts, Constants
<1>1. ResultsTyped' /\ res'[i] = x /\ \A j \in Ids : j # i => res'[j] = res[j]
  BY PutResult
<1>2. RTypeOK'
  BY <1>1 DEF RTypeOK
<1>3. call.at \in {"fetch", "done"} => call.result # i
  BY DEF ResultOK
<1>4. ASSUME NEW j \in Ids PROVE ResultOK(j)'
  <2>1. CASE j = i
    BY <2>1, <1>1, <1>3 DEF ResultOK
  <2>2. CASE j # i
    <3>1. res'[j] = res[j] /\ ResultOK(j)
      BY <2>2, <1>1
    <3> QED
      BY <3>1 DEF ResultOK
  <2> QED
    BY <2>1, <2>2
<1>5. BindingsOK'
  <2>1. ASSUME NEW s \in Stmts, stmt[s].done PROVE res'[stmt[s].arrays].state # "none"
    <3>1. stmt[s].arrays \in Ids /\ res[stmt[s].arrays].state # "none"
      BY <2>1 DEF BindingsOK
    <3> QED
      BY <3>1, <1>1
  <2> QED
    BY <2>1 DEF BindingsOK
<1>6. CallOK'
  <2>1. call.at \in {"execute", "store"} => Unused' # {}
    <3>1. call.at \in {"execute", "store"} => \E j \in Ids : res[j].state = "none" /\ j # i
      BY DEF CallOK, Unused
    <3>2. call.at \in {"execute", "store"} => \E j \in Ids : res'[j].state = "none"
      BY <3>1, <1>1
    <3> QED
      BY <3>2 DEF Unused
  <2>2. call.at = "fetch" => call.result \in Ids /\ Standing(res'[call.result]) /\ Stmt.into = call.result
    BY <1>1, <1>3 DEF CallOK
  <2> QED
    BY <2>1, <2>2 DEF CallOK, Stmt
<1> QED
  BY <1>2, <1>4, <1>5, <1>6 DEF Course

\* A text query makes a result that is at its first row.
LEMMA CourseTextQuery ==
    ASSUME Course, TextQuery
    PROVE  Course'
<1>1. PICK i \in Ids, n \in Nat : \E x :
              /\ i = NewId /\ res[i].state = "none" /\ live' = live \cup {Text(i)}
              /\ Puts(i, x) /\ Made(x, "held", "text", n, 1, TRUE, FALSE, TRUE, <<>>)
  BY TextQueryMakes
<1>2. PICK x : Puts(i, x) /\ Made(x, "held", "text", n, 1, TRUE, FALSE, TRUE, <<>>)
  BY <1>1
<1>3. UNCHANGED <<open, stmt, call, broken>> /\ fault' \in BOOLEAN /\ call.at = "idle"
  BY CourseFacts DEF TextQuery, RTypeOK
<1>4. /\ IsResult(x) /\ x.state = "held" /\ x.kind = "text" /\ x.meta /\ ~x.rBind /\ x.rowPosition > 0
      /\ x.intact /\ ~Standing(x)
  BY <1>2 DEF Made, Standing
<1> QED
  BY <1>1, <1>2, <1>3, <1>4, CourseReads

\* NextRow keeps a held result at one of its rows.
LEMMA CourseNextRow ==
    ASSUME Course, NEW i \in Ids, NextRow(i)
    PROVE  Course'
<1> USE CourseFacts
<1>1. PICK x :
              /\ Puts(i, x) /\ IsResult(x) /\ Same(x, res[i])
              /\ x.state = (IF MoreRows(res[i]) THEN "held" ELSE "read")
              /\ x.rowPosition = (IF MoreRows(res[i]) \/ res[i].kind # "text" THEN res[i].rowPosition + 1
                                                                             ELSE res[i].rowPosition)
              /\ x.meta = (res[i].meta /\ (MoreRows(res[i]) \/ res[i].kind # "text"))
  BY NextRowMoves
<1>2. UNCHANGED <<open, stmt, call, broken>> /\ fault' \in BOOLEAN /\ res[i].state = "held"
  BY DEF NextRow, Free, FreeWith, RTypeOK
<1>3. ResultOK(i) /\ IsResult(res[i])
  OBVIOUS
<1>4. x.kind = "affected" => ~x.rBind /\ ~x.meta
  BY <1>1, <1>3 DEF Same, ResultOK
<1>5. x.kind = "text" => /\ ~x.rBind
                         /\ x.state = "held" => x.meta /\ x.rowPosition > 0
                         /\ x.state = "read" => ~x.meta
  BY <1>1, <1>2, <1>3 DEF Same, ResultOK, IsResult
<1>6. Standing(x) => /\ x.rBind /\ x.meta /\ Len(x.rows) = x.rowCount
                     /\ x.state = "held" => x.rowPosition < x.rowCount
  <2> SUFFICES ASSUME Standing(x)
               PROVE  /\ x.rBind /\ x.meta /\ Len(x.rows) = x.rowCount
                      /\ x.state = "held" => x.rowPosition < x.rowCount
    OBVIOUS
  <2>1. Standing(res[i]) /\ res[i].kind = "prepared"
    BY <1>1, <1>2 DEF Standing, Kept, Same
  <2>2. res[i].rBind /\ res[i].meta /\ Len(res[i].rows) = res[i].rowCount
    BY <2>1, <1>2, <1>3 DEF ResultOK
  <2>3. x.state = "held" => x.rowPosition < x.rowCount
    BY <2>1, <1>1, <1>3 DEF MoreRows, Same, IsResult
  <2> QED
    BY <2>1, <2>2, <2>3, <1>1 DEF Same
<1>7. ~x.intact => broken > 0
  BY <1>1, <1>3 DEF ResultOK, Same
<1> QED
  BY <1>1, <1>2, <1>4, <1>5, <1>6, <1>7, CourseReads

\* A deleted result has nothing to keep.
LEMMA CourseDeletes ==
    ASSUME Course, NEW i \in Ids, DeleteResult(i)
    PROVE  Course'
<1>1. PICK x : /\ Puts(i, x) /\ IsResult(x)
               /\ x.state = "gone" /\ x.kind = "prepared" /\ x.intact = TRUE
  BY DeleteResultEnds
<1>2. UNCHANGED <<open, stmt, call, broken>> /\ fault' \in BOOLEAN /\ res[i].state \in {"held", "read"}
  BY CourseFacts DEF DeleteResult, Free, FreeWith, RTypeOK
<1>3. ~Standing(x)
  BY <1>1 DEF Standing, Kept
<1> QED
  BY <1>1, <1>2, <1>3, CourseReads

\* The loop of the constructor ends with as many rows as the result has.
LEMMA CourseFetches ==
    ASSUME Course, FetchRow \/ FetchEnds \/ \E i \in Ids : FetchNothing(i) \/ FetchAndGet(i)
    PROVE  Course'
<1> USE CourseFacts, Constants
<1>1. CASE FetchRow
  <2>0. call.at = "fetch" /\ UNCHANGED <<open, call, live, losses, broken>>
    BY <1>1 DEF FetchRow
  <2>1. PICK i \in Ids, row \in [Cols -> UNION {Lengths(c) : c \in Cols}] : \E x :
              /\ i = call.result /\ Puts(i, x) /\ IsResult(x)
              /\ x.state = res[i].state /\ x.kind = res[i].kind /\ x.rowCount = res[i].rowCount
              /\ x.rowPosition = res[i].rowPosition /\ x.intact = res[i].intact
              /\ x.rBind = res[i].rBind /\ x.meta = res[i].meta
              /\ stmt' = [stmt EXCEPT ![call.stmt].at = Advance(row)]
              /\ Advance(row) \in [Cols -> Nat]
              /\ fault' \in BOOLEAN
    BY <1>1, FetchRowAdds, ZenonT(40), <2>0 DEF RTypeOK
  <2>2. PICK x :
              /\ Puts(i, x) /\ IsResult(x)
              /\ x.state = res[i].state /\ x.kind = res[i].kind /\ x.rowCount = res[i].rowCount
              /\ x.rowPosition = res[i].rowPosition /\ x.intact = res[i].intact
              /\ x.rBind = res[i].rBind /\ x.meta = res[i].meta
    BY <2>1
  <2>3. ResultsTyped' /\ res'[i] = x /\ \A j \in Ids : j # i => res'[j] = res[j]
    BY <2>2, PutResult
  <2>4. PICK adv \in [Cols -> Nat] : adv = Advance(row)
    BY <2>1
  <2>5. /\ stmt' \in [Stmts -> Statement]
        /\ \A s \in Stmts : /\ stmt'[s].done = stmt[s].done /\ stmt'[s].arrays = stmt[s].arrays
                            /\ stmt'[s].into = stmt[s].into
    <3>1. PICK y \in Statement : y = stmt[call.stmt]
      OBVIOUS
    <3>2. stmt' = [stmt EXCEPT ![call.stmt] = [y EXCEPT !.at = adv]]
      BY <2>1, <2>4, <3>1
    <3>3. PICK z : z = [y EXCEPT !.at = adv]
      OBVIOUS
    <3>4. z \in Statement /\ z.done = y.done /\ z.arrays = y.arrays /\ z.into = y.into
      BY <3>3, <2>4 DEF Statement
    <3> QED
      BY <3>1, <3>2, <3>3, <3>4 DEF RTypeOK
  <2>6. RTypeOK'
    BY <2>0, <2>1, <2>3, <2>5 DEF RTypeOK
  <2>7. ASSUME NEW j \in Ids PROVE ResultOK(j)'
    <3>1. CASE j = i
      <4>1. ResultOK(i) /\ res'[i].state = res[i].state /\ res[i].state = "making"
        BY <2>0, <2>1, <2>2, <2>3 DEF ResultOK
      <4> QED
        BY <3>1, <4>1, <2>0, <2>2, <2>3 DEF ResultOK, Standing, Kept
    <3>2. CASE j # i
      BY <3>2, <2>0, <2>3 DEF ResultOK
    <3> QED
      BY <3>1, <3>2
  <2>8. \A j \in Ids : res'[j].state = res[j].state
    BY <2>2, <2>3
  <2>9. BindingsOK'
    BY <2>0, <2>5, <2>8 DEF BindingsOK, Stmts
  <2>10. CallOK'
    <3>1. Standing(res'[i]) /\ Stmt'.into = i
      BY <2>0, <2>1, <2>2, <2>3, <2>5 DEF CallOK, Standing, Kept, Stmt
    <3> QED
      BY <3>1, <2>0, <2>1 DEF CallOK
  <2> QED
    BY <2>6, <2>7, <2>9, <2>10 DEF Course
<1>2. CASE FetchEnds
  <2>1. /\ call.at = "fetch" /\ call' = [call EXCEPT !.at = "done"]
        /\ Len(res[call.result].rows) = res[call.result].rowCount
        /\ UNCHANGED <<open, stmt, res, live, fault, losses, broken>>
    BY <1>2 DEF FetchEnds
  <2>2. call' \in ACall /\ call'.at = "done" /\ call'.result = call.result /\ call'.stmt = call.stmt
    BY <2>1 DEF ACall
  <2>3. RTypeOK'
    BY <2>1, <2>2 DEF RTypeOK, ResultsTyped
  <2>4. ASSUME NEW j \in Ids PROVE ResultOK(j)'
    <3>1. ResultOK(j) /\ res'[j] = res[j]
      BY <2>1
    <3>2. res[j].state = "making" => Len(res[j].rows) = res[j].rowCount
      BY <2>1, <3>1 DEF ResultOK
    <3> QED
      BY <3>1, <3>2, <2>1, <2>2 DEF ResultOK
  <2>5. BindingsOK'
    BY <2>1, <2>2 DEF BindingsOK
  <2>6. CallOK'
    BY <2>1, <2>2 DEF CallOK
  <2> QED
    BY <2>3, <2>4, <2>5, <2>6 DEF Course
<1>3. CASE \E i \in Ids : FetchNothing(i) \/ FetchAndGet(i)
  <2>1. UNCHANGED <<open, stmt, call, res, live, losses, broken>> /\ fault' \in BOOLEAN
    BY <1>3 DEF FetchNothing, FetchAndGet
  <2> QED
    BY <2>1 DEF Course, RTypeOK, ResultsTyped, ResultOK, BindingsOK, CallOK, Unused, Stmt
<1> QED
  BY <1>1, <1>2, <1>3

\* The end of a call hands over only results with rows.
LEMMA CourseReturns ==
    ASSUME Course, Return
    PROVE  Course'
<1> USE CourseFacts, Constants
<1>0. NoStmt \in Statement /\ NoStmt.done = FALSE
  BY NewStmtType DEF NoStmt
<1>1. /\ call.at = "done" /\ call' = Idle /\ UNCHANGED <<open, losses, broken>>
      /\ stmt' = [stmt EXCEPT ![call.stmt] = IF call.stmt = "jit" THEN NoStmt ELSE stmt[call.stmt]]
      /\ open' \in BOOLEAN /\ fault' \in BOOLEAN
  BY DEF Return, AfterCall, Stmt, Free, FreeWith, RTypeOK
<1>2. call' \in ACall /\ call'.at = "idle" /\ call'.result = NoResult
  BY <1>1 DEF Idle, ACall, Stmts
<1>3. /\ stmt' \in [Stmts -> Statement]
      /\ \A s \in Stmts : stmt'[s].done => stmt[s].done /\ stmt'[s].arrays = stmt[s].arrays
  BY <1>0, <1>1 DEF RTypeOK
<1>4. ~stmt'["jit"].done
  <2>1. CASE call.stmt = "jit"
    BY <2>1, <1>0, <1>1 DEF RTypeOK
  <2>2. CASE call.stmt = "indexed"
    BY <2>2, <1>3 DEF BindingsOK, Stmts
  <2> QED
    BY <2>1, <2>2 DEF Stmts
<1>5. CASE call.result = NoResult
  <2>1. res' = res
    BY <1>5 DEF Return
  <2> QED
    BY <2>1, <1>1, <1>2, <1>3, <1>4, <1>5, CourseStays
<1>6. CASE call.result \in Ids
  <2>1. PICK i \in Ids : \E x :
              /\ i = call.result /\ Puts(i, x) /\ IsResult(x) /\ Same(x, res[i])
              /\ x.state = (IF res[i].rowCount > 0 THEN "held" ELSE "gone")
              /\ x.rowPosition = res[i].rowPosition /\ x.meta = res[i].meta
    BY <1>6, ReturnGives
  <2>2. PICK x :
              /\ Puts(i, x) /\ IsResult(x) /\ Same(x, res[i])
              /\ x.state = (IF res[i].rowCount > 0 THEN "held" ELSE "gone")
              /\ x.rowPosition = res[i].rowPosition /\ x.meta = res[i].meta
    BY <2>1
  <2>3. ResultsTyped' /\ res'[i] = x /\ \A j \in Ids : j # i => res'[j] = res[j]
    BY <2>2, PutResult
  <2>4. ResultOK(i) /\ res[i].state = "making" /\ i = call.result
    BY <2>1, <1>1 DEF ResultOK
  <2>5. RTypeOK'
    BY <1>1, <1>2, <1>3, <2>3 DEF RTypeOK
  <2>6. ResultOK(i)'
    <3>1. Standing(x) => /\ x.rBind /\ x.meta /\ Len(x.rows) = x.rowCount
                         /\ x.state = "held" => x.rowPosition < x.rowCount
      <4> SUFFICES ASSUME Standing(x)
                   PROVE  /\ x.rBind /\ x.meta /\ Len(x.rows) = x.rowCount
                          /\ x.state = "held" => x.rowPosition < x.rowCount
        OBVIOUS
      <4>1. Standing(res[i])
        BY <2>2, <2>4 DEF Standing, Kept, Same
      <4>2. res[i].rBind /\ res[i].meta /\ Len(res[i].rows) = res[i].rowCount /\ res[i].rowPosition = 0
        BY <4>1, <2>4, <1>1 DEF ResultOK
      <4>3. x.state = "held" => res[i].rowCount > 0
        BY <2>2
      <4> QED
        BY <4>2, <4>3, <2>2 DEF Same
    <3>2. x.kind = res[i].kind /\ x.kind # "text" /\ (x.kind = "affected" => ~x.rBind /\ ~x.meta)
          /\ (~x.intact => broken > 0) /\ x.state \in {"held", "gone"}
      BY <2>2, <2>4 DEF ResultOK, Same
    <3> QED
      BY <3>1, <3>2, <1>1, <1>2, <2>3 DEF ResultOK
  <2>7. ASSUME NEW j \in Ids, j # i PROVE ResultOK(j)'
    <3>1. res'[j] = res[j] /\ ResultOK(j) /\ res[j].state # "making"
      BY <2>3, <2>4, <2>7 DEF ResultOK
    <3> QED
      BY <3>1, <1>1, <1>2 DEF ResultOK
  <2>8. \A j \in Ids : res'[j].state = "none" <=> res[j].state = "none"
    BY <2>2, <2>3, <2>4
  <2>9. BindingsOK'
    BY <1>2, <1>3, <1>4, <2>8 DEF BindingsOK, Stmts
  <2>10. CallOK'
    BY <1>2 DEF CallOK
  <2> QED
    BY <2>5, <2>6, <2>7, <2>9, <2>10 DEF Course
<1> QED
  BY <1>5, <1>6 DEF ACall

\* The course of statements, calls and results.
LEMMA CourseKept ==
    ASSUME Course, [RNext]_vars
    PROVE  Course'
<1>1. CASE Step
  BY <1>1, CourseCalls, CourseExecutes, CourseRetries, CourseMakes, CourseFetches, CourseReturns,
     CourseTextQuery, CourseNextRow, CourseDeletes, CourseCloses DEF Step
<1>2. CASE UNCHANGED vars
  BY <1>2 DEF vars, Course, RTypeOK, ResultsTyped, ResultOK, BindingsOK, CallOK, Unused, Stmt
<1> QED
  BY <1>1, <1>2 DEF RNext, Rest

\* They begin well.
LEMMA CourseBegins ==
    ASSUME RInit
    PROVE  Course
<1> USE Constants
<1>1. /\ stmt \in [Stmts -> Statement] /\ \A s \in Stmts : ~stmt[s].done
  BY NewStmtType DEF RInit, NewStmt, NoStmt
<1>2. call \in ACall /\ call.at = "idle" /\ call.result = NoResult
  BY DEF RInit, Idle, ACall, Stmts
<1>3. /\ res = [i \in Ids |-> res[i]] /\ \A i \in Ids : res[i] = NoRes /\ IsResult(res[i])
  BY NoResType DEF RInit
<1>4. RTypeOK
  BY <1>1, <1>2, <1>3 DEF RInit, RTypeOK, ResultsTyped
<1>5. \A i \in Ids : ResultOK(i)
  BY <1>2, <1>3 DEF ResultOK, NoRes, Standing, Kept
<1>6. BindingsOK /\ CallOK
  BY <1>1, <1>2 DEF BindingsOK, CallOK, Stmts
<1> QED
  BY <1>4, <1>5, <1>6 DEF Course

-----------------------------------------------------------------------------
(***************************************************************************)
(* Parameters.                                                             *)
(***************************************************************************)

\* The slots of a statement whose parameters have been bound.
BoundSlots(slots, params) ==
    \A p \in Params : IF p <= Len(params) THEN Bound(slots[p], params[p])
                                          ELSE slots[p].is = "zero" /\ Cleared(slots[p])

\* Binding fills slots that are clear, and those that hold the same parameters:
\* no length is forgotten.
LEMMA BindingBinds ==
    ASSUME NEW slots \in [Params -> Slot], NEW params \in Seq(Data),
           \/ \A p \in Params : Cleared(slots[p]) /\ (p > Len(params) => slots[p].is = "zero")
           \/ BoundSlots(slots, params)
    PROVE  BoundSlots(BindParameters(slots, params), params)
<1> SUFFICES ASSUME NEW p \in Params
             PROVE  IF p <= Len(params) THEN Bound(BindParameters(slots, params)[p], params[p])
                    ELSE /\ BindParameters(slots, params)[p].is = "zero"
                         /\ Cleared(BindParameters(slots, params)[p])
  BY DEF BoundSlots
<1>0. p \in Nat /\ p >= 1 /\ Len(params) \in Nat
  BY Constants DEF Params
<1>1. CASE p <= Len(params)
  <2>1. PICK v \in Data : v = params[p]
    BY <1>0, <1>1
  <2>2. PICK o \in Slot : o = slots[p]
    OBVIOUS
  <2>3. ~o.lost /\ (o.length => v = "text")
    BY <1>1, <2>1, <2>2 DEF Cleared, BoundSlots, Bound
  <2>4. Bound(SetParameter(o, v), v)
    BY <2>3 DEF Bound, SetParameter
  <2>5. BindParameters(slots, params)[p] = SetParameter(o, v)
    BY <1>1, <2>1, <2>2 DEF BindParameters
  <2> QED
    BY <1>1, <2>1, <2>4, <2>5
<1>2. CASE ~(p <= Len(params))
  <2>1. BindParameters(slots, params)[p] = slots[p]
    BY <1>2 DEF BindParameters
  <2>2. slots[p].is = "zero" /\ Cleared(slots[p])
    BY <1>0, <1>2 DEF BoundSlots
  <2> QED
    BY <1>2, <2>1, <2>2
<1> QED
  BY <1>1, <1>2

\* What the server gets of bound slots, and what clearing leaves of them.
LEMMA BoundSent ==
    ASSUME NEW slots \in [Params -> Slot], NEW params \in Seq(Data), BoundSlots(slots, params), NEW p \in Params
    PROVE  /\ Transmitted(slots)[p] = IF p <= Len(params) THEN params[p] ELSE "zero"
           /\ Cleared(ClearParameters(slots)[p])
<1>1. Transmitted(slots)[p] = IF p <= Len(params) THEN params[p] ELSE "zero"
  BY DEF Transmitted, BoundSlots, Bound, Cleared
<1>2. PICK o \in Slot : o = slots[p] /\ ~o.lost
  BY DEF BoundSlots, Bound, Cleared
<1>3. ClearParameters(slots)[p] = [o EXCEPT !.buffer = FALSE, !.length = FALSE]
  BY <1>2 DEF ClearParameters
<1>4. Cleared(ClearParameters(slots)[p])
  BY <1>2, <1>3 DEF Cleared, Slot
<1> QED
  BY <1>1, <1>4

\* A statement that was just prepared is clear.
LEMMA NewStmtClear ==
    \A p \in Params : /\ Cleared(NoStmt.slots[p]) /\ NoStmt.slots[p].is = "zero"
                      /\ Cleared(NewStmt.slots[p]) /\ NewStmt.slots[p].is = "zero"
  BY DEF NewStmt, NoStmt, ZeroSlot, Cleared

\* A step that binds nothing.
LEMMA BoundStays ==
    ASSUME Course, BoundOK, call.at \notin {"execute", "aborted"}, call'.at \notin {"execute", "aborted"},
           \A s \in Stmts : stmt'[s].slots = stmt[s].slots \/ stmt'[s] = NoStmt,
           SentAsSet'
    PROVE  BoundOK'
<1>1. \A s \in Stmts, p \in Params : Cleared(stmt[s].slots[p])
  BY DEF BoundOK
<1>2. \A s \in Stmts, p \in Params : Cleared(stmt'[s].slots[p])
  BY <1>1, NewStmtClear
<1> QED
  BY <1>2 DEF BoundOK

\* Every step keeps the parameters in order.
LEMMA BoundKept ==
    ASSUME Course, BoundOK, call.at # "aborted", Step
    PROVE  BoundOK'
<1> USE CourseFacts, Constants
<1>0. stmt \in [Stmts -> Statement] /\ call.params \in Seq(Data) /\ \A s \in Stmts : stmt[s].slots \in [Params -> Slot]
  BY DEF RTypeOK, Statement, ACall
<1>1. ASSUME NEW s \in Stmts, NEW params \in ParamLists(s), Call(s, params) PROVE BoundOK'
  <2>1. params \in Seq(Data) /\ (s = "indexed" => Len(params) = NumParams)
    BY ParamListsType
  <2>2. PICK old : old = (IF s = "jit" THEN NewStmt ELSE stmt[s]) /\ old \in Statement
    BY NewStmtType
  <2>3. PICK b : b = BindParameters(old.slots, params)
    OBVIOUS
  <2>4. stmt' = [stmt EXCEPT ![s] = [old EXCEPT !.slots = b]] /\ call.at = "idle"
    BY <1>1, <2>2, <2>3 DEF Call
  <2>5. [old EXCEPT !.slots = b].slots = b
    BY <2>2 DEF Statement
  <2>6. stmt'[s].slots = b /\ \A t \in Stmts : t # s => stmt'[t] = stmt[t]
    BY <1>0, <2>4, <2>5
  <2>7. call'.stmt = s /\ call'.params = params /\ call'.sent = <<>>
        /\ call'.at = (IF AssertValidIndex(params) THEN "execute" ELSE "aborted")
    BY <1>1 DEF Call, Idle
  <2>8. \A t \in Stmts, p \in Params : Cleared(stmt[t].slots[p])
    BY <2>4 DEF BoundOK
  <2>9. ASSUME NEW p \in Params
        PROVE  Cleared(old.slots[p]) /\ (p > Len(params) => old.slots[p].is = "zero")
    <3>1. CASE s = "jit"
      BY <3>1, <2>2, NewStmtClear
    <3>2. CASE s # "jit"
      <4>1. s = "indexed" /\ p <= NumParams /\ p \in Nat
        BY <3>2 DEF Stmts, Params
      <4> QED
        BY <3>2, <4>1, <2>1, <2>2, <2>8
    <3> QED
      BY <3>1, <3>2
  <2>10. BoundSlots(b, params)
    BY <2>1, <2>2, <2>3, <2>9, BindingBinds DEF Statement
  <2>11. call'.at = "execute" => Len(params) <= NumParams
    BY <2>7 DEF AssertValidIndex
  <2> QED
    BY <2>1, <2>6, <2>7, <2>8, <2>10, <2>11 DEF BoundOK, BoundSlots, SentAsSet, Stmt
<1>2. ASSUME Execute PROVE BoundOK'
  <2>1. call.at = "execute" /\ BoundSlots(Stmt.slots, call.params) /\ Stmt.slots \in [Params -> Slot]
    BY <1>2, <1>0 DEF Execute, BoundOK, BoundSlots, Stmt
  <2>2. \A p \in Params : /\ Transmitted(Stmt.slots)[p] = IF p <= Len(call.params) THEN call.params[p] ELSE "zero"
                          /\ Cleared(ClearParameters(Stmt.slots)[p])
    BY <2>1, <1>0, BoundSent
  <2>3. /\ stmt'[call.stmt].slots = ClearParameters(Stmt.slots)
        /\ \A t \in Stmts : t # call.stmt => stmt'[t] = stmt[t]
    BY <1>2, <1>0 DEF Execute, Statement, Stmt
  <2>4. /\ call'.sent = Transmitted(Stmt.slots) /\ call'.at \in {"store", "done"}
        /\ call'.stmt = call.stmt /\ call'.params = call.params
    BY <1>2 DEF Execute, ACall
  <2>5. \A t \in Stmts, p \in Params : Cleared(stmt'[t].slots[p])
    BY <2>2, <2>3 DEF BoundOK
  <2>6. SentAsSet'
    BY <2>2, <2>4 DEF SentAsSet
  <2> QED
    BY <2>4, <2>5, <2>6 DEF BoundOK
<1>3. ASSUME ExecuteFails PROVE BoundOK'
  <2>1. call.at = "execute" /\ BoundSlots(Stmt.slots, call.params) /\ Stmt.slots \in [Params -> Slot]
    BY <1>3, <1>0 DEF ExecuteFails, BoundOK, BoundSlots, Stmt
  <2>2. \A p \in Params : Cleared(ClearParameters(Stmt.slots)[p])
    BY <2>1, <1>0, BoundSent
  <2>3. /\ stmt'[call.stmt].slots = ClearParameters(Stmt.slots) \/ stmt'[call.stmt] = NoStmt
        /\ \A t \in Stmts : t # call.stmt => stmt'[t] = stmt[t]
    BY <1>3, <1>0 DEF ExecuteFails, AfterCall, Statement, Stmt
  <2>4. call'.at = "idle" /\ call'.sent = <<>>
    BY <1>3 DEF ExecuteFails, CallEnds, Idle
  <2>5. \A t \in Stmts, p \in Params : Cleared(stmt'[t].slots[p])
    BY <2>2, <2>3, NewStmtClear DEF BoundOK
  <2> QED
    BY <2>4, <2>5 DEF BoundOK, SentAsSet
<1>4. ASSUME LoseAndRetry PROVE BoundOK'
  <2>1. call.at = "execute" /\ UNCHANGED call /\ BoundSlots(Stmt.slots, call.params)
    BY <1>4 DEF LoseAndRetry, BoundOK, BoundSlots
  <2> DEFINE new(s) == IF s = "indexed" THEN NewStmt ELSE [stmt[s] EXCEPT !.attached = FALSE]
  <2>2. /\ new("indexed") = NewStmt /\ new("jit").slots = stmt["jit"].slots
        /\ \A s \in Stmts : new(s) \in Statement
    BY NewStmtType DEF Statement, Stmts
  <2>3. \A s \in Stmts : stmt'[s] = IF s = call.stmt THEN [new(s) EXCEPT !.slots = Rebind(@, call.params)] ELSE new(s)
    BY <1>4 DEF LoseAndRetry
  <2> HIDE DEF new
  <2>4. stmt'[call.stmt].slots = BindParameters(new(call.stmt).slots, call.params)
    BY <2>2, <2>3 DEF Rebind, Statement
  <2>5. BoundSlots(BindParameters(new(call.stmt).slots, call.params), call.params)
    <3>1. CASE call.stmt = "indexed"
      <4>1. Len(call.params) = NumParams
        BY <2>1, <3>1 DEF BoundOK
      <4>2. \A p \in Params : p <= NumParams
        BY DEF Params
      <4>3. \A p \in Params : Cleared(new(call.stmt).slots[p]) /\ new(call.stmt).slots[p].is = "zero"
        BY <3>1, <2>2, NewStmtClear
      <4>4. new(call.stmt).slots \in [Params -> Slot]
        BY <2>2 DEF Statement
      <4> QED
        BY <4>3, <4>4, <1>0, BindingBinds
    <3>2. CASE call.stmt = "jit"
      <4>1. new(call.stmt).slots = Stmt.slots /\ Stmt.slots \in [Params -> Slot]
        BY <3>2, <2>2, <1>0 DEF Stmt
      <4>2. PICK sl \in [Params -> Slot] : sl = Stmt.slots
        BY <4>1
      <4>3. BoundSlots(sl, call.params)
        BY <4>2, <2>1
      <4>4. BoundSlots(BindParameters(sl, call.params), call.params)
        BY <4>3, <1>0, BindingBinds
      <4> QED
        BY <4>1, <4>2, <4>4
    <3> QED
      BY <3>1, <3>2 DEF Stmts
  <2>6. ASSUME NEW s \in Stmts, s # call.stmt PROVE \A p \in Params : Cleared(stmt'[s].slots[p])
    <3>1. stmt'[s] = new(s)
      BY <2>3, <2>6
    <3>2. CASE s = "indexed"
      BY <3>1, <3>2, <2>2, NewStmtClear
    <3>3. CASE s = "jit"
      <4>1. \A p \in Params : Cleared(stmt["jit"].slots[p])
        BY <3>3, <2>6 DEF BoundOK
      <4> QED
        BY <3>1, <3>3, <2>2, <4>1
    <3> QED
      BY <3>2, <3>3 DEF Stmts
  <2>7. BoundSlots(Stmt.slots, call.params)'
    BY <2>1, <2>4, <2>5 DEF Stmt, BoundSlots
  <2>8. SentAsSet'
    BY <2>1 DEF SentAsSet
  <2> QED
    BY <2>1, <2>6, <2>7, <2>8 DEF BoundOK, BoundSlots
<1>5. ASSUME NoMetadata \/ StoreFails \/ BindFails \/ Store PROVE BoundOK'
  <2>1. call.at = "store" /\ call'.at \in {"fetch", "done"} /\ call'.sent = <<>>
    BY <1>5 DEF NoMetadata, StoreFails, BindFails, Store, Idle
  <2>2. \A s \in Stmts : stmt'[s].slots = stmt[s].slots
    <3>1. CASE NoMetadata \/ StoreFails
      BY <3>1 DEF NoMetadata, StoreFails
    <3>2. CASE BindFails
      <4>1. stmt' = [stmt EXCEPT ![call.stmt].arrays = NewId]
        BY <3>2 DEF BindFails
      <4> QED
        BY <4>1, <1>0 DEF Statement
    <3>3. CASE Store
      <4>1. PICK at : at = [c \in Cols |-> Offset[c]]
        OBVIOUS
      <4>2. stmt' = [stmt EXCEPT ![call.stmt] = [@ EXCEPT !.done = TRUE, !.arrays = NewId, !.into = NewId, !.at = at]]
        BY <3>3, <4>1 DEF Store
      <4> QED
        BY <4>2, <1>0 DEF Statement
    <3> QED
      BY <1>5, <3>1, <3>2, <3>3
  <2> QED
    BY <2>1, <2>2, BoundStays DEF SentAsSet
<1>6. ASSUME FetchRow \/ FetchEnds PROVE BoundOK'
  <2>1. call.at = "fetch" /\ call'.at \in {"fetch", "done"} /\ call'.sent = call.sent /\ call'.params = call.params
    BY <1>6 DEF FetchRow, FetchEnds, ACall
  <2>2. \A s \in Stmts : stmt'[s].slots = stmt[s].slots
    <3>1. CASE FetchRow
      <4>1. \E adv : stmt' = [stmt EXCEPT ![call.stmt].at = adv]
        BY <3>1 DEF FetchRow
      <4> QED
        BY <4>1, <1>0 DEF Statement
    <3>2. CASE FetchEnds
      BY <3>2 DEF FetchEnds
    <3> QED
      BY <1>6, <3>1, <3>2
  <2>3. SentAsSet'
    BY <2>1 DEF SentAsSet, BoundOK
  <2> QED
    BY <2>1, <2>2, <2>3, BoundStays
<1>7. ASSUME Return \/ Close PROVE BoundOK'
  <2>1. call.at \in {"idle", "done"} /\ call'.at = "idle"
    BY <1>7 DEF Return, Close, Idle
  <2>2. \A s \in Stmts : stmt'[s].slots = stmt[s].slots \/ stmt'[s] = NoStmt
    BY <1>7, <1>0 DEF Return, Close, AfterCall, Stmt
  <2> QED
    BY <2>1, <2>2, BoundStays DEF SentAsSet
<1>8. ASSUME TextQuery \/ \E i \in Ids : \/ NextRow(i) \/ DeleteResult(i)
                                           \/ FetchNothing(i) \/ FetchAndGet(i)
      PROVE  BoundOK'
  <2>1. UNCHANGED <<stmt, call>>
    BY <1>8 DEF TextQuery, NextRow, FetchNothing, FetchAndGet, DeleteResult
  <2> QED
    BY <2>1 DEF BoundOK, SentAsSet, Stmt
<1> QED
  BY <1>1, <1>2, <1>3, <1>4, <1>5, <1>6, <1>7, <1>8 DEF Step

-----------------------------------------------------------------------------
(***************************************************************************)
(* Rows.                                                                   *)
(***************************************************************************)

\* The next period of a column is one row further.
LEMMA NextPeriod ==
    ASSUME NEW c \in Cols, NEW k \in Nat
    PROVE  /\ At(c, k) \in Nat /\ At(c, 0) = Offset[c]
           /\ At(c, k + 1) = At(c, k) + RowSize
<1>1. RowSize \in Nat /\ Offset[c] \in Nat
  BY Layout
<1>2. k * RowSize \in Nat /\ (k + 1) * RowSize = k * RowSize + RowSize /\ 0 * RowSize = 0
  BY <1>1
<1> QED
  BY <1>1, <1>2 DEF At

\* What a fetch writes for a value stays in the place of the value, and holds it.
LEMMA ExtentFits ==
    ASSUME NEW c \in Cols, NEW length \in Lengths(c), Stmt.at[c] \in Nat, length # NULL
    PROVE  /\ length \in 0..Size(c)
           /\ \A a \in Extent(c, length) : a \in Int /\ Stmt.at[c] <= a /\ a < Stmt.at[c] + Size(c)
           /\ \A a \in Stmt.at[c]..(Stmt.at[c] + length - 1) : a \in Extent(c, length)
<1>1. Size(c) \in Nat /\ (Columns[c] \in StringTypes => Size(c) = MaxLength + 1) /\ MaxLength \in Nat
  BY SizeType, Constants
<1>2. length \in 0..Size(c)
  BY <1>1 DEF Lengths
<1> QED
  BY <1>1, <1>2 DEF Extent

\* The bytes of a value that is shorter than its place, in a buffer with that place.
LEMMA Within ==
    ASSUME NEW w \in Nat, NEW l \in Nat, NEW s \in Nat, NEW z \in Nat, l <= s, w + s <= z,
           NEW a \in w..(w + l - 1)
    PROVE  a \in Int /\ w <= a /\ a < w + s /\ a \in 0..(z - 1)
  OBVIOUS

\* A fetch of row m + 1 into result y, which becomes x: column c is at at[c], in
\* period k[c], and writes the bytes E[c].
Fetches(y, x, at, k, row, E, n, m, new) ==
    /\ at \in [Cols -> Nat] /\ k \in [Cols -> Nat] /\ row \in [Cols -> Int]
    /\ E \in [Cols -> SUBSET Int] /\ n \in Nat /\ m \in Nat
    /\ m = Len(y.rows) /\ y.rows \in Seq([Cols -> Cell]) /\ y.rowCount = n /\ m < n
    /\ DOMAIN y.data = 0..(RowSize * n - 1)
    /\ \A r \in DOMAIN y.rows, c \in Cols : CellOK(y, r, c)
    /\ \A c \in Cols : k[c] \in 0..m /\ at[c] = At(c, k[c])
    /\ \A r \in DOMAIN y.rows, c \in Cols :
          y.rows[r][c].value # NULL => \E j \in 0..(k[c] - 1) : y.rows[r][c].value = At(c, j)
    /\ \A c \in Cols : row[c] = NULL => E[c] = {}
    /\ \A c \in Cols : row[c] # NULL =>
          /\ row[c] \in 0..Size(c)
          /\ \A a \in E[c] : at[c] <= a /\ a < at[c] + Size(c)
          /\ \A a \in at[c]..(at[c] + row[c] - 1) : a \in E[c]
    /\ new \in [Cols -> Cell]
    /\ \A c \in Cols : new[c].value = (IF row[c] = NULL THEN NULL ELSE at[c]) /\ new[c].length = row[c]
    /\ x.rows = Append(y.rows, new) /\ x.rowCount = n
    /\ DOMAIN x.data = DOMAIN y.data
    /\ \A a \in DOMAIN y.data :
          /\ (\A c \in Cols : a \notin E[c]) => x.data[a] = y.data[a]
          /\ \A c \in Cols : a \in E[c] => \E d \in Cols : a \in E[d] /\ x.data[a] = <<m + 1, d>>

\* A fetch that writes outside the cells of other rows keeps them, and its own
\* cells hold the new row.
LEMMA FetchedRow ==
    ASSUME NEW y, NEW x, NEW at, NEW k, NEW row, NEW E, NEW n, NEW m, NEW new,
           Fetches(y, x, at, k, row, E, n, m, new)
    PROVE  \A r \in DOMAIN x.rows, c \in Cols : CellOK(x, r, c)
<1> USE DEF Fetches
<1> SUFFICES ASSUME NEW r \in DOMAIN x.rows, NEW c \in Cols, x.rows[r][c].value # NULL
             PROVE  /\ x.rows[r][c].length \in 0..Size(c)
                    /\ \E j \in Nat : j < x.rowCount /\ x.rows[r][c].value = At(c, j)
                    /\ \A a \in x.rows[r][c].value..(x.rows[r][c].value + x.rows[r][c].length - 1) :
                          x.data[a] = <<r, c>>
  BY DEF CellOK
<1>1. \A d \in Cols : /\ k[d] \in Nat /\ k[d] <= m /\ at[d] \in Nat /\ Size(d) \in Nat
                      /\ at[d] = At(d, k[d]) /\ at[d] + Size(d) <= RowSize * n
  <2> SUFFICES ASSUME NEW d \in Cols
               PROVE  /\ k[d] \in Nat /\ k[d] <= m /\ at[d] \in Nat /\ Size(d) \in Nat
                      /\ at[d] = At(d, k[d]) /\ at[d] + Size(d) <= RowSize * n
    OBVIOUS
  <2>1. k[d] \in 0..m /\ at[d] = At(d, k[d])
    OBVIOUS
  <2>2. k[d] \in Nat /\ k[d] <= m /\ k[d] < n
    BY <2>1
  <2>3. At(d, k[d]) \in Nat /\ At(d, k[d]) + Size(d) <= RowSize * n
    BY <2>2, CellInside
  <2>4. Size(d) \in Nat
    BY Layout
  <2> QED
    BY <2>1, <2>2, <2>3, <2>4
<1>a. ASSUME NEW d \in Cols, NEW a \in E[d]
      PROVE  a \in Int /\ At(d, k[d]) <= a /\ a < At(d, k[d]) + Size(d)
  <2>1. E[d] \subseteq Int /\ row[d] # NULL
    OBVIOUS
  <2>2. at[d] <= a /\ a < at[d] + Size(d)
    BY <2>1
  <2> QED
    BY <2>1, <2>2, <1>1
<1>2. \A a, c1, d1 : c1 \in Cols /\ d1 \in Cols /\ a \in E[c1] /\ a \in E[d1] => c1 = d1
  <2> SUFFICES ASSUME NEW a, NEW c1 \in Cols, NEW d1 \in Cols, a \in E[c1], a \in E[d1] PROVE c1 = d1
    OBVIOUS
  <2>1. /\ a \in Int /\ At(c1, k[c1]) <= a /\ a < At(c1, k[c1]) + Size(c1)
        /\ At(d1, k[d1]) <= a /\ a < At(d1, k[d1]) + Size(d1)
    BY <1>a
  <2> QED
    BY <2>1, <1>1, CellsApart
<1>3. RowSize * n \in Nat
  BY Layout
<1>4. CASE r = m + 1
  <2>1. x.rows[r] = new
    BY <1>4
  <2>2. row[c] # NULL /\ x.rows[r][c].value = at[c] /\ x.rows[r][c].length = row[c]
    BY <2>1
  <2>3. row[c] \in 0..Size(c) /\ \A a \in at[c]..(at[c] + row[c] - 1) : a \in E[c]
    BY <2>2
  <2>4. ASSUME NEW a \in at[c]..(at[c] + row[c] - 1) PROVE x.data[a] = <<r, c>>
    <3>1. a \in E[c] /\ a \in DOMAIN y.data
      BY <2>3, <1>1, <1>3
    <3>2. PICK d \in Cols : a \in E[d] /\ x.data[a] = <<m + 1, d>>
      BY <3>1
    <3> QED
      BY <3>1, <3>2, <1>2, <1>4
  <2>5. k[c] < x.rowCount /\ k[c] \in Nat /\ at[c] = At(c, k[c])
    BY <1>1
  <2> QED
    BY <2>2, <2>3, <2>4, <2>5
<1>5. CASE r # m + 1
  <2>1. r \in DOMAIN y.rows /\ x.rows[r] = y.rows[r]
    BY <1>5
  <2>2. PICK v : v = y.rows[r][c]
    OBVIOUS
  <2>3. /\ v.length \in 0..Size(c)
        /\ \E j \in Nat : j < n /\ v.value = At(c, j)
        /\ \A a \in v.value..(v.value + v.length - 1) : y.data[a] = <<r, c>>
    BY <2>1, <2>2, SMTT(30) DEF CellOK
  <2>4. PICK j \in 0..(k[c] - 1) : v.value = At(c, j)
    BY <2>1, <2>2
  <2>5. j \in Nat /\ j < n /\ j # k[c]
    BY <2>4, <1>1
  <2>6. v.value \in Nat /\ v.value + Size(c) <= RowSize * n
    BY <2>4, <2>5, CellInside
  <2>7. ASSUME NEW a \in v.value..(v.value + v.length - 1) PROVE x.data[a] = <<r, c>>
    <3>a. PICK w \in Nat, l \in Nat : w = v.value /\ l = v.length /\ l <= Size(c)
      BY <2>3, <2>6, <1>1
    <3>d. a \in w..(w + l - 1) /\ w + Size(c) <= RowSize * n
      BY <3>a, <2>6
    <3>e. Size(c) \in Nat
      BY <1>1
    <3>b. a \in Int /\ w <= a /\ a < w + Size(c) /\ a \in 0..(RowSize * n - 1)
      BY <3>a, <3>d, <3>e, <1>3, Within, Zenon
    <3>1. a \in DOMAIN y.data /\ a \in Int /\ v.value <= a /\ a < v.value + Size(c)
      BY <3>a, <3>b
    <3>2. ASSUME NEW d \in Cols, a \in E[d] PROVE FALSE
      <4>1. At(d, k[d]) <= a /\ a < At(d, k[d]) + Size(d)
        BY <3>2, <1>a
      <4>2. d = c /\ k[d] = j
        BY <4>1, <3>1, <2>4, <2>5, <1>1, CellsApart
      <4> QED
        BY <4>2, <2>5
    <3>3. x.data[a] = y.data[a]
      BY <3>1, <3>2
    <3> QED
      BY <3>3, <2>3
  <2> QED
    BY <2>1, <2>2, <2>3, <2>7, SMTT(30)
<1> QED
  BY <1>4, <1>5

\* A step after which no result has other rows, and no fetch goes on elsewhere.
LEMMA RowsStay ==
    ASSUME Course, RowsOK,
           \A i \in Ids : Standing(res'[i]) =>
                /\ Standing(res[i]) /\ res'[i].rows = res[i].rows
                /\ res'[i].data = res[i].data /\ res'[i].rowCount = res[i].rowCount,
           \/ call'.at # "fetch"
           \/ call' = call /\ stmt' = stmt /\ res'[call.result] = res[call.result]
    PROVE  RowsOK'
<1>1. ASSUME NEW i \in Ids, Standing(res'[i])
      PROVE  /\ Len(res'[i].rows) <= res'[i].rowCount
             /\ DOMAIN res'[i].data = 0..(RowSize * res'[i].rowCount - 1)
             /\ \A r \in DOMAIN res'[i].rows, c \in Cols : CellOK(res'[i], r, c)
  <2>1. /\ Len(res[i].rows) <= res[i].rowCount
        /\ DOMAIN res[i].data = 0..(RowSize * res[i].rowCount - 1)
        /\ \A r \in DOMAIN res[i].rows, c \in Cols : CellOK(res[i], r, c)
    BY <1>1 DEF RowsOK
  <2>2. /\ res'[i].rows = res[i].rows
        /\ res'[i].data = res[i].data /\ res'[i].rowCount = res[i].rowCount
    BY <1>1
  <2>3. \A r \in DOMAIN res'[i].rows, c \in Cols : CellOK(res'[i], r, c)
    BY <2>1, <2>2 DEF CellOK
  <2> QED
    BY <2>1, <2>2, <2>3
<1>2. call'.at = "fetch" => \A c \in Cols : Position(res[call.result], c)'
  BY DEF RowsOK, Position, Stmt
<1> QED
  BY <1>1, <1>2 DEF RowsOK

\* A new result has no rows, and its columns are at the first period.
LEMMA RowsStored ==
    ASSUME Course, RowsOK, Store
    PROVE  RowsOK'
<1> USE CourseFacts, Constants
<1>1. PICK i \in Ids, n \in Nat : \E x :
              /\ i = NewId /\ res[i].state = "none" /\ Goes("fetch", i)
              /\ Puts(i, x) /\ Made(x, "making", "prepared", n, 0, TRUE, TRUE, TRUE, [a \in 0..(RowSize * n - 1) |-> <<>>])
              /\ stmt' = [stmt EXCEPT ![call.stmt] =
                    [@ EXCEPT !.done = TRUE, !.arrays = i, !.into = i, !.at = [c \in Cols |-> Offset[c]]]]
              /\ FreeWith(OldArrays, {Meta(i), RBind(i), Buffer(i), Arrays(i)})
  BY StoreMakes
<1>2. PICK x : Puts(i, x) /\ Made(x, "making", "prepared", n, 0, TRUE, TRUE, TRUE, [a \in 0..(RowSize * n - 1) |-> <<>>])
  BY <1>1
<1>3. res'[i] = x /\ \A j \in Ids : j # i => res'[j] = res[j]
  BY <1>2, PutResult DEF Made
<1>4. x.rows = <<>> /\ x.rowCount = n /\ DOMAIN x.data = 0..(RowSize * n - 1)
  BY <1>2 DEF Made
<1>5. call'.at = "fetch" /\ call'.result = i /\ call'.stmt = call.stmt
  BY <1>1 DEF Goes
<1>6. \A c \in Cols : stmt'[call.stmt].at[c] = Offset[c]
  <2>1. PICK at : at = [c \in Cols |-> Offset[c]]
    OBVIOUS
  <2>2. stmt' = [stmt EXCEPT ![call.stmt] = [@ EXCEPT !.done = TRUE, !.arrays = i, !.into = i, !.at = at]]
    BY <1>1, <2>1
  <2>3. stmt'[call.stmt].at = at
    BY <2>2 DEF RTypeOK, Statement
  <2> QED
    BY <2>1, <2>3
<1>7. ASSUME NEW c \in Cols PROVE Position(res[call.result], c)'
  <2>1. At(c, 0) = Offset[c]
    BY NextPeriod
  <2>2. DOMAIN x.rows = {} /\ Len(x.rows) = 0
    BY <1>4
  <2> QED
    BY <2>1, <2>2, <1>3, <1>5, <1>6 DEF Position, Stmt
<1>8. ASSUME NEW j \in Ids, Standing(res'[j])
      PROVE  /\ Len(res'[j].rows) <= res'[j].rowCount
             /\ DOMAIN res'[j].data = 0..(RowSize * res'[j].rowCount - 1)
             /\ \A r \in DOMAIN res'[j].rows, c \in Cols : CellOK(res'[j], r, c)
  <2>1. CASE j = i
    BY <2>1, <1>3, <1>4
  <2>2. CASE j # i
    BY <2>2, <1>8, <1>3 DEF RowsOK
  <2> QED
    BY <2>1, <2>2
<1> QED
  BY <1>7, <1>8 DEF RowsOK

\* A row that is not the last one was there before.
LEMMA AppendRows ==
    ASSUME NEW S, NEW rows \in Seq(S), NEW new \in S, NEW all, all = Append(rows, new),
           NEW m, m = Len(rows), NEW r \in DOMAIN all, r # m + 1
    PROVE  r \in DOMAIN rows /\ all[r] = rows[r]
  OBVIOUS

\* The loop adds a row to them.
LEMMA RowsFetched ==
    ASSUME Course, RowsOK, FetchRow
    PROVE  RowsOK'
<1> USE CourseFacts, Constants
<1>0. call.at = "fetch" /\ call' = call
  BY DEF FetchRow
<1>1. PICK i \in Ids, row \in [Cols -> UNION {Lengths(c) : c \in Cols}] : \E x :
              /\ i = call.result /\ Puts(i, x) /\ IsResult(x)
              /\ \A c \in Cols : row[c] \in Lengths(c)
              /\ x.rows = Append(res[i].rows, RowOf(row))
              /\ x.data = Written(res[i].data, Len(res[i].rows) + 1, row)
              /\ x.rowCount = res[i].rowCount
              /\ stmt' = [stmt EXCEPT ![call.stmt].at = Advance(row)]
              /\ Advance(row) \in [Cols -> Nat]
              /\ RowOf(row) \in [Cols -> Cell]
  BY FetchRowAdds, ZenonT(40)
<1>2. PICK x : /\ Puts(i, x) /\ IsResult(x)
               /\ x.rows = Append(res[i].rows, RowOf(row))
               /\ x.data = Written(res[i].data, Len(res[i].rows) + 1, row)
               /\ x.rowCount = res[i].rowCount
  BY <1>1
<1>3. res'[i] = x /\ \A j \in Ids : j # i => res'[j] = res[j]
  BY <1>2, PutResult
<1>4. PICK y : y = res[i] /\ IsResult(y)
  OBVIOUS
<1>5. PICK at \in [Cols -> Nat] : at = Stmt.at
  BY DEF Stmt, Statement
<1>6. PICK new \in [Cols -> Cell] : new = RowOf(row)
  BY <1>1
<1>7. PICK n \in Nat, m \in Nat : n = y.rowCount /\ m = Len(y.rows) /\ m < n
  <2>1. Len(res[i].rows) < res[i].rowCount
    BY <1>1 DEF FetchRow
  <2>2. y.rowCount \in Nat /\ Len(y.rows) \in Nat
    BY <1>4 DEF IsResult
  <2> QED
    BY <2>1, <2>2, <1>4
<1>8. Standing(y) /\ DOMAIN y.data = 0..(RowSize * n - 1) /\ \A r \in DOMAIN y.rows, c \in Cols : CellOK(y, r, c)
  BY <1>0, <1>1, <1>4, <1>7 DEF CallOK, RowsOK
<1>9. \A c \in Cols : \E kk \in 0..m :
        /\ at[c] = At(c, kk)
        /\ \A r \in DOMAIN y.rows : y.rows[r][c].value # NULL =>
              \E j \in 0..(kk - 1) : y.rows[r][c].value = At(c, j)
  <2>1. \A c \in Cols : Position(y, c)
    BY <1>0, <1>1, <1>4 DEF RowsOK
  <2> QED
    BY <2>1, <1>5, <1>7 DEF Position
<1> DEFINE Fits(c, kk) == /\ at[c] = At(c, kk)
                          /\ \A r \in DOMAIN y.rows : y.rows[r][c].value # NULL =>
                                 \E j \in 0..(kk - 1) : y.rows[r][c].value = At(c, j)
           kOf(c) == CHOOSE kk \in 0..m : Fits(c, kk)
<1>10. \A c \in Cols : kOf(c) \in 0..m /\ Fits(c, kOf(c))
  <2>1. \A c \in Cols : \E kk \in 0..m : Fits(c, kk)
    BY <1>9
  <2> HIDE DEF Fits
  <2> QED
    BY <2>1
<1>11. PICK k \in [Cols -> Nat] : \A c \in Cols : k[c] \in 0..m /\ Fits(c, k[c])
  <2> HIDE DEF Fits, kOf
  <2> DEFINE f == [c \in Cols |-> kOf(c)]
  <2>1. \A c \in Cols : kOf(c) \in Nat
    BY <1>10
  <2>2. f \in [Cols -> Nat] /\ \A c \in Cols : f[c] = kOf(c)
    BY <2>1
  <2> QED
    BY <2>2, <1>10
<1>12. k \in [Cols -> Nat]
  BY <1>11
<1> HIDE DEF kOf
<1>13. PICK E : E = [c \in Cols |-> Extent(c, row[c])]
  OBVIOUS
<1>14. \A c \in Cols : /\ E[c] \subseteq Int /\ (row[c] = NULL => E[c] = {})
                       /\ row[c] # NULL =>
                            /\ row[c] \in 0..Size(c)
                            /\ \A a \in E[c] : at[c] <= a /\ a < at[c] + Size(c)
                            /\ \A a \in at[c]..(at[c] + row[c] - 1) : a \in E[c]
  <2> TAKE c \in Cols
  <2>1. E[c] = Extent(c, row[c]) /\ row[c] \in Lengths(c) /\ Stmt.at[c] \in Nat /\ at[c] = Stmt.at[c]
    BY <1>1, <1>5, <1>13
  <2>2. CASE row[c] = NULL
    BY <2>1, <2>2 DEF Extent
  <2>3. CASE row[c] # NULL
    <3>1. PICK l : l = row[c]
      OBVIOUS
    <3>2. /\ l \in 0..Size(c)
          /\ \A a \in Extent(c, l) : a \in Int /\ Stmt.at[c] <= a /\ a < Stmt.at[c] + Size(c)
          /\ \A a \in Stmt.at[c]..(Stmt.at[c] + l - 1) : a \in Extent(c, l)
      BY <2>1, <2>3, <3>1, ExtentFits
    <3> QED
      BY <3>1, <3>2, <2>1, <2>3
  <2> QED
    BY <2>2, <2>3
<1>15. E \in [Cols -> SUBSET Int]
  <2>1. \A c \in Cols : E[c] \in SUBSET Int
    BY <1>14
  <2>2. E = [c \in Cols |-> E[c]]
    BY <1>13
  <2> QED
    BY <2>1, <2>2
<1>16. \A c \in Cols : new[c].value = (IF row[c] = NULL THEN NULL ELSE at[c]) /\ new[c].length = row[c]
  BY <1>5, <1>6 DEF RowOf
<1>17. /\ DOMAIN x.data = DOMAIN y.data
       /\ \A a \in DOMAIN y.data :
                /\ (\A c \in Cols : a \notin E[c]) => x.data[a] = y.data[a]
                /\ \A c \in Cols : a \in E[c] => \E d \in Cols : a \in E[d] /\ x.data[a] = <<m + 1, d>>
  <2>1. x.data = Written(y.data, m + 1, row)
    BY <1>2, <1>4, <1>7
  <2>2. DOMAIN x.data = DOMAIN y.data
    BY <2>1 DEF Written
  <2>3. ASSUME NEW a \in DOMAIN y.data
        PROVE  /\ (\A c \in Cols : a \notin E[c]) => x.data[a] = y.data[a]
               /\ \A c \in Cols : a \in E[c] => \E d \in Cols : a \in E[d] /\ x.data[a] = <<m + 1, d>>
    <3>1. PICK hit : hit = {c \in Cols : a \in E[c]}
      OBVIOUS
    <3>2. hit = {c \in Cols : a \in Extent(c, row[c])}
      BY <3>1, <1>13
    <3>3. x.data[a] = IF hit = {} THEN y.data[a] ELSE <<m + 1, CHOOSE c \in hit : TRUE>>
      BY <2>1, <3>2 DEF Written
    <3>4. hit # {} => (CHOOSE c \in hit : TRUE) \in hit
      BY Zenon
    <3> QED
      BY <3>1, <3>3, <3>4
  <2> QED
    BY <2>2, <2>3
<1>18. row \in [Cols -> Int]
  <2>1. \A c \in Cols : row[c] \in Int
    BY <1>1, RowType, Zenon
  <2> QED
    BY <2>1
<1>19. x.rows = Append(y.rows, new) /\ x.rowCount = n /\ y.rows \in Seq([Cols -> Cell])
  BY <1>2, <1>4, <1>6, <1>7 DEF IsResult
<1>20. \A r \in DOMAIN x.rows, c \in Cols : CellOK(x, r, c)
  <2>1. /\ \A c \in Cols : k[c] \in 0..m /\ at[c] = At(c, k[c])
        /\ \A r \in DOMAIN y.rows, c \in Cols :
                y.rows[r][c].value # NULL => \E j \in 0..(k[c] - 1) : y.rows[r][c].value = At(c, j)
    BY <1>11, Zenon
  <2> HIDE DEF Fits
  <2>2. m = Len(y.rows) /\ y.rowCount = n /\ m < n
    BY <1>7
  <2>3. /\ \A c \in Cols : row[c] = NULL => E[c] = {}
        /\ \A c \in Cols : row[c] # NULL =>
                /\ row[c] \in 0..Size(c)
                /\ \A a \in E[c] : at[c] <= a /\ a < at[c] + Size(c)
                /\ \A a \in at[c]..(at[c] + row[c] - 1) : a \in E[c]
    BY <1>14, Zenon
  <2>4. Fetches(y, x, at, k, row, E, n, m, new)
    BY <1>8, <1>12, <1>15, <1>16, <1>17, <1>18, <1>19, <2>1, <2>2, <2>3, Zenon DEF Fetches
  <2> QED
    BY <2>4, FetchedRow, Zenon
<1>21. \A r \in DOMAIN x.rows : r # m + 1 => r \in DOMAIN y.rows /\ x.rows[r] = y.rows[r]
  <2>1. PICK S, old, all : S = [Cols -> Cell] /\ old = y.rows /\ all = x.rows
    OBVIOUS
  <2>2. old \in Seq(S) /\ new \in S /\ all = Append(old, new) /\ m = Len(old)
    BY <2>1, <1>6, <1>7, <1>19, Zenon
  <2>3. \A r \in DOMAIN all : r # m + 1 => r \in DOMAIN old /\ all[r] = old[r]
    BY <2>2, AppendRows
  <2> QED
    BY <2>1, <2>3, Zenon
<1>22. ASSUME NEW c \in Cols PROVE Position(res[call.result], c)'
  <2>a. k[c] \in Nat /\ k[c] <= m
    BY <1>11
  <2>1. PICK kc \in Nat : kc = k[c] /\ kc <= m /\ Fits(c, kc)
    BY <1>11, <2>a, Zenon
  <2>2. PICK nk \in Nat : nk = IF row[c] = NULL THEN kc ELSE kc + 1
    BY <2>1
  <2>3. stmt'[call.stmt].at[c] = IF row[c] = NULL THEN at[c] ELSE at[c] + RowSize
    <3>1. PICK adv : adv = Advance(row)
      OBVIOUS
    <3>2. stmt'[call.stmt].at = adv
      BY <1>1, <3>1 DEF RTypeOK, Statement
    <3> QED
      BY <3>1, <3>2, <1>5 DEF Advance
  <2>4. stmt'[call.stmt].at[c] = At(c, nk)
    BY <2>1, <2>2, <2>3, NextPeriod
  <2>5. Len(x.rows) = m + 1 /\ nk \in 0..(m + 1)
    <3>1. Len(x.rows) = m + 1
      BY <1>7, <1>19
    <3>2. nk \in 0..(m + 1)
      BY <2>1, <2>2
    <3> QED
      BY <3>1, <3>2
  <2>6. ASSUME NEW r \in DOMAIN x.rows, x.rows[r][c].value # NULL
        PROVE  \E j \in 0..(nk - 1) : x.rows[r][c].value = At(c, j)
    <3>1. CASE r = m + 1
      <4>1. x.rows[r] = new
        BY <3>1, <1>7, <1>19, SMTT(30)
      <4>2. row[c] # NULL /\ x.rows[r][c].value = At(c, kc)
        BY <4>1, <2>6, <1>16, <2>1
      <4>3. kc \in 0..(nk - 1)
        BY <4>2, <2>2
      <4> QED
        BY <4>2, <4>3
    <3>2. CASE r # m + 1
      <4>1. r \in DOMAIN y.rows /\ x.rows[r] = y.rows[r]
        BY <3>2, <1>21
      <4>2. PICK j \in 0..(kc - 1) : y.rows[r][c].value = At(c, j)
        BY <4>1, <2>6, <2>1
      <4>3. j \in 0..(nk - 1)
        BY <2>2
      <4> QED
        BY <4>1, <4>2, <4>3
    <3> QED
      BY <3>1, <3>2
  <2> HIDE DEF Fits
  <2>7. res'[call'.result] = x /\ Stmt' = stmt'[call.stmt]
    BY <1>0, <1>1, <1>3 DEF Stmt
  <2>8. \E kk \in 0..Len(x.rows) :
           /\ Stmt'.at[c] = At(c, kk)
           /\ \A r \in DOMAIN x.rows : x.rows[r][c].value # NULL =>
                 \E j \in 0..(kk - 1) : x.rows[r][c].value = At(c, j)
    BY <2>4, <2>5, <2>6, <2>7
  <2> QED
    BY <2>7, <2>8 DEF Position
<1>23. ASSUME NEW j \in Ids, Standing(res'[j])
      PROVE  /\ Len(res'[j].rows) <= res'[j].rowCount
             /\ DOMAIN res'[j].data = 0..(RowSize * res'[j].rowCount - 1)
             /\ \A r \in DOMAIN res'[j].rows, c \in Cols : CellOK(res'[j], r, c)
  <2>1. CASE j = i
    <3>1. Len(x.rows) = m + 1 /\ m + 1 <= n
      BY <1>7, <1>19
    <3> QED
      BY <2>1, <3>1, <1>3, <1>8, <1>17, <1>19, <1>20
  <2>2. CASE j # i
    BY <2>2, <1>23, <1>3 DEF RowsOK
  <2> QED
    BY <2>1, <2>2
<1> QED
  BY <1>22, <1>23 DEF RowsOK

\* Every step keeps the rows.
LEMMA RowsKept ==
    ASSUME Course, RowsOK, Step
    PROVE  RowsOK'
<1> USE CourseFacts, Constants
<1>1. ASSUME \/ \E s \in Stmts : \E params \in ParamLists(s) : Call(s, params)
             \/ Execute \/ ExecuteFails \/ LoseAndRetry \/ FetchEnds \/ Close
      PROVE  RowsOK'
  <2>1. res' = res
    BY <1>1 DEF Call, Execute, ExecuteFails, LoseAndRetry, FetchEnds, Close
  <2>2. call'.at # "fetch"
    <3>1. ASSUME NEW s \in Stmts, NEW params \in ParamLists(s), Call(s, params) PROVE call'.at # "fetch"
      BY <3>1 DEF Call, Idle
    <3>2. CASE Execute \/ FetchEnds
      BY <3>2 DEF Execute, FetchEnds, ACall
    <3>3. CASE ExecuteFails \/ LoseAndRetry \/ Close
      BY <3>3 DEF ExecuteFails, LoseAndRetry, Close, CallEnds, Idle
    <3> QED
      BY <1>1, <3>1, <3>2, <3>3
  <2> QED
    BY <2>1, <2>2, RowsStay
<1>2. ASSUME NEW i \in Ids, FetchNothing(i) \/ FetchAndGet(i) PROVE RowsOK'
  <2>1. UNCHANGED <<res, call, stmt>>
    BY <1>2 DEF FetchNothing, FetchAndGet
  <2> QED
    BY <2>1, RowsStay
<1>3. ASSUME NoMetadata \/ StoreFails \/ BindFails PROVE RowsOK'
  <2>1. PICK i \in Ids : \E x : Goes("done", i) /\ Puts(i, x) /\ IsResult(x) /\ (x.intact => x.kind # "prepared")
    <3>1. CASE NoMetadata
      BY <3>1, NoMetadataMakes DEF Made
    <3>2. CASE StoreFails
      BY <3>2, StoreFailsMakes DEF Made
    <3>3. CASE BindFails
      BY <3>3, BindFailsMakes DEF Made
    <3> QED
      BY <1>3, <3>1, <3>2, <3>3
  <2>2. PICK x : Puts(i, x) /\ IsResult(x) /\ (x.intact => x.kind # "prepared")
    BY <2>1
  <2>3. res'[i] = x /\ \A j \in Ids : j # i => res'[j] = res[j]
    BY <2>2, PutResult
  <2>4. call'.at # "fetch"
    BY <2>1 DEF Goes
  <2>5. ~Standing(res'[i])
    BY <2>2, <2>3 DEF Standing
  <2> QED
    BY <2>3, <2>4, <2>5, RowsStay
<1>4. ASSUME Return PROVE RowsOK'
  <2>1. call'.at # "fetch" /\ call.at = "done"
    BY <1>4 DEF Return, Idle
  <2>2. CASE call.result = NoResult
    <3>1. res' = res
      BY <1>4, <2>2 DEF Return
    <3> QED
      BY <3>1, <2>1, RowsStay
  <2>3. CASE call.result \in Ids
    <3>1. PICK i \in Ids : \E x : i = call.result /\ Puts(i, x) /\ IsResult(x) /\ Same(x, res[i])
      BY <1>4, <2>3, ReturnGives
    <3>2. PICK x : Puts(i, x) /\ IsResult(x) /\ Same(x, res[i])
      BY <3>1
    <3>3. res'[i] = x /\ \A j \in Ids : j # i => res'[j] = res[j]
      BY <3>2, PutResult
    <3>4. res[i].state = "making"
      BY <3>1, <2>1 DEF ResultOK
    <3>5. Standing(x) => Standing(res[i])
      BY <3>2, <3>4 DEF Standing, Kept, Same
    <3> QED
      BY <3>2, <3>3, <3>5, <2>1, RowsStay DEF Same
  <2> QED
    BY <2>2, <2>3 DEF ACall
<1>5. ASSUME TextQuery PROVE RowsOK'
  <2>1. PICK i \in Ids : \E x : Puts(i, x) /\ IsResult(x) /\ x.kind = "text"
    BY <1>5, TextQueryMakes DEF Made
  <2>2. PICK x : Puts(i, x) /\ IsResult(x) /\ x.kind = "text"
    BY <2>1
  <2>3. res'[i] = x /\ \A j \in Ids : j # i => res'[j] = res[j]
    BY <2>2, PutResult
  <2>4. call'.at # "fetch" /\ ~Standing(res'[i])
    BY <1>5, <2>2, <2>3 DEF TextQuery, Standing
  <2> QED
    BY <2>3, <2>4, RowsStay
<1>6. ASSUME NEW i \in Ids, NextRow(i) \/ DeleteResult(i) PROVE RowsOK'
  <2>1. UNCHANGED <<call, stmt>> /\ Kept(res[i]) /\ res[i].state # "making"
    BY <1>6 DEF NextRow, DeleteResult, Kept
  <2>2. PICK x : Puts(i, x) /\ IsResult(x) /\ (Same(x, res[i]) \/ ~Standing(x))
    <3>1. CASE NextRow(i)
      BY <3>1, NextRowMoves
    <3>2. CASE DeleteResult(i)
      BY <3>2, DeleteResultEnds DEF Standing, Kept
    <3> QED
      BY <1>6, <3>1, <3>2
  <2>3. res'[i] = x /\ \A j \in Ids : j # i => res'[j] = res[j]
    BY <2>2, PutResult
  <2>4. Standing(x) => Standing(res[i]) /\ Same(x, res[i])
    BY <2>1, <2>2 DEF Standing, Same
  <2>5. call.at = "fetch" => call.result \in Ids /\ call.result # i
    BY <2>1 DEF CallOK, ResultOK
  <2>6. call'.at # "fetch" \/ (call' = call /\ stmt' = stmt /\ res'[call.result] = res[call.result])
    BY <2>1, <2>3, <2>5
  <2> QED
    BY <2>3, <2>4, <2>6, RowsStay DEF Same
<1> QED
  BY <1>1, <1>2, <1>3, <1>4, <1>5, <1>6, RowsStored, RowsFetched DEF Step

-----------------------------------------------------------------------------
(***************************************************************************)
(* Memory.                                                                 *)
(***************************************************************************)

\* Blocks are told apart by what they are and whose they are.
LEMMA BlocksDiffer ==
    ASSUME NEW i, NEW j
    PROVE  /\ {Meta(i), RBind(i), Buffer(i), Text(i)} \cap {Arrays(j)} = {}
           /\ Meta(i) \notin {RBind(j), Buffer(j), Text(j)}
           /\ RBind(i) \notin {Buffer(j), Text(j)} /\ Buffer(i) # Text(j)
           /\ Meta(i) = Meta(j) => i = j
           /\ RBind(i) = RBind(j) => i = j
           /\ Buffer(i) = Buffer(j) => i = j
           /\ Text(i) = Text(j) => i = j
           /\ Arrays(i) = Arrays(j) => i = j
  BY DEF Meta, RBind, Buffer, Text, Arrays

\* The blocks of result i, other than the arrays of a binding.
OwnBlocks(i) == {Meta(i), RBind(i), Buffer(i), Text(i)}

\* A step that changes no more than the blocks of result i and arrays.
Moves(i, more, gone) ==
    /\ live' = (live \cup more) \ gone
    /\ \A j \in Ids : j # i => res'[j] = res[j] /\ OwnBlocks(j) \cap (more \cup gone) = {}
    /\ i \in Ids => ReadersNeed(i)'
    /\ broken' = 0 => /\ broken = 0 /\ ~fault' /\ more \subseteq AllBlocks
                      /\ i \in Ids => OwnExact(i)'
                      /\ \A j \in Ids : ArraysExact(j)'

\* Such a step keeps the blocks.
LEMMA BlocksStep ==
    ASSUME Course, BlocksOK, NEW i, NEW more, NEW gone, Moves(i, more, gone)
    PROVE  BlocksOK'
<1>1. ASSUME NEW j \in Ids PROVE ReadersNeed(j)'
  <2>1. CASE j # i
    BY <2>1 DEF Moves, BlocksOK, ReadersNeed, OwnBlocks
  <2> QED
    BY <2>1 DEF Moves
<1>2. ASSUME NEW j \in Ids, broken' = 0 PROVE OwnExact(j)'
  <2>1. CASE j # i
    BY <1>2, <2>1 DEF Moves, BlocksOK, OwnExact, OwnBlocks
  <2> QED
    BY <1>2, <2>1 DEF Moves
<1>3. broken' = 0 => live' \subseteq AllBlocks
  BY DEF Moves, BlocksOK
<1> QED
  BY <1>1, <1>2, <1>3 DEF Moves, BlocksOK

\* The arrays when no binding changes.
LEMMA ArraysStay ==
    ASSUME Course, BlocksOK, broken = 0, NEW more, NEW gone,
           live' = (live \cup more) \ gone,
           \A j \in Ids : Arrays(j) \notin more \cup gone,
           \A t \in Stmts : (stmt'[t].done <=> stmt[t].done) /\ (stmt[t].done => stmt'[t].arrays = stmt[t].arrays)
    PROVE  \A j \in Ids : ArraysExact(j)'
  BY DEF BlocksOK, ArraysExact

\* The arrays when the binding of statement s is replaced or deleted.
LEMMA ArraysChange ==
    ASSUME Course, BlocksOK, broken = 0, NEW s \in Stmts, NEW more, NEW gone,
           live' = (live \cup more) \ gone,
           \A j \in Ids : /\ Arrays(j) \in gone <=> stmt[s].done /\ stmt[s].arrays = j
                          /\ Arrays(j) \in more <=> stmt'[s].done /\ stmt'[s].arrays = j,
           stmt'[s].done => res[stmt'[s].arrays].state = "none",
           \A t \in Stmts : t # s =>
                (stmt'[t].done <=> stmt[t].done) /\ (stmt[t].done => stmt'[t].arrays = stmt[t].arrays)
    PROVE  \A j \in Ids : ArraysExact(j)'
<1> SUFFICES ASSUME NEW j \in Ids PROVE ArraysExact(j)'
  OBVIOUS
<1>0. BindingsOK
  BY CourseFacts
<1>1. Arrays(j) \in live <=> \E t \in Stmts : stmt[t].done /\ stmt[t].arrays = j
  BY DEF BlocksOK, ArraysExact
<1>2. \A t, u \in Stmts : stmt[t].done /\ stmt[u].done /\ stmt[t].arrays = stmt[u].arrays => t = u
  BY <1>0 DEF BindingsOK, Stmts
<1>3. stmt'[s].done => ~\E t \in Stmts : stmt[t].done /\ stmt[t].arrays = stmt'[s].arrays
  BY <1>0 DEF BindingsOK
<1>4. Arrays(j) \in live' <=> (Arrays(j) \in live \/ Arrays(j) \in more) /\ Arrays(j) \notin gone
  OBVIOUS
<1>5. ASSUME Arrays(j) \in live' PROVE \E t \in Stmts : stmt'[t].done /\ stmt'[t].arrays = j
  <2>1. CASE Arrays(j) \in more
    BY <2>1
  <2>2. CASE Arrays(j) \in live
    BY <2>2, <1>1, <1>4, <1>5
  <2> QED
    BY <2>1, <2>2, <1>4, <1>5
<1>6. ASSUME NEW t \in Stmts, stmt'[t].done, stmt'[t].arrays = j PROVE Arrays(j) \in live'
  <2>1. CASE t = s
    BY <2>1, <1>3, <1>4, <1>6
  <2>2. CASE t # s
    BY <2>2, <1>1, <1>2, <1>4, <1>6
  <2> QED
    BY <2>1, <2>2
<1> QED
  BY <1>5, <1>6 DEF ArraysExact

\* The blocks of two results, and the arrays of a binding, are different blocks.
LEMMA OwnApart ==
    ASSUME NEW i, NEW j
    PROVE  /\ i # j => OwnBlocks(i) \cap OwnBlocks(j) = {}
           /\ Arrays(j) \notin OwnBlocks(i)
<1>1. ASSUME i # j PROVE OwnBlocks(i) \cap OwnBlocks(j) = {}
  <2>1. ASSUME NEW b \in OwnBlocks(i), b \in OwnBlocks(j) PROVE FALSE
    BY <1>1, <2>1 DEF OwnBlocks, Meta, RBind, Buffer, Text
  <2> QED
    BY <2>1
<1>2. Arrays(j) \notin OwnBlocks(i)
  BY DEF OwnBlocks, Meta, RBind, Buffer, Text, Arrays
<1> QED
  BY <1>1, <1>2

\* What ~MySQLPreparedStatement deletes: arrays, which are allocated.
LEMMA DestroyedArrays ==
    ASSUME Course, BlocksOK, NEW s \in Stmts
    PROVE  /\ \A j : OwnBlocks(j) \cap Destroyed(s) = {}
           /\ \A j : Arrays(j) \in Destroyed(s) <=> stmt[s].done /\ stmt[s].arrays = j
           /\ broken = 0 => Destroyed(s) \subseteq live
<1>1. \A j : OwnBlocks(j) \cap Destroyed(s) = {}
  <2> TAKE j
  <2>1. PICK k : k = stmt[s].arrays
    OBVIOUS
  <2>2. Arrays(k) \notin OwnBlocks(j)
    BY OwnApart
  <2> QED
    BY <2>1, <2>2 DEF Destroyed
<1>2. \A j : Arrays(j) \in Destroyed(s) <=> stmt[s].done /\ stmt[s].arrays = j
  <2> TAKE j
  <2>1. PICK k : k = stmt[s].arrays
    OBVIOUS
  <2>2. Arrays(j) = Arrays(k) <=> j = k
    BY DEF Arrays
  <2> QED
    BY <2>1, <2>2 DEF Destroyed
<1>3. broken = 0 => Destroyed(s) \subseteq live
  BY CourseFacts DEF BlocksOK, ArraysExact, Destroyed, BindingsOK
<1> QED
  BY <1>1, <1>2, <1>3

\* What CleanUp frees: the blocks of the result, which are allocated.
LEMMA CleanUpBlocks ==
    ASSUME BlocksOK, NEW i \in Ids, NEW blocks, blocks = CleanUp(res[i], i)
    PROVE  /\ blocks \subseteq OwnBlocks(i)
           /\ \A j : Arrays(j) \notin blocks
           /\ \A j : j # i => OwnBlocks(j) \cap blocks = {}
           /\ broken = 0 /\ Kept(res[i]) => blocks \subseteq live /\ OwnBlocks(i) \cap (live \ blocks) = {}
<1>1. blocks \subseteq OwnBlocks(i)
  BY DEF CleanUp, OwnBlocks
<1>2. \A j : Arrays(j) \notin blocks
  BY <1>1, OwnApart
<1>3. \A j : j # i => OwnBlocks(j) \cap blocks = {}
  BY <1>1, OwnApart
<1>4. ASSUME broken = 0, Kept(res[i])
      PROVE  blocks \subseteq live /\ OwnBlocks(i) \cap (live \ blocks) = {}
  <2>1. OwnExact(i)
    BY <1>4 DEF BlocksOK
  <2>2. CASE res[i].kind = "text"
    <3>1. blocks = IF res[i].meta THEN {Text(i)} ELSE {}
      BY <2>2 DEF CleanUp
    <3> QED
      BY <2>1, <2>2, <3>1, <1>4 DEF OwnExact, OwnBlocks
  <2>3. CASE res[i].kind # "text"
    <3>1. blocks = (IF res[i].meta THEN {Meta(i)} ELSE {}) \cup (IF res[i].rBind THEN {RBind(i), Buffer(i)} ELSE {})
      BY <2>3 DEF CleanUp
    <3> QED
      BY <2>1, <2>3, <3>1, <1>4 DEF OwnExact, OwnBlocks
  <2> QED
    BY <2>2, <2>3
<1> QED
  BY <1>1, <1>2, <1>3, <1>4

\* Nothing is allocated or freed.
LEMMA BlocksStay ==
    ASSUME Course, BlocksOK, UNCHANGED <<live, fault, broken, res>>,
           \A t \in Stmts : (stmt'[t].done <=> stmt[t].done) /\ (stmt[t].done => stmt'[t].arrays = stmt[t].arrays)
    PROVE  BlocksOK'
<1>1. broken = 0 => \A j \in Ids : ArraysExact(j)'
  BY DEF BlocksOK, ArraysExact
<1>2. \A j \in Ids : (OwnExact(j) => OwnExact(j)') /\ (ReadersNeed(j) => ReadersNeed(j)')
  BY DEF OwnExact, ReadersNeed
<1> QED
  BY <1>1, <1>2 DEF BlocksOK

\* A statement is deleted with the arrays of its last binding.
LEMMA BlocksDestroyed ==
    ASSUME Course, BlocksOK, UNCHANGED <<broken, res>>, NEW s \in Stmts,
           Free(Destroyed(s)), ~stmt'[s].done,
           \A t \in Stmts : t # s =>
                (stmt'[t].done <=> stmt[t].done) /\ (stmt[t].done => stmt'[t].arrays = stmt[t].arrays)
    PROVE  BlocksOK'
<1>1. PICK gone : gone = Destroyed(s)
  OBVIOUS
<1>2. PICK more : more = {}
  OBVIOUS
<1>3. live' = (live \cup more) \ gone /\ fault' = (fault \/ ~(gone \subseteq live))
  BY <1>1, <1>2 DEF Free, FreeWith
<1>4. /\ \A j : OwnBlocks(j) \cap gone = {}
      /\ \A j : Arrays(j) \in gone <=> stmt[s].done /\ stmt[s].arrays = j
      /\ broken = 0 => gone \subseteq live
  BY <1>1, DestroyedArrays
<1>5. ASSUME broken = 0 PROVE \A j \in Ids : ArraysExact(j)'
  BY <1>2, <1>3, <1>4, <1>5, ArraysChange
<1>6. broken = 0 => ~fault'
  BY <1>3, <1>4 DEF BlocksOK
<1>7. PICK i : i = NoResult
  OBVIOUS
<1>8. i \notin Ids /\ broken' = broken /\ more \subseteq AllBlocks
  BY <1>2, <1>7, Constants
<1>9. \A j \in Ids : j # i => res'[j] = res[j] /\ OwnBlocks(j) \cap (more \cup gone) = {}
  BY <1>2, <1>4
<1>10. /\ i \in Ids => ReadersNeed(i)'
       /\ broken' = 0 => /\ broken = 0 /\ ~fault' /\ more \subseteq AllBlocks
                         /\ i \in Ids => OwnExact(i)'
                         /\ \A j \in Ids : ArraysExact(j)'
  BY <1>5, <1>6, <1>8
<1>11. Moves(i, more, gone)
  BY <1>3, <1>9, <1>10 DEF Moves
<1> QED
  BY <1>11, BlocksStep

\* The result of a statement that was no SELECT, and that of a text query.
LEMMA BlocksMade ==
    ASSUME Course, BlocksOK, NoMetadata \/ TextQuery
    PROVE  BlocksOK'
<1>0. UNCHANGED <<stmt, fault, broken>>
  BY DEF NoMetadata, TextQuery
<1>1. CASE NoMetadata
  <2>1. PICK i \in Ids, n \in Nat : \E x :
              /\ res[i].state = "none"
              /\ Puts(i, x) /\ Made(x, "making", "affected", n, 0, TRUE, FALSE, FALSE, <<>>)
    BY <1>1, NoMetadataMakes
  <2>2. PICK x : Puts(i, x) /\ Made(x, "making", "affected", n, 0, TRUE, FALSE, FALSE, <<>>)
    BY <2>1
  <2>3. res'[i] = x /\ \A j \in Ids : j # i => res'[j] = res[j]
    BY <2>2, PutResult, CourseFacts DEF Made
  <2>4. PICK more, gone : more = {} /\ gone = {}
    OBVIOUS
  <2>5. live' = (live \cup more) \ gone
    BY <1>1, <2>4 DEF NoMetadata
  <2>6. ASSUME broken = 0 PROVE OwnExact(i)'
    <3>1. OwnExact(i) /\ res[i].state = "none" /\ live' = live
      BY <1>1, <2>1, <2>6 DEF BlocksOK, NoMetadata
    <3> QED
      BY <3>1, <2>2, <2>3 DEF OwnExact, Kept, Made
  <2>7. ASSUME broken = 0 PROVE \A j \in Ids : ArraysExact(j)'
    BY <2>4, <2>5, <2>7, <1>0, ArraysStay
  <2>8. ReadersNeed(i)'
    BY <2>2, <2>3 DEF ReadersNeed, Standing, Made
  <2>9. broken = 0 => ~fault
    BY DEF BlocksOK
  <2>10. Moves(i, more, gone)
    BY <1>0, <2>3, <2>4, <2>5, <2>6, <2>7, <2>8, <2>9 DEF Moves
  <2> QED
    BY <2>10, BlocksStep
<1>2. CASE TextQuery
  <2>1. PICK i \in Ids, n \in Nat : \E x :
              /\ res[i].state = "none" /\ live' = live \cup {Text(i)}
              /\ Puts(i, x) /\ Made(x, "held", "text", n, 1, TRUE, FALSE, TRUE, <<>>)
    BY <1>2, TextQueryMakes
  <2>2. PICK x : Puts(i, x) /\ Made(x, "held", "text", n, 1, TRUE, FALSE, TRUE, <<>>)
    BY <2>1
  <2>3. res'[i] = x /\ \A j \in Ids : j # i => res'[j] = res[j]
    BY <2>2, PutResult, CourseFacts DEF Made
  <2>4. PICK more : more = {Text(i)}
    OBVIOUS
  <2>a. PICK gone : gone = {}
    OBVIOUS
  <2>5. live' = (live \cup more) \ gone
    BY <2>1, <2>4, <2>a
  <2>b. more \subseteq OwnBlocks(i) /\ \A j : Arrays(j) \notin more
    BY <2>4, BlocksDiffer DEF OwnBlocks
  <2>c. \A j \in Ids : j # i => OwnBlocks(j) \cap (more \cup gone) = {}
    BY <2>a, <2>b, OwnApart
  <2>6. ASSUME broken = 0 PROVE OwnExact(i)'
    <3>1. OwnExact(i) /\ res[i].state = "none"
      BY <2>1, <2>6 DEF BlocksOK
    <3>2. {Meta(i), RBind(i), Buffer(i)} \cap live' = {} /\ Text(i) \in live'
      BY <3>1, <2>4, <2>5, <2>a, BlocksDiffer DEF OwnExact, Kept
    <3> QED
      BY <3>2, <2>2, <2>3 DEF OwnExact, Kept, Made
  <2>7. ASSUME broken = 0 PROVE \A j \in Ids : ArraysExact(j)'
    BY <2>a, <2>b, <2>5, <2>7, <1>0, ArraysStay
  <2>8. ReadersNeed(i)'
    BY <2>1, <2>2, <2>3 DEF ReadersNeed, Standing, Made
  <2>9. (broken = 0 => ~fault) /\ more \subseteq AllBlocks
    BY <2>4 DEF BlocksOK, AllBlocks, Text
  <2>10. Moves(i, more, gone)
    BY <1>0, <2>3, <2>5, <2>6, <2>7, <2>8, <2>9, <2>c DEF Moves
  <2> QED
    BY <2>10, BlocksStep
<1> QED
  BY <1>1, <1>2

\* The constructor replaces the arrays of the last binding by its own.
LEMMA BlocksStored ==
    ASSUME Course, BlocksOK, Store
    PROVE  BlocksOK'
<1>1. PICK i \in Ids, n \in Nat : \E x :
              /\ res[i].state = "none"
              /\ Puts(i, x) /\ Made(x, "making", "prepared", n, 0, TRUE, TRUE, TRUE, [a \in 0..(RowSize * n - 1) |-> <<>>])
              /\ stmt' = [stmt EXCEPT ![call.stmt] =
                    [@ EXCEPT !.done = TRUE, !.arrays = i, !.into = i, !.at = [c \in Cols |-> Offset[c]]]]
              /\ FreeWith(OldArrays, {Meta(i), RBind(i), Buffer(i), Arrays(i)})
  BY StoreMakes
<1>2. PICK x : /\ Puts(i, x)
               /\ Made(x, "making", "prepared", n, 0, TRUE, TRUE, TRUE, [a \in 0..(RowSize * n - 1) |-> <<>>])
  BY <1>1
<1>3. res'[i] = x /\ \A j \in Ids : j # i => res'[j] = res[j]
  BY <1>2, PutResult, CourseFacts DEF Made
<1>4. PICK s \in Stmts : s = call.stmt
  BY CourseFacts DEF ACall
<1>5. PICK gone : gone = Destroyed(s) /\ gone = OldArrays
  BY <1>4 DEF Destroyed, OldArrays, Stmt
<1>6. PICK more : more = {Meta(i), RBind(i), Buffer(i), Arrays(i)}
  OBVIOUS
<1>7. /\ live' = (live \cup more) \ gone
      /\ fault' = (fault \/ ~(gone \subseteq live \cup more))
  BY <1>1, <1>5, <1>6 DEF FreeWith
<1>8. /\ \A j : OwnBlocks(j) \cap gone = {}
      /\ \A j : Arrays(j) \in gone <=> stmt[s].done /\ stmt[s].arrays = j
      /\ broken = 0 => gone \subseteq live
  BY <1>5, DestroyedArrays
<1>9. /\ \A j : Arrays(j) \in more <=> j = i
      /\ \A j : j # i => OwnBlocks(j) \cap more = {}
      /\ more \subseteq AllBlocks
  <2>1. \A j : Arrays(j) \in more <=> j = i
    BY <1>6, BlocksDiffer
  <2>2. more \subseteq OwnBlocks(i) \cup {Arrays(i)}
    BY <1>6 DEF OwnBlocks
  <2>3. \A j : j # i => OwnBlocks(j) \cap more = {}
    BY <2>2, OwnApart
  <2> QED
    BY <1>6, <2>1, <2>3 DEF AllBlocks, Meta, RBind, Buffer, Arrays
<1>10. /\ stmt'[s].done /\ stmt'[s].arrays = i
       /\ \A t \in Stmts : t # s => stmt'[t] = stmt[t]
  BY <1>1, <1>4, CourseFacts DEF RTypeOK, Statement
<1>11. {Meta(i), RBind(i), Buffer(i)} \subseteq live'
  <2>1. {Meta(i), RBind(i), Buffer(i)} \cap gone = {}
    BY <1>8 DEF OwnBlocks
  <2> QED
    BY <1>6, <1>7, <2>1
<1>12. ASSUME broken = 0 PROVE OwnExact(i)'
  <2>1. OwnExact(i) /\ res[i].state = "none"
    BY <1>1, <1>12 DEF BlocksOK
  <2>2. Text(i) \notin live /\ Text(i) \notin more
    BY <2>1, <1>6, BlocksDiffer DEF OwnExact, Kept
  <2> QED
    BY <2>2, <1>2, <1>3, <1>7, <1>11 DEF OwnExact, Kept, Made
<1>13. ASSUME broken = 0 PROVE \A j \in Ids : ArraysExact(j)'
  <2>1. \A j \in Ids : /\ Arrays(j) \in gone <=> stmt[s].done /\ stmt[s].arrays = j
                       /\ Arrays(j) \in more <=> stmt'[s].done /\ stmt'[s].arrays = j
    BY <1>8, <1>9, <1>10
  <2>2. stmt'[s].done => res[stmt'[s].arrays].state = "none"
    BY <1>1, <1>10
  <2>3. \A t \in Stmts : t # s =>
                (stmt'[t].done <=> stmt[t].done) /\ (stmt[t].done => stmt'[t].arrays = stmt[t].arrays)
    BY <1>10
  <2> QED
    BY <1>7, <1>13, <2>1, <2>2, <2>3, ArraysChange
<1>14. ReadersNeed(i)'
  BY <1>2, <1>3, <1>11 DEF ReadersNeed, Made
<1>15. broken' = broken
  BY DEF Store
<1>16. broken = 0 => ~fault'
  BY <1>7, <1>8 DEF BlocksOK
<1>17. Moves(i, more, gone)
  BY <1>3, <1>7, <1>8, <1>9, <1>12, <1>13, <1>14, <1>15, <1>16 DEF Moves
<1> QED
  BY <1>17, BlocksStep

\* libmysqlclient fails: nobody reads this result, the others keep their blocks.
LEMMA BlocksFailed ==
    ASSUME Course, BlocksOK, StoreFails \/ BindFails
    PROVE  BlocksOK'
<1>1. PICK i \in Ids, n \in Nat : \E x, more :
              /\ Puts(i, x) /\ IsResult(x) /\ x.kind = "prepared" /\ ~x.intact
              /\ FreeWith(OldArrays, more) /\ more \subseteq {Meta(i)}
  <2>1. CASE StoreFails
    BY <2>1, StoreFailsMakes DEF Made
  <2>2. CASE BindFails
    <3>1. PICK none : none = {}
      OBVIOUS
    <3>2. \E i \in Ids, n \in Nat : \E x :
              /\ Puts(i, x) /\ IsResult(x) /\ x.kind = "prepared" /\ ~x.intact
              /\ FreeWith(OldArrays, none) /\ none \subseteq {Meta(i)}
      BY <2>2, <3>1, BindFailsMakes DEF Made
    <3> QED
      BY <3>2, Zenon
  <2> QED
    BY <2>1, <2>2
<1>2. PICK x, more : /\ Puts(i, x) /\ IsResult(x) /\ x.kind = "prepared" /\ ~x.intact
                     /\ FreeWith(OldArrays, more) /\ more \subseteq {Meta(i)}
  BY <1>1
<1>3. res'[i] = x /\ \A j \in Ids : j # i => res'[j] = res[j]
  BY <1>2, PutResult, CourseFacts
<1>4. PICK s \in Stmts : s = call.stmt
  BY CourseFacts DEF ACall
<1>5. PICK gone : gone = Destroyed(s) /\ gone = OldArrays
  BY <1>4 DEF Destroyed, OldArrays, Stmt
<1>6. live' = (live \cup more) \ gone
  BY <1>2, <1>5 DEF FreeWith
<1>7. \A j : OwnBlocks(j) \cap gone = {}
  BY <1>5, DestroyedArrays
<1>8. more \subseteq OwnBlocks(i)
  BY <1>2 DEF OwnBlocks
<1>9. \A j \in Ids : j # i => OwnBlocks(j) \cap (more \cup gone) = {}
  BY <1>7, <1>8, OwnApart
<1>10. ReadersNeed(i)'
  BY <1>2, <1>3 DEF ReadersNeed, Standing
<1>11. broken' # 0
  <2>1. broken' = broken + 1
    BY DEF StoreFails, BindFails
  <2>2. broken \in Nat
    BY CourseFacts DEF RTypeOK
  <2> QED
    BY <2>1, <2>2
<1>12. Moves(i, more, gone)
  BY <1>3, <1>6, <1>9, <1>10, <1>11 DEF Moves
<1> QED
  BY <1>12, BlocksStep

\* A fetch writes to the buffer of its result, and inside it.
LEMMA BlocksFetched ==
    ASSUME Course, RowsOK, BlocksOK, FetchRow
    PROVE  BlocksOK'
<1>0. call.at = "fetch" /\ UNCHANGED <<live, broken>>
  BY DEF FetchRow
<1>1. PICK i \in Ids, row \in [Cols -> UNION {Lengths(c) : c \in Cols}] : \E x :
              /\ i = call.result /\ Puts(i, x) /\ IsResult(x)
              /\ \A c \in Cols : row[c] \in Lengths(c)
              /\ x.state = res[i].state /\ x.kind = res[i].kind
              /\ x.intact = res[i].intact
              /\ x.rBind = res[i].rBind /\ x.meta = res[i].meta
              /\ stmt' = [stmt EXCEPT ![call.stmt].at = Advance(row)]
              /\ fault' = (fault \/ Buffer(i) \notin live
                                 \/ \E c \in Cols :
                                       ~(Extent(c, row[c]) \subseteq 0..(RowSize * res[i].rowCount - 1)))
  BY FetchRowAdds, ZenonT(40)
<1>2. PICK x : /\ Puts(i, x) /\ IsResult(x)
               /\ x.state = res[i].state /\ x.kind = res[i].kind
               /\ x.intact = res[i].intact
               /\ x.rBind = res[i].rBind /\ x.meta = res[i].meta
  BY <1>1
<1>3. res'[i] = x /\ \A j \in Ids : j # i => res'[j] = res[j]
  BY <1>2, PutResult, CourseFacts
<1>4. Standing(res[i]) /\ Len(res[i].rows) < res[i].rowCount
  BY <1>0, <1>1, CourseFacts DEF CallOK, FetchRow
<1>5. ASSUME NEW c \in Cols PROVE Extent(c, row[c]) \subseteq 0..(RowSize * res[i].rowCount - 1)
  <2>1. CASE row[c] = NULL
    BY <2>1 DEF Extent
  <2>2. CASE row[c] # NULL
    <3>1. PICK y : y = res[i] /\ y.rowCount \in Nat /\ Len(y.rows) \in Nat /\ Len(y.rows) < y.rowCount
      BY <1>4, CourseFacts DEF IsResult
    <3>2. PICK k \in 0..Len(y.rows) : Stmt.at[c] = At(c, k)
      BY <1>0, <1>1, <3>1 DEF RowsOK, Position
    <3>3. PICK n \in Nat : n = y.rowCount
      BY <3>1
    <3>4. k \in Nat /\ k < n
      BY <3>1, <3>2, <3>3
    <3>5. At(c, k) \in Nat /\ At(c, k) + Size(c) <= RowSize * n
      BY <3>4, CellInside
    <3>6. PICK l \in Lengths(c) : l = row[c]
      BY <1>1
    <3>7. \A a \in Extent(c, l) : a \in Int /\ Stmt.at[c] <= a /\ a < Stmt.at[c] + Size(c)
      BY <2>2, <3>2, <3>5, <3>6, ExtentFits
    <3>8. PICK at, z : at = At(c, k) /\ z = RowSize * n /\ at \in Nat /\ z \in Int /\ at + Size(c) <= z
      BY <3>5, Layout
    <3>9. Size(c) \in Nat
      BY Layout
    <3>10. ASSUME NEW a \in Extent(c, l) PROVE a \in 0..(z - 1)
      BY <3>2, <3>7, <3>8, <3>9
    <3> QED
      BY <3>1, <3>3, <3>6, <3>8, <3>10
  <2> QED
    BY <2>1, <2>2
<1>6. Buffer(i) \in live
  BY <1>4 DEF BlocksOK, ReadersNeed
<1>7. broken = 0 => ~fault'
  BY <1>1, <1>5, <1>6 DEF BlocksOK
<1>8. PICK more, gone : more = {} /\ gone = {}
  OBVIOUS
<1>9. live' = (live \cup more) \ gone
  BY <1>0, <1>8
<1>10. \A t \in Stmts : stmt'[t].done = stmt[t].done /\ stmt'[t].arrays = stmt[t].arrays
  BY <1>1, CourseFacts DEF RTypeOK, Statement
<1>11. ASSUME broken = 0 PROVE \A j \in Ids : ArraysExact(j)'
  <2>1. \A t \in Stmts : (stmt'[t].done <=> stmt[t].done) /\ (stmt[t].done => stmt'[t].arrays = stmt[t].arrays)
    BY <1>10
  <2> QED
    BY <1>8, <1>9, <1>11, <2>1, ArraysStay
<1>12. ASSUME broken = 0 PROVE OwnExact(i)'
  <2>1. OwnExact(i)
    BY <1>12 DEF BlocksOK
  <2> QED
    BY <2>1, <1>0, <1>2, <1>3 DEF OwnExact, Kept
<1>13. ReadersNeed(i)'
  BY <1>0, <1>2, <1>3, <1>4, <1>6 DEF ReadersNeed, Standing
<1>14. Moves(i, more, gone)
  BY <1>0, <1>3, <1>7, <1>8, <1>9, <1>11, <1>12, <1>13 DEF Moves
<1> QED
  BY <1>14, BlocksStep

\* A caller's steps on result i free nothing but what CleanUp of this result does.
LEMMA BlocksRead ==
    ASSUME Course, BlocksOK, NEW i \in Ids, NextRow(i) \/ DeleteResult(i)
    PROVE  BlocksOK'
<1>0. UNCHANGED <<stmt, broken>> /\ Kept(res[i])
  BY DEF NextRow, DeleteResult, Kept
<1>1. PICK more, all : more = {} /\ all = CleanUp(res[i], i)
  OBVIOUS
<1>2. /\ all \subseteq OwnBlocks(i) /\ \A j : Arrays(j) \notin all
      /\ \A j : j # i => OwnBlocks(j) \cap all = {}
      /\ broken = 0 => all \subseteq live /\ OwnBlocks(i) \cap (live \ all) = {}
  BY <1>0, <1>1, CleanUpBlocks
<1>3. PICK x, gone : /\ Puts(i, x) /\ IsResult(x)
                     /\ Free(gone)
                     /\ \/ gone = all /\ (x.state = "gone" \/ (x.kind = "text" /\ ~x.meta /\ ~x.rBind))
                        \/ gone = {} /\ Same(x, res[i]) /\ Kept(x) /\ (x.meta <=> res[i].meta)
  <2>1. CASE DeleteResult(i)
    <3>1. Free(all)
      BY <1>1, <2>1 DEF DeleteResult
    <3> QED
      BY <2>1, <3>1, DeleteResultEnds
  <2>2. CASE NextRow(i)
    <3>1. PICK x : /\ Puts(i, x) /\ IsResult(x) /\ Same(x, res[i])
                   /\ x.state = (IF MoreRows(res[i]) THEN "held" ELSE "read")
                   /\ x.meta = (res[i].meta /\ (MoreRows(res[i]) \/ res[i].kind # "text"))
      BY <2>2, NextRowMoves
    <3>2. PICK gone : gone = IF ~MoreRows(res[i]) /\ res[i].kind = "text" THEN all ELSE {}
      OBVIOUS
    <3>3. Free(gone)
      BY <1>1, <2>2, <3>2 DEF NextRow
    <3>4. IsResult(res[i]) /\ (res[i].kind = "text" => ~res[i].rBind)
      BY CourseFacts DEF ResultOK
    <3>5. CASE ~MoreRows(res[i]) /\ res[i].kind = "text"
      <4>1. gone = all /\ x.kind = "text" /\ ~x.meta /\ ~x.rBind
        BY <3>1, <3>2, <3>4, <3>5 DEF Same
      <4> QED
        BY <3>1, <3>3, <4>1
    <3>6. CASE ~(~MoreRows(res[i]) /\ res[i].kind = "text")
      <4>1. gone = {} /\ Kept(x) /\ (x.meta <=> res[i].meta)
        BY <3>1, <3>2, <3>4, <3>6 DEF Kept, IsResult
      <4> QED
        BY <3>1, <3>3, <4>1
    <3> QED
      BY <3>5, <3>6
  <2> QED
    BY <2>1, <2>2
<1>4. res'[i] = x /\ \A j \in Ids : j # i => res'[j] = res[j]
  BY <1>3, PutResult, CourseFacts
<1>5. gone \subseteq all
  BY <1>3
<1>6. /\ live' = (live \cup more) \ gone
      /\ fault' = (fault \/ ~(gone \subseteq live))
  BY <1>1, <1>3 DEF Free, FreeWith
<1>7. broken = 0 => ~fault'
  BY <1>2, <1>5, <1>6 DEF BlocksOK
<1>8. ASSUME broken = 0 PROVE \A j \in Ids : ArraysExact(j)'
  BY <1>0, <1>1, <1>2, <1>5, <1>6, <1>8, ArraysStay
<1>9. ASSUME broken = 0 PROVE OwnExact(i)'
  <2>1. CASE gone = all /\ (x.state = "gone" \/ (x.kind = "text" /\ ~x.meta /\ ~x.rBind))
    <3>1. OwnBlocks(i) \cap live' = {}
      BY <1>1, <1>2, <1>6, <1>9, <2>1
    <3> QED
      BY <3>1, <2>1, <1>4 DEF OwnExact, OwnBlocks, Kept
  <2>2. CASE gone = {} /\ Same(x, res[i]) /\ Kept(x) /\ (x.meta <=> res[i].meta)
    <3>1. OwnExact(i) /\ live' = live
      BY <1>1, <1>6, <1>9, <2>2 DEF BlocksOK
    <3> QED
      BY <3>1, <2>2, <1>0, <1>4 DEF OwnExact, Same
  <2> QED
    BY <1>3, <2>1, <2>2
<1>10. ReadersNeed(i)'
  <2>1. CASE x.state = "gone" \/ (x.kind = "text" /\ ~x.meta /\ ~x.rBind)
    BY <2>1, <1>4 DEF ReadersNeed, Standing, Kept
  <2>2. CASE gone = {} /\ Same(x, res[i]) /\ Kept(x) /\ (x.meta <=> res[i].meta)
    <3>1. ReadersNeed(i) /\ live' = live
      BY <1>1, <1>6, <2>2 DEF BlocksOK
    <3> QED
      BY <3>1, <2>2, <1>0, <1>4 DEF ReadersNeed, Standing, Same
  <2> QED
    BY <1>3, <2>1, <2>2
<1>11. Moves(i, more, gone)
  BY <1>0, <1>1, <1>2, <1>4, <1>5, <1>6, <1>7, <1>8, <1>9, <1>10 DEF Moves
<1> QED
  BY <1>11, BlocksStep

\* The end of a call deletes a statement that was prepared just in time; an
\* indexed one stays, and there is no other.
LEMMA JitEnds ==
    ASSUME Course, NEW new \in Statement, new.done <=> Stmt.done, new.arrays = Stmt.arrays,
           stmt' = AfterCall(new)
    PROVE  /\ ~stmt'["jit"].done
           /\ \A t \in Stmts : t # "jit" =>
                 (stmt'[t].done <=> stmt[t].done) /\ (stmt[t].done => stmt'[t].arrays = stmt[t].arrays)
           /\ Destroyed("jit") = IF call.stmt = "jit" THEN Destroyed("jit") ELSE {}
<1>0. stmt \in [Stmts -> Statement] /\ call.stmt \in Stmts /\ BindingsOK
  BY CourseFacts DEF RTypeOK
<1>1. CASE call.stmt = "jit"
  <2>1. stmt' = [stmt EXCEPT !["jit"] = NoStmt] /\ ~NoStmt.done
    BY <1>1 DEF AfterCall, NoStmt
  <2> QED
    BY <1>0, <1>1, <2>1 DEF Stmts
<1>2. CASE call.stmt = "indexed"
  <2>1. ~stmt["jit"].done
    BY <1>0, <1>2 DEF BindingsOK
  <2>2. stmt' = [stmt EXCEPT !["indexed"] = new] /\ Stmt = stmt["indexed"]
    BY <1>2 DEF AfterCall, Stmt
  <2> QED
    BY <1>0, <1>2, <2>1, <2>2 DEF Stmts, Destroyed
<1> QED
  BY <1>0, <1>1, <1>2 DEF Stmts

\* The end of a call hands the result over with its blocks, or frees them.
LEMMA BlocksReturned ==
    ASSUME Course, BlocksOK, Return
    PROVE  BlocksOK'
<1>0. call.at = "done" /\ broken' = broken
  BY DEF Return
<1>1. /\ ~stmt'["jit"].done
      /\ \A t \in Stmts : t # "jit" =>
           (stmt'[t].done <=> stmt[t].done) /\ (stmt[t].done => stmt'[t].arrays = stmt[t].arrays)
      /\ Destroyed("jit") = IF call.stmt = "jit" THEN Destroyed("jit") ELSE {}
  <2>1. PICK new \in Statement : new = Stmt
    BY CourseFacts DEF Stmt
  <2>2. stmt' = AfterCall(new)
    BY <2>1 DEF Return
  <2> QED
    BY <2>1, <2>2, JitEnds
<1>2. PICK s \in Stmts : s = "jit"
  BY DEF Stmts
<1>3. CASE call.result = NoResult
  <2>1. res' = res /\ Free({} \cup Destroyed("jit"))
    BY <1>1, <1>3 DEF Return
  <2>2. Free(Destroyed(s))
    BY <1>2, <2>1 DEF Free, FreeWith
  <2> QED
    BY <1>0, <1>1, <1>2, <2>1, <2>2, BlocksDestroyed
<1>4. CASE call.result \in Ids
  <2>1. PICK i \in Ids : \E x :
              /\ i = call.result /\ Puts(i, x) /\ IsResult(x) /\ Same(x, res[i])
              /\ x.state = (IF res[i].rowCount > 0 THEN "held" ELSE "gone")
              /\ x.meta = res[i].meta
    BY <1>4, ReturnGives
  <2>2. PICK x : /\ Puts(i, x) /\ IsResult(x) /\ Same(x, res[i])
                 /\ x.state = (IF res[i].rowCount > 0 THEN "held" ELSE "gone")
                 /\ x.meta = res[i].meta
    BY <2>1
  <2>3. res'[i] = x /\ \A j \in Ids : j # i => res'[j] = res[j]
    BY <2>2, PutResult, CourseFacts
  <2>4. Kept(res[i]) /\ i # NoResult
    BY <1>0, <2>1, CourseFacts, Constants DEF ResultOK, Kept
  <2>5. PICK more, all, arrays : more = {} /\ all = CleanUp(res[i], i) /\ arrays = Destroyed(s)
    OBVIOUS
  <2>6. PICK own : own = IF res[i].rowCount > 0 THEN {} ELSE all
    OBVIOUS
  <2>7. PICK gone : gone = own \cup arrays
    OBVIOUS
  <2>8. Free(gone)
    BY <1>1, <1>2, <2>1, <2>4, <2>5, <2>6, <2>7 DEF Return
  <2>9. /\ all \subseteq OwnBlocks(i) /\ \A j : Arrays(j) \notin all
        /\ \A j : j # i => OwnBlocks(j) \cap all = {}
        /\ broken = 0 => all \subseteq live /\ OwnBlocks(i) \cap (live \ all) = {}
    BY <2>4, <2>5, CleanUpBlocks
  <2>10. /\ \A j : OwnBlocks(j) \cap arrays = {}
         /\ \A j : Arrays(j) \in arrays <=> stmt[s].done /\ stmt[s].arrays = j
         /\ broken = 0 => arrays \subseteq live
    BY <2>5, DestroyedArrays
  <2>11. /\ live' = (live \cup more) \ gone
         /\ fault' = (fault \/ ~(gone \subseteq live))
    BY <2>5, <2>8 DEF Free, FreeWith
  <2>12. broken = 0 => ~fault'
    BY <2>6, <2>7, <2>9, <2>10, <2>11 DEF BlocksOK
  <2>13. ASSUME broken = 0 PROVE \A j \in Ids : ArraysExact(j)'
    <3>1. \A j \in Ids : /\ Arrays(j) \in gone <=> stmt[s].done /\ stmt[s].arrays = j
                         /\ Arrays(j) \in more <=> stmt'[s].done /\ stmt'[s].arrays = j
      BY <1>1, <1>2, <2>5, <2>6, <2>7, <2>9, <2>10
    <3>2. stmt'[s].done => res[stmt'[s].arrays].state = "none"
      BY <1>1, <1>2
    <3>3. \A t \in Stmts : t # s =>
                (stmt'[t].done <=> stmt[t].done) /\ (stmt[t].done => stmt'[t].arrays = stmt[t].arrays)
      BY <1>1, <1>2
    <3> QED
      BY <2>11, <2>13, <3>1, <3>2, <3>3, ArraysChange
  <2>14. res[i].rowCount > 0 => OwnBlocks(i) \cap live' = OwnBlocks(i) \cap live
    BY <2>5, <2>6, <2>7, <2>10, <2>11
  <2>15. ASSUME broken = 0 PROVE OwnExact(i)'
    <3>1. CASE res[i].rowCount > 0
      <4>1. OwnExact(i)
        BY <2>15 DEF BlocksOK
      <4>2. \A b \in OwnBlocks(i) : b \in live' <=> b \in live
        BY <3>1, <2>14
      <4> QED
        BY <3>1, <4>1, <4>2, <2>2, <2>3, <2>4 DEF OwnExact, OwnBlocks, Same, Kept
    <3>2. CASE ~(res[i].rowCount > 0)
      <4>1. OwnBlocks(i) \cap live' = {}
        BY <3>2, <2>5, <2>6, <2>7, <2>9, <2>11, <2>15
      <4> QED
        BY <3>2, <4>1, <2>2, <2>3 DEF OwnExact, OwnBlocks, Kept
    <3> QED
      BY <3>1, <3>2
  <2>16. ReadersNeed(i)'
    <3>1. CASE res[i].rowCount > 0
      <4>1. ReadersNeed(i)
        BY DEF BlocksOK
      <4>2. \A b \in OwnBlocks(i) : b \in live' <=> b \in live
        BY <3>1, <2>14
      <4> QED
        BY <3>1, <4>1, <4>2, <2>2, <2>3, <2>4 DEF ReadersNeed, OwnBlocks, Same, Kept, Standing
    <3>2. CASE ~(res[i].rowCount > 0)
      BY <3>2, <2>2, <2>3 DEF ReadersNeed, Standing, Kept
    <3> QED
      BY <3>1, <3>2
  <2>17. \A j \in Ids : j # i => OwnBlocks(j) \cap (more \cup gone) = {}
    BY <2>5, <2>6, <2>7, <2>9, <2>10
  <2>18. Moves(i, more, gone)
    BY <1>0, <2>3, <2>5, <2>11, <2>12, <2>13, <2>15, <2>16, <2>17 DEF Moves
  <2> QED
    BY <2>18, BlocksStep
<1> QED
  BY <1>3, <1>4, CourseFacts DEF ACall

\* Every step keeps the blocks.
LEMMA BlocksKept ==
    ASSUME Course, RowsOK, BlocksOK, Step
    PROVE  BlocksOK'
<1>0. stmt \in [Stmts -> Statement] /\ call \in ACall /\ BindingsOK /\ call.stmt \in Stmts
  BY CourseFacts DEF RTypeOK
<1>1. ASSUME NEW s \in Stmts, NEW params \in ParamLists(s), Call(s, params) PROVE BlocksOK'
  <2>1. PICK old : old = IF s = "jit" THEN NewStmt ELSE stmt[s]
    OBVIOUS
  <2>2. stmt' = [stmt EXCEPT ![s] = [old EXCEPT !.slots = BindParameters(@, params)]]
    BY <1>1, <2>1 DEF Call
  <2>3. old \in Statement /\ (old.done <=> stmt[s].done) /\ (stmt[s].done => old.arrays = stmt[s].arrays)
    BY <1>0, <1>1, <2>1, NewStmtType DEF Call, BindingsOK, NewStmt, NoStmt
  <2>4. \A t \in Stmts : (stmt'[t].done <=> stmt[t].done) /\ (stmt[t].done => stmt'[t].arrays = stmt[t].arrays)
    BY <1>0, <2>2, <2>3 DEF Statement
  <2>5. UNCHANGED <<live, fault, broken, res>>
    BY <1>1 DEF Call
  <2> QED
    BY <2>4, <2>5, BlocksStay
<1>2. ASSUME Execute \/ FetchEnds PROVE BlocksOK'
  <2>1. UNCHANGED <<live, fault, broken, res>>
    BY <1>2 DEF Execute, FetchEnds
  <2>2. stmt' = stmt \/ stmt' = [stmt EXCEPT ![call.stmt].slots = ClearParameters(@)]
    BY <1>2 DEF Execute, FetchEnds
  <2>3. \A t \in Stmts : (stmt'[t].done <=> stmt[t].done) /\ (stmt[t].done => stmt'[t].arrays = stmt[t].arrays)
    BY <1>0, <2>2 DEF Statement
  <2> QED
    BY <2>1, <2>3, BlocksStay
<1>3. ASSUME ExecuteFails PROVE BlocksOK'
  <2>1. PICK new : new = [Stmt EXCEPT !.slots = ClearParameters(@)]
    OBVIOUS
  <2>2. new.done = Stmt.done /\ new.arrays = Stmt.arrays /\ new \in Statement
    <3>1. PICK o \in Statement : o = Stmt
      BY <1>0 DEF Stmt
    <3>2. PICK cleared \in [Params -> Slot] : cleared = ClearParameters(o.slots)
      <4>1. o.slots \in [Params -> Slot] /\ <<>> \in Seq(Data)
        BY <3>1 DEF Statement
      <4> QED
        BY <4>1, SlotTypes
    <3>3. new = [o EXCEPT !.slots = cleared]
      BY <2>1, <3>1, <3>2
    <3> QED
      BY <3>1, <3>3 DEF Statement
  <2>3. stmt' = AfterCall(new) /\ UNCHANGED <<broken, res>>
    BY <1>3, <2>1 DEF ExecuteFails
  <2>4. /\ ~stmt'["jit"].done
        /\ \A t \in Stmts : t # "jit" =>
             (stmt'[t].done <=> stmt[t].done) /\ (stmt[t].done => stmt'[t].arrays = stmt[t].arrays)
        /\ Destroyed("jit") = IF call.stmt = "jit" THEN Destroyed("jit") ELSE {}
    BY <2>2, <2>3, JitEnds
  <2>5. Free(Destroyed("jit"))
    <3>1. CASE call.stmt = "jit"
      BY <1>3, <3>1 DEF ExecuteFails, CallEnds
    <3>2. CASE call.stmt # "jit"
      <4>1. Destroyed("jit") = {} /\ UNCHANGED <<live, fault>>
        BY <1>3, <2>4, <3>2 DEF ExecuteFails, CallEnds
      <4>2. fault \in BOOLEAN
        BY CourseFacts DEF RTypeOK
      <4>3. live' = (live \cup {}) \ {} /\ fault' = (fault \/ ~({} \subseteq live \cup {}))
        BY <4>1, <4>2
      <4> QED
        BY <4>1, <4>3 DEF Free, FreeWith
    <3> QED
      BY <3>1, <3>2
  <2>6. PICK s \in Stmts : s = "jit"
    BY DEF Stmts
  <2> QED
    BY <2>3, <2>4, <2>5, <2>6, BlocksDestroyed
<1>4. ASSUME LoseAndRetry \/ Close PROVE BlocksOK'
  <2>1. PICK s \in Stmts : s = "indexed"
    BY DEF Stmts
  <2>2. Free(Destroyed(s)) /\ UNCHANGED <<broken, res>>
    BY <1>4, <2>1 DEF LoseAndRetry, Close
  <2>3. ~stmt'[s].done /\ (\A t \in Stmts : t # s =>
             (stmt'[t].done <=> stmt[t].done) /\ (stmt[t].done => stmt'[t].arrays = stmt[t].arrays))
    <3>1. CASE LoseAndRetry
      <4>1. ASSUME NEW t \in Stmts
            PROVE  LET new == IF t = "indexed" THEN NewStmt ELSE [stmt[t] EXCEPT !.attached = FALSE]
                   IN stmt'[t].done = new.done /\ stmt'[t].arrays = new.arrays
        <5>1. PICK new : new = IF t = "indexed" THEN NewStmt ELSE [stmt[t] EXCEPT !.attached = FALSE]
          OBVIOUS
        <5>2. new \in Statement
          BY <1>0, <5>1, NewStmtType DEF Statement
        <5>3. stmt'[t] = IF t = call.stmt THEN [new EXCEPT !.slots = Rebind(@, call.params)] ELSE new
          BY <3>1, <5>1 DEF LoseAndRetry
        <5>4. stmt'[t].done = new.done /\ stmt'[t].arrays = new.arrays
          BY <5>2, <5>3 DEF Statement
        <5> QED
          BY <5>1, <5>4
      <4>2. ~NewStmt.done
        BY DEF NewStmt, NoStmt
      <4> QED
        BY <1>0, <2>1, <4>1, <4>2 DEF Statement
    <3>2. CASE Close
      <4>1. call.at = "idle" /\ stmt' = [t \in Stmts |-> NoStmt] /\ ~NoStmt.done
        BY <3>2 DEF Close, NoStmt
      <4>2. \A t \in Stmts : t # s => ~stmt[t].done
        BY <1>0, <2>1, <4>1 DEF BindingsOK, Stmts
      <4> QED
        BY <4>1, <4>2
    <3> QED
      BY <1>4, <3>1, <3>2
  <2> QED
    BY <2>2, <2>3, BlocksDestroyed
<1>5. ASSUME NEW i \in Ids, FetchNothing(i) PROVE BlocksOK'
  <2>1. UNCHANGED <<live, broken, res, stmt>> /\ res[i].state = "held" /\ res[i].kind # "affected" /\ ~Backed(res[i], i)
    BY <1>5 DEF FetchNothing
  <2>2. broken # 0
    <3>1. SUFFICES ASSUME broken = 0 PROVE FALSE
      OBVIOUS
    <3>2. ResultOK(i) /\ IsResult(res[i]) /\ ReadersNeed(i)
      BY CourseFacts DEF BlocksOK
    <3>3. res[i].intact /\ Kept(res[i])
      BY <3>1, <3>2, <2>1 DEF ResultOK, Kept
    <3>4. CASE res[i].kind = "text"
      BY <2>1, <3>2, <3>3, <3>4 DEF ResultOK, ReadersNeed, Backed
    <3>5. CASE res[i].kind = "prepared"
      BY <2>1, <3>2, <3>3, <3>5 DEF ResultOK, ReadersNeed, Backed, Standing
    <3> QED
      BY <2>1, <3>2, <3>4, <3>5 DEF IsResult
  <2>3. \A j \in Ids : ReadersNeed(j)'
    BY <2>1 DEF BlocksOK, ReadersNeed
  <2> QED
    BY <2>1, <2>2, <2>3 DEF BlocksOK
<1>6. ASSUME NEW i \in Ids, FetchAndGet(i) PROVE BlocksOK'
  <2>1. UNCHANGED <<live, broken, res, stmt>>
    BY <1>6 DEF FetchAndGet
  <2>2. fault' = FALSE
    BY <1>6, GetsFit DEF FetchAndGet
  <2>3. \A j \in Ids : ReadersNeed(j)'
    BY <2>1 DEF BlocksOK, ReadersNeed
  <2> QED
    BY <2>1, <2>2, <2>3 DEF BlocksOK, OwnExact, ArraysExact
<1> QED
  BY <1>1, <1>2, <1>3, <1>4, <1>5, <1>6, BlocksMade, BlocksStored, BlocksFailed, BlocksFetched, BlocksReturned, BlocksRead DEF Step

-----------------------------------------------------------------------------
(***************************************************************************)
(* The theorems.                                                           *)
(***************************************************************************)

\* A connection that has just been opened has no results, and its statements are
\* clear.
LEMMA ResultsBegin ==
    ASSUME RInit
    PROVE  ResultsInv
<1>1. Course
  BY CourseBegins
<1>2. /\ call.at = "idle" /\ live = {} /\ fault = FALSE
      /\ \A i \in Ids : res[i].state = "none"
      /\ \A s \in Stmts : stmt[s] = NoStmt \/ stmt[s] = NewStmt
  BY DEF RInit, Idle, NoRes
<1>3. BoundOK
  BY <1>2, NewStmtClear DEF BoundOK, SentAsSet
<1>4. RowsOK
  BY <1>2 DEF RowsOK, Standing, Kept
<1>5. BlocksOK
  <2>1. \A s \in Stmts : ~stmt[s].done
    BY <1>2 DEF NewStmt, NoStmt
  <2>2. \A i \in Ids : ReadersNeed(i) /\ OwnExact(i) /\ ArraysExact(i)
    BY <1>2, <2>1 DEF ReadersNeed, OwnExact, ArraysExact, Standing, Kept
  <2> QED
    BY <1>2, <2>2 DEF BlocksOK
<1> QED
  BY <1>1, <1>3, <1>4, <1>5 DEF ResultsInv

\* The invariant is inductive.
LEMMA ResultsKept ==
    ASSUME ResultsInv, [RNext]_vars
    PROVE  ResultsInv'
<1>0. Course /\ BoundOK /\ RowsOK /\ BlocksOK
  BY DEF ResultsInv
<1>1. Course'
  BY <1>0, CourseKept
<1>2. CASE ~fault /\ ~died /\ call.at # "aborted" /\ Step
  BY <1>0, <1>1, <1>2, BoundKept, RowsKept, BlocksKept DEF ResultsInv
<1>3. CASE UNCHANGED vars
  <2>1. UNCHANGED <<open, stmt, call, res, live, fault, losses, broken>>
    BY <1>3 DEF vars
  <2>2. BoundOK'
    BY <1>0, <2>1 DEF BoundOK, SentAsSet, Stmt
  <2>3. RowsOK'
    BY <1>0, <2>1, RowsStay
  <2>4. BlocksOK'
    BY <1>0, <2>1, BlocksStay
  <2> QED
    BY <1>1, <2>2, <2>3, <2>4 DEF ResultsInv
<1> QED
  BY <1>2, <1>3 DEF RNext, Rest

\* The course of calls and results, the parameters, the buffers byte by byte and
\* the blocks are in order in every reachable state of the connection.
THEOREM ResultsInvariant == RSpec => []ResultsInv
<1>1. RInit => ResultsInv
  BY ResultsBegin
<1>2. ResultsInv /\ [RNext]_vars => ResultsInv'
  BY ResultsKept
<1> QED
  BY <1>1, <1>2, PTL DEF RSpec

\* The server gets the parameters the caller has set: BindParameters, a failed
\* call before, and the retry on a new connection mix no two calls.
THEOREM ParametersArrive == RSpec => []SentAsSet
<1>1. ResultsInv => SentAsSet
  BY DEF ResultsInv, BoundOK
<1> QED
  BY <1>1, ResultsInvariant, PTL

\* The row a caller is at can be read, from the moment Query hands the result
\* over and after every NextRow that returned true.
THEOREM RowsReadable == RSpec => []CurrentRowReadable
<1>1. ASSUME ResultsInv PROVE CurrentRowReadable
  <2> SUFFICES ASSUME NEW i \in Ids, res[i].state = "held", res[i].kind # "affected", res[i].intact
               PROVE  Backed(res[i], i)
    BY DEF CurrentRowReadable
  <2>1. ResultOK(i) /\ IsResult(res[i]) /\ ReadersNeed(i) /\ Kept(res[i])
    BY <1>1, CourseFacts DEF ResultsInv, BlocksOK, Kept
  <2>2. CASE res[i].kind = "text"
    BY <2>1, <2>2 DEF ResultOK, ReadersNeed, Backed
  <2>3. CASE res[i].kind = "prepared"
    BY <2>1, <2>3 DEF ResultOK, ReadersNeed, Backed, Standing
  <2> QED
    BY <2>1, <2>2, <2>3 DEF IsResult
<1> QED
  BY <1>1, ResultsInvariant, PTL

\* Every row of a PreparedResultSet is what the server has sent, byte by byte,
\* for all columns, NULLs and lengths, and no later call changes it.
THEOREM RowsStayAsSent == RSpec => []RowsAsSent
<1>1. ASSUME ResultsInv PROVE RowsAsSent
  <2> SUFFICES ASSUME NEW i \in Ids, res[i].state \in {"held", "read"}, res[i].kind = "prepared", res[i].intact
               PROVE  /\ res[i].rowCount = Len(res[i].rows)
                      /\ \A r \in DOMAIN res[i].rows, c \in Cols :
                            LET cell == res[i].rows[r][c]
                            IN cell.value # NULL =>
                                  \A a \in cell.value..(cell.value + cell.length - 1) : res[i].data[a] = <<r, c>>
    BY Zenon DEF RowsAsSent
  <2>1. ResultOK(i) /\ Standing(res[i]) /\ res[i].state # "making"
    BY <1>1, CourseFacts DEF ResultsInv, Standing, Kept
  <2>2. res[i].rowCount = Len(res[i].rows)
    BY <2>1 DEF ResultOK
  <2>3. \A r \in DOMAIN res[i].rows, c \in Cols : CellOK(res[i], r, c)
    BY <1>1, <2>1 DEF ResultsInv, RowsOK
  <2>4. ASSUME NEW r \in DOMAIN res[i].rows, NEW c \in Cols
        PROVE  LET cell == res[i].rows[r][c]
               IN cell.value # NULL =>
                     \A a \in cell.value..(cell.value + cell.length - 1) : res[i].data[a] = <<r, c>>
    BY <2>3, Zenon DEF CellOK
  <2> QED
    BY <2>2, <2>4, Zenon
<1> QED
  BY <1>1, ResultsInvariant, PTL

\* No block is freed twice, used after it was freed or leaked as long as
\* libmysqlclient stores and binds every result, and between calls no statement
\* holds memory of the parameters of an earlier one.
THEOREM MemoryIsSound == RSpec => []MemorySound
<1>1. ASSUME ResultsInv PROVE MemorySound
  <2>0. Course /\ BoundOK /\ BlocksOK
    BY <1>1 DEF ResultsInv
  <2>1. ParametersCleared
    BY <2>0 DEF BoundOK, ParametersCleared, Cleared
  <2>2. ASSUME broken = 0 PROVE live \subseteq Owned
    <3> SUFFICES ASSUME NEW b \in live PROVE b \in Owned
      OBVIOUS
    <3>1. PICK k \in {"arrays", "rBind", "buffer", "meta", "text"}, i \in Ids : b = <<k, i>>
      BY <2>0, <2>2 DEF BlocksOK, AllBlocks
    <3>2. OwnExact(i) /\ ArraysExact(i)
      BY <2>0, <2>2 DEF BlocksOK
    <3>3. CASE k = "arrays"
      <4>1. PICK s \in Stmts : stmt[s].done /\ stmt[s].arrays = i
        BY <3>1, <3>2, <3>3 DEF ArraysExact, Arrays
      <4>2. b \in Destroyed(s)
        BY <3>1, <3>3, <4>1 DEF Destroyed, Arrays
      <4>3. b \in UNION {Destroyed(t) : t \in Stmts}
        BY <4>2, Zenon
      <4> QED
        BY <4>3, Zenon DEF Owned
    <3>4. CASE k # "arrays"
      <4>1. Kept(res[i]) /\ b \in CleanUp(res[i], i)
        BY <3>1, <3>2, <3>4 DEF OwnExact, CleanUp, Meta, RBind, Buffer, Text
      <4> QED
        BY <4>1 DEF Owned, Kept
    <3> QED
      BY <3>3, <3>4
  <2>3. ASSUME broken = 0 PROVE Owned \subseteq live
    <3>1. ASSUME NEW i \in Ids, res[i].state \in {"making", "held", "read"}
          PROVE  CleanUp(res[i], i) \subseteq live
      <4>1. PICK blocks : blocks = CleanUp(res[i], i)
        OBVIOUS
      <4>2. Kept(res[i])
        BY <3>1 DEF Kept
      <4> QED
        BY <2>0, <2>3, <4>1, <4>2, CleanUpBlocks
    <3>2. ASSUME NEW s \in Stmts PROVE Destroyed(s) \subseteq live
      BY <2>0, <2>3, DestroyedArrays
    <3>3. UNION {CleanUp(res[i], i) : i \in {j \in Ids : res[j].state \in {"making", "held", "read"}}} \subseteq live
      BY <3>1, Zenon
    <3>4. UNION {Destroyed(s) : s \in Stmts} \subseteq live
      BY <3>2, Zenon
    <3> QED
      BY <3>3, <3>4, Zenon DEF Owned
  <2>4. broken = 0 => ~fault
    BY <2>0 DEF BlocksOK
  <2> QED
    BY <2>1, <2>2, <2>3, <2>4 DEF MemorySound
<1> QED
  BY <1>1, ResultsInvariant, PTL

\* A caller that follows the guideline of Field.h is never ended by a Get, as
\* long as the server sends aggregates with the types that Field.h expects.
THEOREM TabledReadsReturn == RSpec => []TabledReads
<1>1. RInit => TabledReads
  BY DEF RInit, TabledReads, GuidelineReads
<1>2. TabledReads /\ [RNext]_vars => TabledReads'
  <2> SUFFICES ASSUME TabledReads, [RNext]_vars,
                      \A c \in Cols : Columns[c] \in AggregateTypes(Aliases[c])
               PROVE  ~died'
    BY DEF TabledReads, GuidelineReads
  <2>0. ~died
    BY DEF TabledReads, GuidelineReads
  <2>1. ASSUME NEW i \in Ids, FetchAndGet(i) PROVE ~died'
    BY <2>1, GetsReturn DEF FetchAndGet
  <2>2. ASSUME Step, ~\E i \in Ids : FetchAndGet(i) PROVE died' = died
    BY <2>2, Zenon
       DEF Step, Call, Execute, ExecuteFails, LoseAndRetry, NoMetadata, StoreFails, Store,
           BindFails, FetchRow, FetchEnds, Return, TextQuery, NextRow, FetchNothing,
           DeleteResult, Close
  <2>3. CASE UNCHANGED vars
    BY <2>0, <2>3 DEF vars
  <2> QED
    BY <2>0, <2>1, <2>2, <2>3 DEF RNext, Rest
<1> QED
  BY <1>1, <1>2, PTL DEF RSpec
=============================================================================
