-------------------------------- MODULE Fields --------------------------------
(***************************************************************************)
(* What a column of a result is to the code that reads it: the bytes that  *)
(* PreparedResultSet reserves for it, the DatabaseFieldTypes it is given,  *)
(* and what Field::Get<T> makes of it.  Only operators: no state.          *)
(*                                                                         *)
(* A field here is a record                                                *)
(*   type   its MySQL type                                                 *)
(*   null   data.value is nullptr                                          *)
(*   raw    it comes from a prepared statement (binary, not text)          *)
(*   alias  what GetCleanAliasName finds in its alias, lower case          *)
(*   dbc    its table's name ends in _dbc                                  *)
(*   as     the arithmetic types for which StringTo finds a value in it    *)
(***************************************************************************)
EXTENDS Naturals

IntTypes == {"TINY", "YEAR", "SHORT", "INT24", "LONG", "LONGLONG", "BIT"}
TimeTypes == {"TIMESTAMP", "DATE", "TIME", "DATETIME"}
StringTypes == {"TINY_BLOB", "MEDIUM_BLOB", "LONG_BLOB", "BLOB", "STRING", "VAR_STRING"}
DecimalTypes == {"DECIMAL", "NEWDECIMAL"}
\* The types the server can send (an ENUM or a SET comes as a STRING).
MySQLTypes == IntTypes \cup TimeTypes \cup StringTypes \cup DecimalTypes
              \cup {"NULL", "FLOAT", "DOUBLE", "GEOMETRY", "JSON"}

\* sizeof(MYSQL_TIME), on the 64-bit platforms of libmysqlclient.
MYSQL_TIME == 40

\* A plausible bug of SizeForType: sizeof(long) for a BIGINT, where long has 4
\* bytes.
SizeForTypeLong(type, maxLength) ==
    CASE type = "TINY" -> 1
      [] type \in {"YEAR", "SHORT"} -> 2
      [] type \in {"INT24", "LONG", "LONGLONG", "FLOAT"} -> 4
      [] type \in {"DOUBLE", "BIT"} -> 8
      [] type \in TimeTypes -> MYSQL_TIME
      [] type \in StringTypes -> maxLength + 1
      [] type \in DecimalTypes -> 64
      [] OTHER -> 0

\* The bytes of a value in the buffer of a PreparedResultSet.
SizeForType(type, maxLength) ==
    CASE type = "TINY" -> 1
      [] type \in {"YEAR", "SHORT"} -> 2
      [] type \in {"INT24", "LONG", "FLOAT"} -> 4
      [] type \in {"DOUBLE", "LONGLONG", "BIT"} -> 8
      [] type \in TimeTypes -> MYSQL_TIME
      [] type \in StringTypes -> maxLength + 1
      [] type \in DecimalTypes -> 64
      [] OTHER -> 0

MysqlTypeToFieldType(type) ==
    CASE type = "TINY" -> "Int8"
      [] type \in {"YEAR", "SHORT"} -> "Int16"
      [] type \in {"INT24", "LONG"} -> "Int32"
      [] type \in {"LONGLONG", "BIT"} -> "Int64"
      [] type = "FLOAT" -> "Float"
      [] type = "DOUBLE" -> "Double"
      [] type \in DecimalTypes -> "Decimal"
      [] type \in TimeTypes -> "Date"
      [] type \in StringTypes -> "Binary"
      [] OTHER -> "Null"

-----------------------------------------------------------------------------
(***************************************************************************)
(* Field::Get<T>, for the arithmetic T.                                    *)
(***************************************************************************)

\* sizeof(T).
Width == [bool |-> 1, int8 |-> 1, uint8 |-> 1, int16 |-> 2, uint16 |-> 2,
          int32 |-> 4, uint32 |-> 4, int64 |-> 8, uint64 |-> 8,
          float |-> 4, double |-> 8]
Arithmetic == DOMAIN Width

IsCorrectFieldType(T, fieldType) ==
    CASE T \in {"bool", "int8", "uint8"} -> fieldType = "Int8"
      [] T \in {"int16", "uint16"} -> fieldType = "Int16"
      [] T \in {"int32", "uint32"} -> fieldType = "Int32"
      [] T \in {"int64", "uint64"} -> fieldType = "Int64"
      [] T = "float" -> fieldType = "Float"
      [] T = "double" -> fieldType \in {"Double", "Decimal"}
      [] T = "Binary" -> fieldType = "Binary"
      [] OTHER -> FALSE

\* A plausible bug of IsCorrectAlias: COUNT is taken for an INT.
IsCorrectAliasInt(T, fieldType, alias) ==
    CASE T = "double" -> alias \in {"sum", "avg"} /\ fieldType = "Decimal"
      [] T = "uint64" -> alias = "count" /\ fieldType = "Int32"
      [] OTHER -> alias \in {"min", "max"} /\ IsCorrectFieldType(T, fieldType)

IsCorrectAlias(T, fieldType, alias) ==
    CASE T = "double" -> alias \in {"sum", "avg"} /\ fieldType = "Decimal"
      [] T = "uint64" -> alias = "count" /\ fieldType = "Int64"
      [] OTHER -> alias \in {"min", "max"} /\ IsCorrectFieldType(T, fieldType)

\* Whether result holds a value before the corrections for tables and aliases:
\* a raw value is reinterpreted; a double that is not a raw floating-point
\* number is read from text, as a float.
HasResult(T, f) ==
    IF T = "double" THEN (f.raw /\ MysqlTypeToFieldType(f.type) # "Decimal") \/ "float" \in f.as
                    ELSE f.raw \/ T \in f.as

\* The call of GetData that a call for T ends with, T itself when it ends with
\* its own result.
Deferred(T, f) ==
    LET ft == MysqlTypeToFieldType(f.type)
    IN CASE T = "uint32" /\ f.dbc /\ "int32" \in f.as /\ ~HasResult(T, f) -> <<"int32">>
         [] f.alias \in {"sum", "avg"} /\ ~IsCorrectAlias(T, ft, f.alias) -> <<"double">>
         [] f.alias = "count" /\ ~IsCorrectAlias(T, ft, f.alias) -> <<"uint64">>
         [] OTHER -> <<>>

\* The calls of GetData that a call for T makes, itself included: at most four
\* of them are different, and one that is made twice is made forever.
Calls(T, f) ==
    LET next(t) == IF Deferred(t, f) = <<>> THEN t ELSE Deferred(t, f)[1]
        t2 == next(T)
        t3 == next(t2)
    IN <<T, t2, t3, next(t3)>>

\* What GetData<T> does: the outcome, and the type it finally reads f as.
GetData(T, f) ==
    LET last == Calls(T, f)[4]
    IN IF f.null THEN [outcome |-> "default", as |-> T]
       ELSE IF Deferred(last, f) # <<>> THEN [outcome |-> "recurses", as |-> last]
       ELSE IF HasResult(last, f) THEN [outcome |-> "value", as |-> last]
       ELSE [outcome |-> "abort", as |-> last]

-----------------------------------------------------------------------------
(***************************************************************************)
(* The tables in the comment of class Field, as far as they are about the  *)
(* arithmetic types.                                                       *)
(***************************************************************************)

\* The guideline: the methods to use for a MySQL type.
Guideline(type) ==
    CASE type = "TINY" -> {"bool", "int8", "uint8"}
      [] type = "SHORT" -> {"int16", "uint16"}
      [] type \in {"INT24", "LONG"} -> {"int32", "uint32"}
      [] type = "LONGLONG" -> {"int64", "uint64"}
      [] type = "FLOAT" -> {"float"}
      [] type = "DOUBLE" \/ type \in DecimalTypes -> {"double"}
      [] OTHER -> {}

\* The MySQL types an aggregate function returns.
AggregateTypes(alias) ==
    CASE alias \in {"sum", "avg"} -> DecimalTypes
      [] alias = "count" -> {"LONGLONG"}
      [] OTHER -> MySQLTypes
=============================================================================
