-------------------------- MODULE MCPreparedResults --------------------------
(***************************************************************************)
(* Two columns, one of fixed and one of variable size: a count for every   *)
(* name, and a sum over floating-point numbers for every name.             *)
(***************************************************************************)
EXTENDS PreparedResults

CountColumns == <<"LONGLONG", "VAR_STRING">>
CountAliases == <<"count", "none">>

SumColumns == <<"DOUBLE", "VAR_STRING">>
SumAliases == <<"sum", "none">>
=============================================================================
