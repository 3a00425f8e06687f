-------------------------- MODULE MCCallbackProcessor --------------------------
(***************************************************************************)
(* Bounds for CallbackProcessor.                                           *)
(***************************************************************************)
EXTENDS CallbackProcessor

CONSTANTS e1, e2

TwoEntries == {e1, e2}
=============================================================================
