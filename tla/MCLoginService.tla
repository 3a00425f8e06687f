---------------------------- MODULE MCLoginService ----------------------------
(***************************************************************************)
(* Two accounts; the salt of the second has a zero byte in front.          *)
(***************************************************************************)
EXTENDS LoginService

MCSalt == [ann |-> <<1, 2>>, bob |-> <<0, 3>>]
=============================================================================
