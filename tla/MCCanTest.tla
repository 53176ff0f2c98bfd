----------------------------- MODULE MCCanTest -----------------------------
(***************************************************************************)
(* CanTest on a bus with a few errors.                                     *)
(***************************************************************************)
EXTENDS CanTest

\* A protocol error of two kinds and a restart.
BusErrors == {<<1, 9>>, <<1, 10>>, <<6, 11>>}
=============================================================================
