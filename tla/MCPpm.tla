------------------------------- MODULE MCPpm -------------------------------
(***************************************************************************)
(* The instance of Ppm that main starts (test.c): ten slots.  The table of *)
(* ppm_init, every table that repeats three values, and tables of maxima   *)
(* but for one slot; they leave a last pause of several ticks, of exactly  *)
(* one, of less than one and of none.                                      *)
(***************************************************************************)
EXTENDS Ppm

MCModulus == 65536

\* The tick may be about to end, and the task may be woken late.
MCJitter == {-999, -400, 0, 3000}
MCMaxLate == 3000

MCTables ==
  {DefaultSlots} \cup
  {[i \in 0 .. Slots - 1 |-> t[i % 3]] : t \in [0 .. 2 -> {0, 200, 500, 1000}]} \cup
  {[i \in 0 .. Slots - 1 |-> IF i = k THEN t ELSE 1000] :
     k \in {0, 4, Slots - 1}, t \in {0, 1, 500}}
=============================================================================
