------------------------------ MODULE MCSched ------------------------------
(***************************************************************************)
(* Sched for TLC.  The slots are numbers with an order (the lowest free    *)
(* one is taken, the cursor runs upwards), so no symmetry is used.         *)
(***************************************************************************)
EXTENDS Sched
=============================================================================
