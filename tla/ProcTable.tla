----------------------------- MODULE ProcTable -----------------------------
(***************************************************************************)
(* What the process table of emu/sched.c promises to holders of handles: a *)
(* slot has at most one handle at a time, made of the slot and of its      *)
(* generation, and a slot that is retired moves on to the next generation. *)
(* Sched (the scheduler) and SchedBuild (the building of a process) are    *)
(* both shown to implement it.                                             *)
(***************************************************************************)
EXTENDS Naturals

CONSTANTS
  MaxProc,     \* SKJ_MAX_PROC
  GenMod       \* generations a handle can tell apart

VARIABLES
  handles,     \* the handle of the process in a slot, 0 for none
  gens         \* generation of a slot

tvars == <<handles, gens>>

Slots == 0 .. MaxProc - 1

Handle(s, g) == (s + 1) + 256 * (g % GenMod)

Init ==
  /\ handles = [s \in Slots |-> 0]
  /\ gens = [s \in Slots |-> 0]

Add(s) ==
  /\ handles[s] = 0
  /\ handles' = [handles EXCEPT ![s] = Handle(s, gens[s])]
  /\ UNCHANGED gens

Retire(gone) ==
  /\ \A s \in gone : handles[s] # 0
  /\ handles' = [s \in Slots |-> IF s \in gone THEN 0 ELSE handles[s]]
  /\ gens' = [s \in Slots |-> IF s \in gone THEN gens[s] + 1 ELSE gens[s]]

Next == (\E s \in Slots : Add(s)) \/ (\E gone \in SUBSET Slots : Retire(gone))

Spec == Init /\ [][Next]_tvars
=============================================================================
