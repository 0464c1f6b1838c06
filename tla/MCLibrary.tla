------------------------------ MODULE MCLibrary -----------------------------
(***************************************************************************)
(* Components that come to rest, for TLC: thread-specific storage, stdio   *)
(* streams, the register allocator, the Scheme collector, guest pipes and  *)
(* memory cards.  A behaviour is one of a single component; the variables  *)
(* of the others keep their initial values.                                *)
(***************************************************************************)
EXTENDS Tss, Stdio, RegAlloc, GcHeap, GuestPipe, MemCard

VARIABLE part           \* the module whose behaviour this is

MCVars == <<part, tssVars, stdioVars, raVars, gcVars, pipeVars, cardVars>>

\* One initial state for each component that this behaviour is not of
MCInit ==
  /\ part \in {"tss", "stdio", "regalloc", "gc", "pipe", "card"}
  /\ TssInit /\ StdioInit /\ RaInit /\ GcInit /\ PipeInit /\ CardInit
  /\ part # "stdio" => kind = "mem"
  /\ part # "card" => clean
  /\ part # "regalloc" => cls = [t \in Temps |-> "int"] /\ pinned = {}

MCNext ==
  /\ UNCHANGED part
  /\ \/ part = "tss" /\ TssNext /\ UNCHANGED <<stdioVars, raVars, gcVars, pipeVars, cardVars>>
     \/ part = "stdio" /\ StdioNext /\ UNCHANGED <<tssVars, raVars, gcVars, pipeVars, cardVars>>
     \/ part = "regalloc" /\ RaNext /\ UNCHANGED <<tssVars, stdioVars, gcVars, pipeVars, cardVars>>
     \/ part = "gc" /\ GcNext /\ UNCHANGED <<tssVars, stdioVars, raVars, pipeVars, cardVars>>
     \/ part = "pipe" /\ PipeStep /\ UNCHANGED <<tssVars, stdioVars, raVars, gcVars, cardVars>>
     \/ part = "card" /\ CardNext /\ UNCHANGED <<tssVars, stdioVars, raVars, gcVars, pipeVars>>

\* Only GuestPipe has a liveness property, so only its fairness is stated.
MCSpec == MCInit /\ [][MCNext]_MCVars /\ PipeFair

\* One content takes one block, the other two of the three
MCNeed(c) == IF c = "short" THEN 1 ELSE 2

\* Three integers, two pairs that compete and leave an integer no register,
\* two floats that compete
MCRaClasses ==
  {[t \in Temps |-> "int"], [t \in Temps |-> IF t = 2 THEN "int" ELSE "i64"],
   [t \in Temps |-> IF t = 2 THEN "i64" ELSE "float"]}
=============================================================================
