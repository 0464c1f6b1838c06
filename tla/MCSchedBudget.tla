--------------------------- MODULE MCSchedBudget ---------------------------
(***************************************************************************)
(* What a run is limited in, for TLC: instructions (SchedBudget: a root    *)
(* and two spawned children, a quantum of three instructions, counters of  *)
(* a few bits) and committed memory (GuestMem: two guests of one pool).  A *)
(* behaviour is one of a single component; the variables of the other keep *)
(* their initial values.  Only SchedBudget has a liveness property, so     *)
(* only its fairness is stated.                                            *)
(***************************************************************************)
EXTENDS SchedBudget, GuestMem

VARIABLE part           \* the module whose behaviour this is

MCVars == <<part, vars, gmVars>>

MCInit == part \in {"budget", "mem"} /\ Init /\ GmInit

MCNext ==
  /\ UNCHANGED part
  /\ \/ part = "budget" /\ Next /\ UNCHANGED gmVars
     \/ part = "mem" /\ GmNext /\ UNCHANGED vars

MCSpec == MCInit /\ [][MCNext]_MCVars /\ WF_vars(Slices) /\ WF_vars(EndRound)
=============================================================================
