----------------------------- MODULE MCThreads -----------------------------
(***************************************************************************)
(* The thread library and the coroutines of libc for TLC, side by side: a  *)
(* behaviour is one of Threads (main and two spawned threads, with a plain *)
(* or a recursive mutex) or one of Coro, and the variables of the other    *)
(* keep their initial values.  The spawned threads are interchangeable,    *)
(* but ReadyRuns is a liveness property, so there is no symmetry set.      *)
(***************************************************************************)
EXTENDS Threads, Coro

VARIABLE part           \* the module whose behaviour this is

MCVars == <<part, vars, coroVars>>

MCInit == part \in {"threads", "coro"} /\ Init /\ CoroInit

MCNext ==
  \/ part = "threads" /\ Next /\ UNCHANGED <<part, coroVars>>
  \/ part = "coro" /\ CoroNext /\ UNCHANGED <<part, vars>>

MCSpec == MCInit /\ [][MCNext]_MCVars /\ Fairness
=============================================================================
