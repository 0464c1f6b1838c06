------------------------------- MODULE MCTree -------------------------------
(***************************************************************************)
(* Two tables of things that outlive their makers, for TLC: the processes  *)
(* of Sched, and the coroutines of KoboldCo, of which three are enough for *)
(* one that cancels another while it is itself run by a third.  A          *)
(* behaviour is one of a single component; the variables of the other keep *)
(* their initial values.  The threads arm the handler in any order, and    *)
(* all of them before the first coroutine, which does not depend on those  *)
(* that come later.  MaxRefs bounds the references to coroutines that are  *)
(* held at a time: each of three has one, and one of them a second.        *)
(***************************************************************************)
EXTENDS Sched, KoboldCo

VARIABLE part           \* the module whose behaviour this is

MCVars == <<part, vars, coVars>>

MCInit == part \in {"sched", "co"} /\ Init /\ CoInit

MaxRefs == 4

References == {<<x, c>> \in (DOMAIN holds) \X Cos : c \in holds[x]}

AllArmed == \A t \in CoThreads : arming[t] = "ready"

MCNext ==
  /\ UNCHANGED part
  /\ \/ part = "sched" /\ Next /\ UNCHANGED coVars
     \/ /\ part = "co" /\ CoNext /\ UNCHANGED vars
        /\ (co' # co => AllArmed) /\ Cardinality(References') <= MaxRefs

MCSpec == MCInit /\ [][MCNext]_MCVars
=============================================================================
