---------------------------- MODULE MCSchedBuild ---------------------------
(***************************************************************************)
(* What a guest is given, for TLC: a process slot that is built (three     *)
(* slots, each reused twice), the two file systems and the C heap.  A      *)
(* behaviour is one of a single component; the variables of the others     *)
(* keep their initial values.  Only NineP has a liveness property, so only *)
(* its fairness is stated.                                                 *)
(***************************************************************************)
EXTENDS SchedBuild, NineP, FsRam, Heap, TLC

VARIABLE part           \* the module whose behaviour this is

MCVars == <<part, vars, nineVars, ramVars, heapVars>>

MCInit ==
  /\ part \in {"build", "nine", "ram", "heap"}
  /\ Init /\ NineInit /\ RamInit /\ HeapInit

MCNext ==
  /\ UNCHANGED part
  /\ \/ part = "build" /\ Next /\ UNCHANGED <<nineVars, ramVars, heapVars>>
     \/ part = "nine" /\ NineNext /\ UNCHANGED <<vars, ramVars, heapVars>>
     \/ part = "ram" /\ RamNext /\ UNCHANGED <<vars, nineVars, heapVars>>
     \/ part = "heap" /\ HeapNext /\ UNCHANGED <<vars, nineVars, ramVars>>

MCSpec == MCInit /\ [][MCNext]_MCVars /\ WF_nineVars(Serve \/ Client)

\* Directories three deep, which take two Twalks as MAXWELEM = 2, a name that is
\* missing in one of them, and a name at the root that comes and goes.
MCFixed == (<<"a">> :> "d") @@ (<<"a", "b">> :> "d") @@ (<<"a", "b", "d">> :> "d")
MCLoose == {<<"c">>}
MCAsks ==
  {<<"open", <<"c">>>>, <<"create", <<"c">>>>, <<"unlink", <<"c">>>>,
   <<"mkdir", <<"z", "c">>>>, <<"rename", <<"c">>, "e">>,
   <<"open", <<"a", "c">>>>, <<"open", <<"a", "b", "d">>>>, <<"opendir", <<"a", "b", "d">>>>,
   <<"create", <<"a", "b", "c">>>>, <<"rmdir", <<"a", "b", "d">>>>,
   <<"mkdir", <<"a", "b", "d", "c">>>>}

\* Names relative to the working directory, "..", and absolute ones
MCRamPaths ==
  [abs : {FALSE}, comps : {<<"x">>, <<"y">>, <<"..">>}]
    \cup [abs : {TRUE}, comps : {<<"x">>, <<"x", "y">>}]

\* calloc(2, 10), and one whose product does not fit in SizeMod
MCArrays == {<<2, 10>>, <<17, 16>>}
=============================================================================
