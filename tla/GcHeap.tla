------------------------------- MODULE GcHeap -------------------------------
(***************************************************************************)
(* The mark-sweep collector of scheme/gc.c with a program on top of it.    *)
(* The program keeps values in variables that it pushes as roots in stack  *)
(* order, and nests calls, so that a fresh value may be an argument before *)
(* any variable holds it (tmp).  A value is an object's number, or 0 for   *)
(* everything that is no pointer.                                          *)
(***************************************************************************)
EXTENDS Integers, Sequences, FiniteSets, FiniteSetsExt

CONSTANTS
  Objs,          \* memory for objects
  NVars,         \* variables of the program, pushed and popped in order
  MinThreshold   \* the 64 of gc_init

ASSUME GcAssumption ==
  /\ Objs \subseteq Nat \ {0} /\ IsFiniteSet(Objs) /\ NVars \in Nat /\ MinThreshold \in Nat \ {0}

VARIABLES
  objs,          \* type and fields of an object, "free" when it is not in h->all
  marks,         \* objects with their mark bit set
  threshold,
  nroots,        \* variables 1 .. nroots are on the root stack
  var,           \* values of the variables
  tmp,           \* result of the last allocation
  args           \* arguments of the last allocation

gcVars == <<objs, marks, threshold, nroots, var, tmp, args>>

FreeObj == [type |-> "free", kids |-> <<>>]
Allocated(o) == {x \in Objs : o[x].type # "free"}
Rooted == {var[i] : i \in 1 .. nroots}

GcInit ==
  /\ objs = [x \in Objs |-> FreeObj]
  /\ marks = {} /\ threshold = MinThreshold
  /\ nroots = 0 /\ var = [i \in 1 .. NVars |-> 0]
  /\ tmp = 0 /\ args = {}

-----------------------------------------------------------------------------
(* mark_val and gc_collect.                                                *)

RECURSIVE Mark(_, _), MarkKids(_, _, _)

Mark(v, m) ==
  IF v = 0 \/ v \in m THEN m ELSE MarkKids(objs[v].kids, 1, m \cup {v})
MarkKids(kids, i, m) ==
  IF i > Len(kids) THEN m ELSE MarkKids(kids, i + 1, Mark(kids[i], m))

RECURSIVE MarkAll(_, _)
MarkAll(vs, m) ==
  IF vs = {} THEN m ELSE LET v == Min(vs) IN MarkAll(vs \ {v}, Mark(v, m))

\* The heap after a collection with the given roots; the sweep clears the marks.
Collect(roots) ==
  LET m == MarkAll(roots, marks)
      kept == [x \in Objs |-> IF x \in m THEN objs[x] ELSE FreeObj]
      n == Cardinality(Allocated(kept))
  IN  [objs |-> kept, marks |-> {}, threshold |-> Max({threshold, n * 2, MinThreshold})]

Count == Cardinality(Allocated(objs))
AsIs == [objs |-> objs, marks |-> marks, threshold |-> threshold]

\* Mutant of Protected: the arguments are not pushed.
MutProtected(xs) == Rooted

\* The arguments are on the root stack while gc_alloc may collect.
Protected(xs) == Rooted \cup xs

\* gc_alloc: collect at the threshold, and again when malloc finds no memory; a program
\* that is out of memory then exits.
AllocHeap(xs) ==
  IF Count >= threshold \/ Allocated(objs) = Objs THEN Collect(Protected(xs)) ELSE AsIs

Alloc(type, kids) ==
  LET h == AllocHeap({kids[i] : i \in DOMAIN kids})
      room == Objs \ Allocated(h.objs)
  IN  /\ room # {}
      /\ objs' = [h.objs EXCEPT ![Min(room)] = [type |-> type, kids |-> kids]]
      /\ marks' = h.marks /\ threshold' = h.threshold
      /\ tmp' = Min(room)
      /\ args' = {kids[i] : i \in DOMAIN kids}
      /\ UNCHANGED <<nroots, var>>

Values == Rooted \cup {tmp, 0}

GcCons(car, cdr) == Alloc("pair", <<car, cdr>>)
GcString == Alloc("string", <<>>)
GcClosure(x) == Alloc("closure", <<x>>)

-----------------------------------------------------------------------------
(* The rest of the program.                                                *)

GcPush ==
  /\ nroots < NVars
  /\ nroots' = nroots + 1
  /\ var' = [var EXCEPT ![nroots + 1] = tmp]
  /\ tmp' = 0 /\ args' = {}
  /\ UNCHANGED <<objs, marks, threshold>>

GcPop(n) ==
  /\ n <= nroots
  /\ nroots' = nroots - n
  /\ var' = [i \in 1 .. NVars |-> IF i > nroots - n THEN 0 ELSE var[i]]
  /\ tmp' = 0 /\ args' = {}
  /\ UNCHANGED <<objs, marks, threshold>>

Assign(i) ==
  /\ i <= nroots
  /\ var' = [var EXCEPT ![i] = tmp]
  /\ tmp' = 0 /\ args' = {}
  /\ UNCHANGED <<objs, marks, threshold, nroots>>

\* gc_set_car and gc_set_cdr, which make cycles possible.
GcSet(p, i, x) ==
  /\ p # 0 /\ objs[p].type = "pair"
  /\ objs' = [objs EXCEPT ![p].kids[i] = x]
  /\ tmp' = 0 /\ args' = {}
  /\ UNCHANGED <<marks, threshold, nroots, var>>

GcNext ==
  \/ GcString \/ GcPush
  \/ \E x \in Values : GcClosure(x)
  \/ \E x, y \in Values : GcCons(x, y)
  \/ \E n \in 1 .. NVars : GcPop(n) \/ Assign(n)
  \/ \E p \in Rooted, i \in 1 .. 2, x \in Values : GcSet(p, i, x)

GcSpec == GcInit /\ [][GcNext]_gcVars

-----------------------------------------------------------------------------
(* Properties.                                                             *)

\* Reference definition: the least set that holds s and the fields of its objects.
Fields(c) == UNION {{objs[x].kids[i] : i \in DOMAIN objs[x].kids} : x \in c}
Reach(s) ==
  {x \in Objs : \A c \in SUBSET Objs :
     (s \ {0} \subseteq c /\ Fields(c) \ {0} \subseteq c) => x \in c}

\* A collection inside an allocation frees exactly what is not reachable.  It keeps what
\* the variables on the root stack or the arguments of the call reach, through cycles and
\* after any number of collections, and the new object takes the place of none of it
\* ("root-safe: arguments are protected").  At the threshold no garbage stays, and no mark
\* bit is left set for the next one.
CollectsGarbage ==
  [][/\ (args' # args \/ tmp' # tmp) =>
          \A x \in Reach(Rooted \cup args') :
            objs'[x].type = objs[x].type /\ (args' # {} => x # tmp')
     /\ (Count >= threshold /\ args' # {}) =>
          /\ Allocated(objs') \ {tmp'} \subseteq Reach(Rooted \cup args')
          /\ marks' = {}]_gcVars
=============================================================================
