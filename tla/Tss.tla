-------------------------------- MODULE Tss ---------------------------------
(***************************************************************************)
(* Thread-specific storage of libc/threads.c: a table of keys with         *)
(* destructors, a row of values per thread, and the passes over the row    *)
(* when a thread ends.  A destructor is the program's code: it may store   *)
(* new values, delete or create keys, and let other threads run before it  *)
(* returns.                                                                *)
(***************************************************************************)
EXTENDS Integers

CONSTANTS
  TThreads,      \* threads of the program
  TSS_MAX,       \* keys
  Iterations,    \* TSS_DTOR_ITERATIONS
  Objects        \* bound: objects a program stores pointers to; 0 stands for NULL

ASSUME TssAssumption == TSS_MAX \in Nat /\ Iterations \in Nat \ {0} /\ 0 \notin Objects

VARIABLES
  used, dtor,    \* tss_used; whether tss_dtors is not NULL
  row,           \* values of a thread, 0 for NULL
  pass,          \* how far run_tss_dtors of a thread is
  stored,        \* objects that were stored and not yet destroyed
  twice          \* a destructor was given an object that was not stored

tssVars == <<used, dtor, row, pass, stored, twice>>

Keys == 1 .. TSS_MAX

\* Where a scan of the table from its start first meets a key of S.
First(S) == {k \in S : \A j \in S : k <= j}

TssInit ==
  /\ used = {} /\ dtor = {}
  /\ row = [t \in TThreads |-> [k \in Keys |-> 0]]
  /\ pass = [t \in TThreads |-> [at |-> "run", iter |-> 0, key |-> 0, any |-> FALSE]]
  /\ stored = {} /\ twice = FALSE

\* The program's code runs in a thread, in its function or in a destructor.
InCode(t) == pass[t].at \in {"run", "dtor"}

\* tss_create takes the first unused key.
TssCreate(t, withDtor) ==
  /\ InCode(t)
  /\ \E k \in First(Keys \ used) :
       /\ used' = used \cup {k}
       /\ dtor' = IF withDtor THEN dtor \cup {k} ELSE dtor \ {k}
  /\ UNCHANGED <<row, pass, stored, twice>>

TssDelete(t, k) ==
  /\ InCode(t) /\ k \in used
  /\ used' = used \ {k}
  /\ dtor' = dtor \ {k}
  /\ UNCHANGED <<row, pass, stored, twice>>

\* tss_set of a fresh object, or of NULL; an object destroyed before may come again.
TssSet(t, k, v) ==
  /\ InCode(t) /\ k \in used /\ v \in Objects \ stored
  /\ stored' = stored \cup {v}
  /\ row' = [row EXCEPT ![t][k] = v]
  /\ UNCHANGED <<used, dtor, pass, twice>>

TssClear(t, k) ==
  /\ InCode(t) /\ k \in used /\ row[t][k] # 0
  /\ row' = [row EXCEPT ![t][k] = 0]
  /\ UNCHANGED <<used, dtor, pass, stored, twice>>

-----------------------------------------------------------------------------
(* run_tss_dtors: from one destructor call to the next, or to its end.     *)

Hits(t, from) == {k \in Keys : k >= from /\ k \in used \cap dtor /\ row[t][k] # 0}

\* Where the loops go on after key `from - 1` of a pass: the next call or the end.
Onward(t, iter, from, any) ==
  CASE Hits(t, from) # {} ->
         {[at |-> "dtor", iter |-> iter, key |-> k, any |-> TRUE] : k \in First(Hits(t, from))}
    [] Hits(t, from) = {} /\ any /\ iter + 1 < Iterations /\ Hits(t, 1) # {} ->
         {[at |-> "dtor", iter |-> iter + 1, key |-> k, any |-> TRUE] : k \in First(Hits(t, 1))}
    [] OTHER -> {[at |-> "gone", iter |-> iter, key |-> 0, any |-> any]}

\* Mutant of CallDtor: the slot keeps its value.
MutCallDtor(t, p) ==
  /\ pass' = [pass EXCEPT ![t] = p]
  /\ IF p.at = "dtor"
     THEN stored' = stored \ {row[t][p.key]} /\ twice' = (twice \/ row[t][p.key] \notin stored)
     ELSE UNCHANGED <<stored, twice>>
  /\ UNCHANGED <<used, dtor, row>>

\* A slot is cleared before its destructor is called.
CallDtor(t, p) ==
  /\ pass' = [pass EXCEPT ![t] = p]
  /\ IF p.at = "dtor"
     THEN /\ row' = [row EXCEPT ![t][p.key] = 0]
          /\ stored' = stored \ {row[t][p.key]}
          /\ twice' = (twice \/ row[t][p.key] \notin stored)
     ELSE UNCHANGED <<row, stored, twice>>
  /\ UNCHANGED <<used, dtor>>

ThreadEnds(t) == pass[t].at = "run" /\ \E p \in Onward(t, 0, 1, FALSE) : CallDtor(t, p)

DtorReturns(t) ==
  /\ pass[t].at = "dtor"
  /\ \E p \in Onward(t, pass[t].iter, pass[t].key + 1, pass[t].any) : CallDtor(t, p)

TssNext ==
  \E t \in TThreads :
    \/ ThreadEnds(t) \/ DtorReturns(t)
    \/ \E withDtor \in BOOLEAN : TssCreate(t, withDtor)
    \/ \E k \in Keys : TssDelete(t, k) \/ TssClear(t, k) \/ \E v \in Objects : TssSet(t, k, v)

TssSpec == TssInit /\ [][TssNext]_tssVars

-----------------------------------------------------------------------------
(* Properties.                                                             *)

\* No object goes to a destructor twice, whatever destructors store, delete or create and
\* whichever threads run meanwhile; and one that went there is in no row any more.
DestroyedOnce ==
  ~twice /\ \A t \in TThreads, k \in Keys : row[t][k] \in stored \cup {0}

=============================================================================
