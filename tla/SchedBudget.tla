---------------------------- MODULE SchedBudget ----------------------------
(***************************************************************************)
(* The instruction accounting of emu/sched.c: proc_slice gives a process a *)
(* batch of at most a quantum, shrunk to its own budget and to the run's   *)
(* limit, and charges what it retired to both.  Parking and the table are  *)
(* the business of Sched; here a process is live until it stops, and a     *)
(* slice that parks is one that ends early.                                *)
(***************************************************************************)
EXTENDS Naturals

CONSTANTS
  MaxProc,     \* number of slots; the root is in slot 0
  Quantum,     \* SKJ_QUANTUM
  MaxInsns,    \* run_opts.max_insns, 0 for no limit
  ChildMax,    \* run_opts.child_max_insns, 0 for no budget
  Word         \* 2^64, the modulus of the counters

ASSUME BudgetAssumption ==
  /\ MaxProc \in Nat \ {0}
  /\ Quantum \in Nat \ {0} /\ MaxInsns \in Nat /\ ChildMax \in Nat
  /\ Word \in Nat
  /\ Quantum < Word /\ MaxInsns < Word /\ ChildMax < Word

Procs == 0 .. MaxProc - 1

VARIABLES
  status,      \* "none", "live" or "done", by slot
  insns,       \* proc.insns
  total,       \* sched.insns
  limited,     \* sched.limited
  i,           \* the slot sched_step looks at next
  over         \* sched_run has returned

vars == <<status, insns, total, limited, i, over>>

\* uint64_t arithmetic.
Plus(a, b) == (a + b) % Word
Minus(a, b) == ((a + Word) - b) % Word

\* proc.insn_budget: the root runs without one.
insn_budget(p) == IF p = 0 THEN 0 ELSE ChildMax

Init ==
  /\ status = [p \in Procs |-> IF p = 0 THEN "live" ELSE "none"]
  /\ insns = [p \in Procs |-> 0]
  /\ total = 0
  /\ limited = FALSE
  /\ i = 0
  /\ over = FALSE

\* A batch shrunk to what is left of a limit, if there is one.
Shrunk(batch, limit, used) ==
  IF limit # 0 /\ Minus(limit, used) < batch THEN Minus(limit, used) ELSE batch

\* Mutant of Budget: a process' own budget does not shrink the batch.
MutBudget(p) ==
  LET b == Shrunk(Quantum, MaxInsns, total) IN IF b = 0 THEN 1 ELSE b

Budget(p) ==
  LET b == Shrunk(Shrunk(Quantum, insn_budget(p), insns[p]), MaxInsns, total)
  IN  IF b = 0 THEN 1 ELSE b

OverOwn(p) == insn_budget(p) # 0 /\ insns'[p] >= insn_budget(p)

\* Mutant of OverLimit: only the exact hit counts.
MutOverLimit == MaxInsns # 0 /\ total' = MaxInsns

OverLimit == MaxInsns # 0 /\ total' >= MaxInsns

\* The slot a spawn takes: the lowest one never used (reuse is in Sched).
FreeSlots == {c \in Procs : status[c] = "none" /\ \A q \in 0 .. c - 1 : status[q] # "none"}

\* What a slice makes of its process: a fault, a trap or an exit ends it, then
\* its own budget is looked at, then the limit of the run.  The children it
\* spawned start live, and the children it killed are done.
SliceEnds(p, stops, kids, killed) ==
  /\ status' = [q \in Procs |->
       IF q = p THEN IF stops \/ OverOwn(p) \/ OverLimit THEN "done" ELSE "live"
       ELSE IF q \in killed THEN "done"
       ELSE IF q \in kids THEN "live" ELSE status[q]]
  /\ limited' = (~stops /\ ~OverOwn(p) /\ OverLimit)

\* Mutant of Slice: the instructions are charged to the process alone.
MutSlice(p, ran, stops, kids, killed) ==
  /\ ~over
  /\ p >= i /\ status[p] = "live"
  /\ \A q \in i .. p - 1 : status[q] # "live"
  /\ ran <= Budget(p)
  /\ ran = 0 => stops /\ kids = {} /\ killed = {}
  /\ \A q \in killed : q \in kids \/ status[q] = "live"
  /\ insns' = [insns EXCEPT ![p] = Plus(@, ran)]
  /\ total' = total
  /\ SliceEnds(p, stops, kids, killed)
  /\ i' = p + 1
  /\ over' = limited'

\* proc_slice, and what sched_step does after it.  A CPU that is halted
\* before it starts retires nothing.
Slice(p, ran, stops, kids, killed) ==
  /\ ~over
  /\ p >= i /\ status[p] = "live"
  /\ \A q \in i .. p - 1 : status[q] # "live"
  /\ ran <= Budget(p)
  /\ ran = 0 => stops /\ kids = {} /\ killed = {}
  /\ \A q \in killed : q \in kids \/ status[q] = "live"
  /\ insns' = [insns EXCEPT ![p] = Plus(@, ran)]
  /\ total' = Plus(total, ran)
  /\ SliceEnds(p, stops, kids, killed)
  /\ i' = p + 1
  /\ over' = limited'

Slices ==
  \E p \in Procs, ran \in 0 .. Quantum, stops \in BOOLEAN,
     kids \in {{}} \cup {{c} : c \in FreeSlots} :
       \E killed \in SUBSET (Procs \ {0, p}) : Slice(p, ran, stops, kids, killed)

\* The round is over; sched_run goes on while somebody is live.
EndRound ==
  /\ ~over
  /\ \A q \in Procs : q >= i => status[q] # "live"
  /\ i' = 0
  /\ over' = (\A q \in Procs : status[q] # "live")
  /\ UNCHANGED <<status, insns, total, limited>>

Ended == over /\ UNCHANGED vars

Next == Slices \/ EndRound \/ Ended

Spec == Init /\ [][Next]_vars

\* The host thread goes on with the round; a slice always comes to an end.
FairSpec == Spec /\ WF_vars(Slices) /\ WF_vars(EndRound)
-----------------------------------------------------------------------------
\* The counters stay within a word and the cursor within the table.
TypeOK ==
  /\ status \in [Procs -> {"none", "live", "done"}]
  /\ insns \in [Procs -> 0 .. Word - 1]
  /\ total \in 0 .. Word - 1
  /\ limited \in BOOLEAN
  /\ i \in 0 .. MaxProc
  /\ over \in BOOLEAN

\* A spawned child never retires an instruction more than its budget, and one
\* that is still live has at least one left: the subtraction in proc_slice
\* cannot wrap round for it.
OwnBudgetKept ==
  \A p \in Procs \ {0} :
    ChildMax # 0 => /\ insns[p] <= ChildMax
                    /\ status[p] = "live" => insns[p] < ChildMax

\* Once the run has used up its limit nobody survives a slice: the process
\* on the CPU ends, even where the remaining count has wrapped round and the
\* batch is a full quantum again.
NobodyOutlivesLimit ==
  [][\A p \in Procs :
       /\ MaxInsns # 0 /\ total >= MaxInsns
       /\ status[p] = "live" /\ insns'[p] # insns[p]
       => status'[p] = "done"]_vars

\* A run with a limit comes to an end, whatever its processes do, as long as
\* none of them is parked for good.
LimitEndsRun == MaxInsns # 0 => <>over

\* The limit of the run is met exactly, as proc_slice says of its batches.
LimitMetExactly == MaxInsns # 0 => total <= MaxInsns
=============================================================================
