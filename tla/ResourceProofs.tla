--------------------------- MODULE ResourceProofs ---------------------------
(***************************************************************************)
(* What the parts of a run may use up: that no spawned child outruns its   *)
(* instruction budget (SchedBudget), and that the paged memory of the      *)
(* guests charges what it commits and looks up what it mapped (GuestMem).  *)
(***************************************************************************)
EXTENDS SchedBudget, GuestMem, FiniteSetTheorems, TLAPS

(***************************************************************************)
(* Instructions.                                                           *)
(***************************************************************************)

USE BudgetAssumption

\* OwnBudgetKept is inductive once a slot that was never used has a clean
\* account, which is what a child born in it starts with.
CleanSlots == \A p \in Procs : status[p] = "none" => insns[p] = 0

BInv == TypeOK /\ OwnBudgetKept /\ CleanSlots

LEMMA MinusExact ==
  ASSUME NEW a \in 0 .. Word - 1, NEW b \in Nat, b <= a
  PROVE  Minus(a, b) = a - b
<1>1. (a + Word) - b = (a - b) + Word /\ a - b \in 0 .. Word - 1
  OBVIOUS
<1>2. ((a - b) + Word) % Word = a - b
  BY <1>1
<1> QED BY Zenon, <1>1, <1>2 DEF Minus

LEMMA MinusType ==
  ASSUME NEW a \in 0 .. Word - 1, NEW b \in 0 .. Word - 1
  PROVE  Minus(a, b) \in 0 .. Word - 1
<1>1. (a + Word) - b \in Nat /\ Word \in Nat \ {0}
  OBVIOUS
<1> QED BY <1>1 DEF Minus

LEMMA PlusType ==
  ASSUME NEW a \in Nat, NEW b \in Nat
  PROVE  Plus(a, b) \in 0 .. Word - 1
<1>1. a + b \in Nat /\ Word \in Nat \ {0}
  OBVIOUS
<1> QED BY <1>1 DEF Plus

LEMMA PlusExact ==
  ASSUME NEW a \in Nat, NEW b \in Nat, a + b < Word
  PROVE  Plus(a, b) = a + b
BY DEF Plus

\* The batch of a live child fits into what is left of its budget.
LEMMA BatchFits ==
  ASSUME BInv, NEW p \in Procs \ {0}, ChildMax # 0, status[p] = "live"
  PROVE  Budget(p) \in Nat /\ insns[p] + Budget(p) <= ChildMax
<1> DEFINE own == Shrunk(Quantum, insn_budget(p), insns[p])
           all == Shrunk(own, MaxInsns, total)
<1>1. insns[p] \in Nat /\ insns[p] < ChildMax /\ insn_budget(p) = ChildMax
  BY DEF BInv, TypeOK, OwnBudgetKept, insn_budget
<1>2. Minus(insn_budget(p), insns[p]) = ChildMax - insns[p]
  BY <1>1, MinusExact
<1>3. own \in Nat /\ own <= ChildMax - insns[p]
  <2> DEFINE left == ChildMax - insns[p]
  <2>1. left \in Nat
    BY <1>1
  <2>2. own = IF ChildMax # 0 /\ left < Quantum THEN left ELSE Quantum
    BY Zenon, <1>1, <1>2 DEF Shrunk
  <2> HIDE DEF left, own
  <2>3. own \in Nat /\ own <= left
    BY <2>1, <2>2
  <2> QED BY Zenon, <2>3 DEF left
<1>4. total \in 0 .. Word - 1 /\ MaxInsns \in 0 .. Word - 1
  BY DEF BInv, TypeOK
<1>5. Minus(MaxInsns, total) \in Nat
  <2>1. Minus(MaxInsns, total) \in 0 .. Word - 1
    BY Zenon, <1>4, MinusType
  <2> QED BY <2>1
<1> HIDE DEF own
<1>6. all \in Nat /\ all <= own
  BY <1>3, <1>5 DEF Shrunk
<1>7. Budget(p) = IF all = 0 THEN 1 ELSE all
  BY Zenon DEF Budget, own
<1> HIDE DEF all
<1> QED BY <1>1, <1>3, <1>6, <1>7

LEMMA BudgetStep == BInv /\ [Next]_vars => BInv'
<1> SUFFICES ASSUME BInv, [Next]_vars PROVE BInv'
  BY Zenon
<1>1. CASE Slices
  <2>1. PICK p \in Procs, ran \in 0 .. Quantum, stops \in BOOLEAN,
             kids \in {{}} \cup {{c} : c \in FreeSlots} :
               \E killed \in SUBSET (Procs \ {0, p}) : Slice(p, ran, stops, kids, killed)
    BY Zenon, <1>1 DEF Slices
  <2>2. \A c \in kids : c \in Procs /\ status[c] = "none"
    BY DEF FreeSlots
  <2>3. insns \in [Procs -> 0 .. Word - 1] /\ total \in 0 .. Word - 1
    BY Zenon DEF BInv, TypeOK
  <2>4. insns' = [insns EXCEPT ![p] = Plus(insns[p], ran)] /\ total' = Plus(total, ran)
    BY Zenon, <2>1 DEF Slice
  <2>5. Plus(insns[p], ran) \in 0 .. Word - 1 /\ Plus(total, ran) \in 0 .. Word - 1
    BY SMTT(30), <2>3, PlusType
  <2>6. insns' \in [Procs -> 0 .. Word - 1] /\ total' \in 0 .. Word - 1
    BY Zenon, <2>3, <2>4, <2>5
  <2>7. status' \in [Procs -> {"none", "live", "done"}]
    BY Zenon, <2>1 DEF Slice, SliceEnds, BInv, TypeOK
  <2>8. limited' \in BOOLEAN /\ over' \in BOOLEAN
    <3>1. limited' \in BOOLEAN
      BY Zenon, <2>1 DEF Slice, SliceEnds
    <3>2. over' = limited'
      BY Zenon, <2>1 DEF Slice
    <3> QED BY Zenon, <3>1, <3>2
  <2>9. i' \in 0 .. MaxProc
    BY <2>1 DEF Slice, Procs
  <2>10. ASSUME NEW q \in Procs \ {0}, ChildMax # 0
         PROVE  insns'[q] <= ChildMax /\ (status'[q] = "live" => insns'[q] < ChildMax)
    <3>1. CASE q = p
      <4>1. Budget(p) \in Nat /\ insns[p] + Budget(p) <= ChildMax /\ ran <= Budget(p)
        BY Zenon, <2>1, <2>10, <3>1, BatchFits DEF Slice
      <4>2. insns[p] + ran <= ChildMax /\ insns[p] \in Nat
        BY <2>3, <4>1
      <4>3. insns'[p] = insns[p] + ran
        BY <2>3, <2>4, <4>2, PlusExact
      <4>4. status'[p] = "live" => ~OverOwn(p)
        BY Zenon, <2>1 DEF Slice, SliceEnds
      <4>5. status'[p] = "live" => insns'[p] < ChildMax
        BY <2>10, <3>1, <4>2, <4>3, <4>4 DEF OverOwn, insn_budget
      <4> QED BY Zenon, <3>1, <4>2, <4>3, <4>5
    <3>2. CASE q # p
      <4>1. insns'[q] = insns[q]
        BY Zenon, <2>3, <2>4, <3>2
      <4>2. status'[q] = "live" => status[q] = "live" \/ q \in kids
        BY Zenon, <2>1, <3>2 DEF Slice, SliceEnds
      <4>3. q \in kids => insns[q] = 0
        BY Zenon, <2>2 DEF BInv, CleanSlots
      <4> QED BY <2>10, <4>1, <4>2, <4>3 DEF BInv, OwnBudgetKept
    <3> QED BY Zenon, <3>1, <3>2
  <2>11. ASSUME NEW q \in Procs, status'[q] = "none" PROVE insns'[q] = 0
    <3>1. q # p /\ status[q] = "none"
      BY Zenon, <2>1, <2>11 DEF Slice, SliceEnds
    <3> QED BY Zenon, <2>3, <2>4, <3>1 DEF BInv, CleanSlots
  <2> QED BY Zenon, <2>6, <2>7, <2>8, <2>9, <2>10, <2>11 DEF BInv, TypeOK, OwnBudgetKept, CleanSlots
<1>2. CASE EndRound
  <2>1. over' \in BOOLEAN
    BY Zenon, <1>2 DEF EndRound
  <2> QED BY <1>2, <2>1 DEF EndRound, BInv, TypeOK, OwnBudgetKept, CleanSlots
<1>3. CASE UNCHANGED vars
  BY Zenon, <1>3 DEF vars, BInv, TypeOK, OwnBudgetKept, CleanSlots
<1> QED BY Zenon, <1>1, <1>2, <1>3 DEF Next, Ended

LEMMA BudgetStart == Init => BInv
<1> SUFFICES ASSUME Init PROVE BInv
  BY Zenon
<1>1. limited \in BOOLEAN /\ over \in BOOLEAN
  BY Zenon DEF Init
<1> QED BY <1>1 DEF Init, BInv, TypeOK, OwnBudgetKept, CleanSlots, Procs

\* A spawned child never retires more than its budget, and while it lives it
\* has room left, whatever the quantum, the limit of the run and the other
\* processes (proc_slice).
THEOREM ChildWithinBudget == Spec => [](TypeOK /\ OwnBudgetKept)
<1>1. Init => BInv
  BY Zenon, BudgetStart
<1>2. BInv /\ [Next]_vars => BInv'
  BY Zenon, BudgetStep
<1>3. BInv => TypeOK /\ OwnBudgetKept
  BY Zenon DEF BInv
<1> QED BY <1>1, <1>2, <1>3, PTL DEF Spec

\* Beyond the limit of the run every slice ends a process, so that the count is at most a
\* quantum per process that is done above it.
DoneSlots == {p \in Procs : status[p] = "done"}
LimitInv == BInv /\ (MaxInsns # 0 => total <= MaxInsns + Quantum * Cardinality(DoneSlots))

LEMMA DoneCount ==
  ASSUME NEW S \in SUBSET Procs
  PROVE  IsFiniteSet(S) /\ Cardinality(S) \in Nat /\ Cardinality(S) <= MaxProc
<1>1. IsFiniteSet(Procs) /\ Cardinality(Procs) = MaxProc
  BY FS_Interval DEF Procs
<1> QED BY Zenon, <1>1, FS_Subset, FS_CardinalityType

LEMMA QuantumTimes ==
  ASSUME NEW c \in Nat, NEW d \in Nat, c + 1 <= d
  PROVE  Quantum * c + Quantum <= Quantum * d /\ Quantum * c \in Nat /\ Quantum * d \in Nat
<1>1. PICK e \in Nat : d = c + 1 + e
  <2>1. d - (c + 1) \in Nat /\ d = c + 1 + (d - (c + 1))
    OBVIOUS
  <2> QED BY Zenon, <2>1
<1>2. Quantum * d = Quantum * c + Quantum + Quantum * e
  BY <1>1
<1>3. Quantum * c \in Nat /\ Quantum * d \in Nat /\ Quantum * e \in Nat
  OBVIOUS
<1> QED BY <1>2, <1>3

\* A batch is at most a quantum, and below the limit at most what is left of it.
LEMMA BatchOfRun ==
  ASSUME BInv, NEW p \in Procs
  PROVE  /\ Budget(p) \in Nat /\ Budget(p) <= Quantum
         /\ MaxInsns # 0 /\ total < MaxInsns => Budget(p) <= MaxInsns - total
<1> DEFINE own == Shrunk(Quantum, insn_budget(p), insns[p])
           all == Shrunk(own, MaxInsns, total)
<1>1. total \in 0 .. Word - 1 /\ insns[p] \in 0 .. Word - 1 /\ insn_budget(p) \in 0 .. Word - 1
  BY DEF BInv, TypeOK, insn_budget
<1>2. Minus(insn_budget(p), insns[p]) \in 0 .. Word - 1
  BY Zenon, <1>1, MinusType
<1>3. MaxInsns \in 0 .. Word - 1
  OBVIOUS
<1>4. Minus(MaxInsns, total) \in 0 .. Word - 1
  BY Zenon, <1>1, <1>3, MinusType
<1>5. total < MaxInsns => Minus(MaxInsns, total) = MaxInsns - total
  BY <1>1, <1>3, MinusExact
<1>6. own \in Nat /\ own <= Quantum
  BY <1>2 DEF Shrunk
<1> HIDE DEF own
<1>7. all \in Nat /\ all <= Quantum /\ (MaxInsns # 0 => all <= Minus(MaxInsns, total) \/ all = own)
  BY <1>4, <1>6 DEF Shrunk
<1>8. MaxInsns # 0 => all <= Minus(MaxInsns, total)
  BY <1>4, <1>6 DEF Shrunk
<1>9. Budget(p) = IF all = 0 THEN 1 ELSE all
  BY Zenon DEF Budget, own
<1> HIDE DEF all
<1> QED BY <1>1, <1>5, <1>7, <1>8, <1>9

\* A slice above the limit ends its process, as long as the counter does not wrap round.
LEMMA SliceOverLimit ==
  ASSUME MaxInsns + Quantum * MaxProc < Word, LimitInv, MaxInsns # 0,
         NEW p \in Procs, NEW ran \in 0 .. Quantum, NEW stops \in BOOLEAN, NEW kids, NEW killed,
         \A c \in kids : c \in Procs /\ status[c] = "none",
         Slice(p, ran, stops, kids, killed)
  PROVE  /\ total' = total + ran
         /\ total >= MaxInsns => status'[p] = "done" /\ Cardinality(DoneSlots') >= Cardinality(DoneSlots) + 1
         /\ total < MaxInsns => total' <= MaxInsns
         /\ Cardinality(DoneSlots') \in Nat /\ Cardinality(DoneSlots) \in Nat
<1>1. /\ total \in Nat /\ total < Word /\ ran \in Nat /\ ran <= Quantum /\ ran <= Budget(p)
      /\ total' = Plus(total, ran) /\ status[p] = "live" /\ p \notin DoneSlots
  BY DEF LimitInv, BInv, TypeOK, Slice, DoneSlots
<1>2. /\ Budget(p) \in Nat /\ Budget(p) <= Quantum
      /\ total < MaxInsns => Budget(p) <= MaxInsns - total
  BY Zenon, BatchOfRun DEF LimitInv
<1>3. DoneSlots \in SUBSET Procs /\ DoneSlots' \in SUBSET Procs /\ DoneSlots \cup {p} \in SUBSET Procs
  BY Zenon DEF DoneSlots
<1>4. /\ IsFiniteSet(DoneSlots) /\ Cardinality(DoneSlots) \in Nat
      /\ IsFiniteSet(DoneSlots') /\ Cardinality(DoneSlots') \in Nat
      /\ Cardinality(DoneSlots \cup {p}) <= MaxProc
  BY Zenon, <1>3, DoneCount
<1>5. Cardinality(DoneSlots \cup {p}) = Cardinality(DoneSlots) + 1
  BY Zenon, <1>1, <1>4, FS_AddElement
<1>6. Quantum * Cardinality(DoneSlots) + Quantum <= Quantum * MaxProc
      /\ Quantum * Cardinality(DoneSlots) \in Nat /\ Quantum * MaxProc \in Nat
  BY Zenon, <1>4, <1>5, QuantumTimes
<1>7. total <= MaxInsns + Quantum * Cardinality(DoneSlots)
  BY Zenon DEF LimitInv
<1>8. total + ran < Word
  <2> DEFINE a == Quantum * Cardinality(DoneSlots)
             b == Quantum * MaxProc
  <2>1. a \in Nat /\ b \in Nat /\ a + Quantum <= b /\ MaxInsns + b < Word /\ total <= MaxInsns + a
    BY Zenon, <1>6, <1>7
  <2> HIDE DEF a, b
  <2> QED BY <1>1, <2>1
<1>9. total' = total + ran
  BY Zenon, <1>1, <1>8, PlusExact
<1>10. ASSUME total >= MaxInsns
       PROVE  status'[p] = "done" /\ Cardinality(DoneSlots') >= Cardinality(DoneSlots) + 1
  <2>1. OverLimit
    BY <1>1, <1>9, <1>10 DEF OverLimit
  <2>2. status' = [q \in Procs |->
          IF q = p THEN IF stops \/ OverOwn(p) \/ OverLimit THEN "done" ELSE "live"
          ELSE IF q \in killed THEN "done"
          ELSE IF q \in kids THEN "live" ELSE status[q]]
    BY Zenon DEF Slice, SliceEnds
  <2>3. status'[p] = "done"
    BY Zenon, <2>1, <2>2
  <2>4. ASSUME NEW q \in DoneSlots PROVE q \in DoneSlots'
    <3>1. q \in Procs /\ status[q] = "done" /\ q \notin kids /\ q # p
      BY Zenon, <1>1 DEF DoneSlots
    <3>2. status'[q] = "done"
      BY Zenon, <2>2, <3>1
    <3> QED BY Zenon, <3>1, <3>2 DEF DoneSlots
  <2>5. DoneSlots \cup {p} \in SUBSET DoneSlots'
    BY Zenon, <2>3, <2>4 DEF DoneSlots
  <2>6. Cardinality(DoneSlots \cup {p}) <= Cardinality(DoneSlots')
    BY Zenon, <1>4, <2>5, FS_Subset
  <2> QED BY Zenon, <1>4, <1>5, <2>3, <2>6
<1> QED BY <1>1, <1>2, <1>4, <1>9, <1>10

LEMMA LimitStep ==
  ASSUME MaxInsns + Quantum * MaxProc < Word, LimitInv, [Next]_vars
  PROVE  LimitInv'
<1>1. BInv'
  BY Zenon, BudgetStep DEF LimitInv
<1>2. ASSUME MaxInsns # 0 PROVE total' <= MaxInsns + Quantum * Cardinality(DoneSlots')
  <2>1. CASE Slices
    <3>1. PICK p \in Procs, ran \in 0 .. Quantum, stops \in BOOLEAN,
               kids \in {{}} \cup {{c} : c \in FreeSlots} :
                 \E killed \in SUBSET (Procs \ {0, p}) : Slice(p, ran, stops, kids, killed)
      BY Zenon, <2>1 DEF Slices
    <3>2. PICK killed : Slice(p, ran, stops, kids, killed)
      BY Zenon, <3>1
    <3>3. \A c \in kids : c \in Procs /\ status[c] = "none"
      BY DEF FreeSlots
    <3>4. /\ total' = total + ran
          /\ total >= MaxInsns => Cardinality(DoneSlots') >= Cardinality(DoneSlots) + 1
          /\ total < MaxInsns => total' <= MaxInsns
          /\ Cardinality(DoneSlots') \in Nat /\ Cardinality(DoneSlots) \in Nat
      BY Zenon, <1>2, <3>2, <3>3, SliceOverLimit
    <3> DEFINE c == Cardinality(DoneSlots)
               d == Cardinality(DoneSlots')
    <3>5. total \in Nat /\ total <= MaxInsns + Quantum * c /\ Quantum * d \in Nat
      BY <1>2, <3>4 DEF LimitInv, BInv, TypeOK
    <3> HIDE DEF c, d
    <3>6. CASE total >= MaxInsns
      <4>1. c \in Nat /\ d \in Nat /\ c + 1 <= d
        BY Zenon, <3>4, <3>6 DEF c, d
      <4>2. Quantum * c + Quantum <= Quantum * d /\ Quantum * c \in Nat
        BY Zenon, <4>1, QuantumTimes
      <4>3. total' <= MaxInsns + Quantum * d
        BY <3>4, <3>5, <4>2
      <4> QED BY Zenon, <4>3 DEF d
    <3>7. CASE total < MaxInsns
      BY <3>4, <3>5, <3>7 DEF d
    <3> QED BY <3>5, <3>6, <3>7
  <2>2. CASE EndRound \/ UNCHANGED vars
    <3>1. status' = status /\ total' = total
      BY Zenon, <2>2 DEF EndRound, vars
    <3>2. DoneSlots' = DoneSlots
      BY Zenon, <3>1 DEF DoneSlots
    <3> QED BY Zenon, <1>2, <3>1, <3>2 DEF LimitInv
  <2> QED BY Zenon, <2>1, <2>2 DEF Next, Ended
<1> QED BY Zenon, <1>1, <1>2 DEF LimitInv

\* Above the limit of the run every slice ends the process it is given to, if the counter
\* has room for a quantum per process above the limit; without that room it wraps round and
\* proc_slice takes the run to be below its limit again.
THEOREM LimitIsFinal ==
  ASSUME MaxInsns + Quantum * MaxProc < Word
  PROVE  Spec => NobodyOutlivesLimit
<1>1. Init => LimitInv
  <2> SUFFICES ASSUME Init PROVE LimitInv
    BY Zenon
  <2>1. BInv
    BY Zenon, BudgetStart
  <2>2. DoneSlots \in SUBSET Procs /\ total = 0
    BY Zenon DEF DoneSlots, Init
  <2>3. Cardinality(DoneSlots) \in Nat
    BY Zenon, <2>2, DoneCount
  <2>4. Quantum * Cardinality(DoneSlots) \in Nat
    BY <2>3
  <2> QED BY <2>1, <2>2, <2>4 DEF LimitInv
<1>2. LimitInv /\ [Next]_vars => LimitInv'
  BY Zenon, LimitStep
<1>3. LimitInv /\ [Next]_vars =>
        [\A p \in Procs : /\ MaxInsns # 0 /\ total >= MaxInsns
                          /\ status[p] = "live" /\ insns'[p] # insns[p]
                          => status'[p] = "done"]_vars
  <2> SUFFICES ASSUME LimitInv, [Next]_vars, NEW p \in Procs, MaxInsns # 0, total >= MaxInsns,
                      status[p] = "live", insns'[p] # insns[p]
               PROVE  status'[p] = "done"
    BY Zenon
  <2>1. Slices
    BY Zenon DEF Next, Ended, EndRound, vars
  <2>2. PICK q \in Procs, ran \in 0 .. Quantum, stops \in BOOLEAN,
             kids \in {{}} \cup {{c} : c \in FreeSlots} :
               \E killed \in SUBSET (Procs \ {0, q}) : Slice(q, ran, stops, kids, killed)
    BY Zenon, <2>1 DEF Slices
  <2>3. PICK killed : Slice(q, ran, stops, kids, killed)
    BY Zenon, <2>2
  <2>4. \A c \in kids : c \in Procs /\ status[c] = "none"
    BY DEF FreeSlots
  <2>5. q = p
    BY Zenon, <2>3 DEF Slice, LimitInv, BInv, TypeOK
  <2>6. total >= MaxInsns => status'[q] = "done"
    BY Zenon, <2>3, <2>4, SliceOverLimit
  <2> QED BY Zenon, <2>5, <2>6
<1> QED BY <1>1, <1>2, <1>3, PTL DEF Spec, NobodyOutlivesLimit

(***************************************************************************)
(* Memory: the region table of one guest.                                  *)
(***************************************************************************)

HIDE BudgetAssumption

RegionType == [base : Nat, size : Nat, prot : {"none", "ro", "rw"}]
MemType ==
  [regions : [RegionSlots -> RegionType], nregions : Nat, last : Nat, next : Nat,
   dir : SUBSET Pages, wdir : SUBSET Pages, committed : Nat,
   loading : BOOLEAN, fault : BOOLEAN, live : BOOLEAN]

Ends(r) == r.base + r.size

\* The table is in the order of the addresses and below the cursor, and a guard is one
\* page right below a writable mapping.
Layout(m) ==
  /\ m.nregions <= MaxRegions /\ m.last <= m.nregions
  /\ Cursor(m) < Top
  /\ \A k \in 1 .. m.nregions : m.regions[k].size >= 1 /\ Ends(m.regions[k]) <= Cursor(m)
  /\ \A k, l \in 1 .. m.nregions : k < l => Ends(m.regions[k]) <= m.regions[l].base
  /\ \A k \in 1 .. m.nregions : m.regions[k].prot = "none" =>
       /\ m.regions[k].size = 1 /\ k < m.nregions
       /\ m.regions[k+1].prot = "rw" /\ m.regions[k+1].base = m.regions[k].base + 1

\* Every committed page is in a region that may be read, every cached one in one that
\* may be written.
Covered(m) ==
  /\ m.wdir \subseteq m.dir
  /\ \A a \in m.dir : \E k \in 1 .. m.nregions :
       /\ Within(m.regions[k], a) /\ m.regions[k].prot # "none"
       /\ a \in m.wdir => m.regions[k].prot = "rw"

LEMMA RegionFields ==
  ASSUME NEW m \in MemType, m.nregions <= MaxRegions, NEW k \in 1 .. m.nregions
  PROVE  /\ k \in RegionSlots /\ m.nregions \in Nat
         /\ m.regions[k] \in RegionType
         /\ m.regions[k].base \in Nat /\ m.regions[k].size \in Nat
<1>1. k \in RegionSlots /\ m.nregions \in Nat
  BY MemAssumption DEF MemType, RegionSlots
<1>2. m.regions[k] \in RegionType
  BY Zenon, <1>1 DEF MemType
<1> QED BY Zenon, <1>1, <1>2 DEF RegionType

\* At most one region has a page, so a scan finds that one.
LEMMA ScanIs ==
  ASSUME NEW m \in MemType, Layout(m), NEW a \in Pages,
         NEW k \in 1 .. m.nregions, Within(m.regions[k], a)
  PROVE  Scan(m, a) = k
<1>1. ASSUME NEW l \in 1 .. m.nregions, Within(m.regions[l], a) PROVE l = k
  <2>1. /\ m.regions[k].base \in Nat /\ m.regions[k].size \in Nat /\ k \in Nat
        /\ m.regions[l].base \in Nat /\ m.regions[l].size \in Nat /\ l \in Nat
        /\ a \in Nat
    BY MemAssumption, RegionFields DEF Layout, Pages
  <2>2. k < l => Ends(m.regions[k]) <= m.regions[l].base
    BY Zenon DEF Layout
  <2>3. l < k => Ends(m.regions[l]) <= m.regions[k].base
    BY Zenon DEF Layout
  <2> QED BY <1>1, <2>1, <2>2, <2>3 DEF Within, Ends
<1>2. {j \in 1 .. m.nregions : Within(m.regions[j], a)} = {k}
  BY Zenon, <1>1
<1>3. Min({k}) = k
  BY DEF Min
<1> QED BY Zenon, <1>2, <1>3 DEF Scan

LEMMA ScanFinds ==
  ASSUME NEW m \in MemType, Layout(m), NEW a \in Pages, Scan(m, a) # 0
  PROVE  Scan(m, a) \in 1 .. m.nregions /\ Within(m.regions[Scan(m, a)], a)
<1>1. PICK k \in 1 .. m.nregions : Within(m.regions[k], a)
  BY Zenon DEF Scan
<1>2. Scan(m, a) = k
  BY Zenon, <1>1, ScanIs
<1> QED BY Zenon, <1>1, <1>2

\* The cached lookup changes no answer.
LEMMA LookupAgrees ==
  ASSUME NEW m \in MemType, Layout(m), NEW a \in Pages
  PROVE  RegionOf(m, a) = Scan(m, a)
<1>1. CASE m.last # 0 /\ Within(m.regions[m.last], a)
  <2>1. m.last \in 1 .. m.nregions
    BY <1>1 DEF Layout, MemType
  <2>2. Scan(m, a) = m.last
    BY Zenon, <1>1, <2>1, ScanIs
  <2> QED BY Zenon, <1>1, <2>2 DEF RegionOf
<1>2. CASE ~(m.last # 0 /\ Within(m.regions[m.last], a))
  BY Zenon, <1>2 DEF RegionOf
<1> QED BY Zenon, <1>1, <1>2

\* Nothing but the cached lookup and the pages differs.
LEMMA SameTable ==
  ASSUME NEW m \in MemType, Layout(m), NEW w,
         w.regions = m.regions, w.nregions = m.nregions, w.next = m.next,
         w.last <= m.nregions
  PROVE  Layout(w)
BY Zenon DEF Layout, Cursor

\* A guest that goes on in w where it was in m.
Goes(m, w) == w \in MemType /\ Layout(w) /\ Covered(w) /\ w.live = m.live

LEMMA LookedUp ==
  ASSUME NEW m \in MemType, Layout(m), NEW a \in Pages
  PROVE  LET w == Remember(m, RegionOf(m, a))
         IN  /\ w \in MemType /\ Layout(w)
             /\ w.dir = m.dir /\ w.wdir = m.wdir /\ w.committed = m.committed
             /\ w.regions = m.regions /\ w.nregions = m.nregions /\ w.live = m.live
<1> DEFINE s == RegionOf(m, a)
<1>1. s = 0 \/ s \in 1 .. m.nregions
  BY Zenon, LookupAgrees, ScanFinds
<1> HIDE DEF s
<1>2. CASE s = 0
  BY Zenon, <1>2 DEF Remember, s
<1>3. CASE s \in 1 .. m.nregions /\ s # 0
  <2> DEFINE w == [m EXCEPT !.last = s]
  <2>1. s \in Nat /\ s <= m.nregions
    BY <1>3 DEF MemType
  <2>2. w \in MemType
    BY Zenon, <2>1 DEF MemType
  <2>3. /\ w.regions = m.regions /\ w.nregions = m.nregions /\ w.next = m.next
        /\ w.last = s /\ w.live = m.live /\ w.dir = m.dir /\ w.wdir = m.wdir /\ w.committed = m.committed
    BY Zenon DEF MemType
  <2>4. Layout(w)
    BY Zenon, <2>1, <2>3, SameTable
  <2>5. Remember(m, s) = w
    BY Zenon, <1>3 DEF Remember
  <2> QED BY Zenon, <2>2, <2>3, <2>4, <2>5 DEF s
<1> QED BY Zenon, <1>1, <1>2, <1>3 DEF MemType

LEMMA FaultKeeps ==
  ASSUME NEW m \in MemType, Layout(m), Covered(m), NEW a \in Pages
  PROVE  LET w == [Remember(m, RegionOf(m, a)) EXCEPT !.fault = TRUE]
         IN  Goes(m, w) /\ w.dir = m.dir /\ w.committed = m.committed
<1> DEFINE r == Remember(m, RegionOf(m, a))
           w == [r EXCEPT !.fault = TRUE]
<1>1. /\ r \in MemType /\ Layout(r)
      /\ r.dir = m.dir /\ r.wdir = m.wdir /\ r.committed = m.committed
      /\ r.regions = m.regions /\ r.nregions = m.nregions /\ r.live = m.live
  BY Zenon, LookedUp
<1> HIDE DEF r
<1>2. /\ w \in MemType
      /\ w.regions = r.regions /\ w.nregions = r.nregions /\ w.next = r.next /\ w.last = r.last
      /\ w.dir = r.dir /\ w.wdir = r.wdir /\ w.committed = r.committed /\ w.live = r.live
  BY Zenon, <1>1 DEF MemType
<1> HIDE DEF w
<1>3. Layout(w)
  <2>1. w.last <= r.nregions
    BY Zenon, <1>1, <1>2 DEF Layout
  <2> QED BY Zenon, <1>1, <1>2, <2>1, SameTable
<1>4. Covered(w)
  BY <1>1, <1>2 DEF Covered
<1> QED BY Zenon, <1>1, <1>2, <1>3, <1>4 DEF Goes, w, r

Touched(m, a, warm, new) ==
  LET r == Remember(m, RegionOf(m, a))
  IN  [r EXCEPT !.dir = @ \cup {a}, !.committed = @ + new,
                !.wdir = IF Warms(r.regions[RegionOf(m, a)], warm) THEN @ \cup {a} ELSE @]

Takes(m, w, a, new) == Goes(m, w) /\ w.dir = m.dir \cup {a} /\ w.committed = m.committed + new

\* A page is committed, or warmed, in the region the lookup found.
LEMMA TouchKeeps ==
  ASSUME NEW m \in MemType, Layout(m), Covered(m), NEW a \in Pages,
         RegionOf(m, a) # 0, m.regions[RegionOf(m, a)].prot # "none",
         NEW warm, NEW new \in Nat
  PROVE  Takes(m, Touched(m, a, warm, new), a, new)
<1> DEFINE r == Remember(m, RegionOf(m, a))
           s == RegionOf(m, a)
           dir2 == r.dir \cup {a}
           wdir2 == IF Warms(r.regions[s], warm) THEN r.wdir \cup {a} ELSE r.wdir
           w == [r EXCEPT !.dir = dir2, !.committed = @ + new, !.wdir = wdir2]
<1>1. /\ r \in MemType /\ Layout(r)
      /\ r.dir = m.dir /\ r.wdir = m.wdir /\ r.committed = m.committed
      /\ r.regions = m.regions /\ r.nregions = m.nregions /\ r.live = m.live
  BY Zenon, LookedUp
<1>2. s \in 1 .. m.nregions /\ Within(m.regions[s], a) /\ m.regions[s].prot # "none"
  BY Zenon, LookupAgrees, ScanFinds
<1> HIDE DEF r, s
<1>3. dir2 \in SUBSET Pages /\ wdir2 \in SUBSET Pages
  BY Zenon, <1>1 DEF MemType
<1>4. wdir2 \subseteq dir2 /\ r.wdir \subseteq wdir2
  BY Zenon, <1>1 DEF Covered
<1>5. a \in wdir2 => a \in r.wdir \/ m.regions[s].prot = "rw"
  BY Zenon, <1>1 DEF Warms
<1>5a. \A c \in wdir2 : c = a \/ c \in m.wdir
  BY Zenon, <1>1
<1>5b. r.committed + new \in Nat
  BY <1>1 DEF MemType
<1>6. /\ w \in MemType
      /\ w.regions = r.regions /\ w.nregions = r.nregions /\ w.next = r.next /\ w.last = r.last
      /\ w.live = r.live /\ w.dir = dir2 /\ w.wdir = wdir2 /\ w.committed = r.committed + new
  <2> HIDE DEF dir2, wdir2
  <2> QED BY Zenon, <1>1, <1>3, <1>5b DEF MemType
<1> HIDE DEF w, wdir2
<1>7. Layout(w)
  <2>1. w.last <= r.nregions
    BY Zenon, <1>1, <1>6 DEF Layout
  <2> QED BY Zenon, <1>1, <1>6, <2>1, SameTable
<1>8. Covered(w)
  <2>1. ASSUME NEW c \in dir2
        PROVE  \E k \in 1 .. m.nregions :
                 /\ Within(m.regions[k], c) /\ m.regions[k].prot # "none"
                 /\ c \in wdir2 => m.regions[k].prot = "rw"
    <3>1. CASE c = a /\ a \notin m.wdir
      BY Zenon, <1>1, <1>2, <1>5, <3>1
    <3>2. CASE c = a /\ a \in m.wdir
      BY Zenon, <3>2 DEF Covered
    <3>3. CASE c # a
      BY Zenon, <1>1, <1>5a, <3>3 DEF Covered
    <3> QED BY Zenon, <3>1, <3>2, <3>3
  <2> QED BY <1>1, <1>4, <1>6, <2>1 DEF Covered
<1>9. w = Touched(m, a, warm, new)
  BY Zenon DEF Touched, w, wdir2, r, s
<1> QED BY Zenon, <1>1, <1>6, <1>7, <1>8, <1>9 DEF Goes, Takes

\* gm_map of a region when there is room for it.
LEMMA MappedIs ==
  ASSUME NEW m \in MemType, m.nregions < MaxRegions, NEW r \in RegionType
  PROVE  LET w == Mapped(m, r)
         IN  /\ w \in MemType /\ w.nregions = m.nregions + 1
             /\ \A k \in 1 .. m.nregions : w.regions[k] = m.regions[k]
             /\ w.regions[m.nregions + 1] = r
             /\ w.last = m.last /\ w.next = m.next /\ w.live = m.live
             /\ w.dir = m.dir /\ w.wdir = m.wdir /\ w.committed = m.committed
<1> DEFINE new == [m.regions EXCEPT ![m.nregions + 1] = r]
           w == [m EXCEPT !.nregions = @ + 1, !.regions[m.nregions + 1] = r]
<1>1. m.nregions \in Nat /\ m.regions \in [RegionSlots -> RegionType]
  BY Zenon DEF MemType
<1>2. m.nregions + 1 \in RegionSlots /\ m.nregions + 1 \in Nat /\ MaxRegions \in Nat
  BY <1>1, MemAssumption DEF RegionSlots
<1>3. new \in [RegionSlots -> RegionType]
  BY Zenon, <1>1, <1>2
<1>4. /\ new[m.nregions + 1] = r
      /\ \A k \in 1 .. m.nregions : new[k] = m.regions[k]
  BY <1>1, <1>2 DEF RegionSlots
<1>5. w = [m EXCEPT !.nregions = m.nregions + 1, !.regions = new]
  BY Zenon DEF MemType
<1> HIDE DEF new
<1>6. /\ w \in MemType /\ w.nregions = m.nregions + 1 /\ w.regions = new
      /\ w.last = m.last /\ w.next = m.next /\ w.live = m.live
      /\ w.dir = m.dir /\ w.wdir = m.wdir /\ w.committed = m.committed
  BY Zenon, <1>2, <1>3, <1>5 DEF MemType
<1>7. Mapped(m, r) = w
  BY <1>1, <1>2 DEF Mapped
<1> QED BY ZenonT(60), <1>4, <1>6, <1>7

LEMMA RegionIs ==
  ASSUME NEW b \in Nat, NEW z \in Nat, NEW p \in {"none", "ro", "rw"}
  PROVE  /\ Region(b, z, p) \in RegionType
         /\ Region(b, z, p).base = b /\ Region(b, z, p).size = z /\ Region(b, z, p).prot = p
BY Zenon DEF Region, RegionType

\* A table that grows at its end keeps what it covers.
LEMMA GrownCovers ==
  ASSUME NEW m \in MemType, Covered(m), NEW w \in MemType, w.nregions >= m.nregions,
         \A k \in 1 .. m.nregions : w.regions[k] = m.regions[k],
         w.dir = m.dir, w.wdir = m.wdir
  PROVE  Covered(w)
<1>1. m.nregions \in Nat /\ w.nregions \in Nat
  BY Zenon DEF MemType
<1>2. \A k \in 1 .. m.nregions : k \in 1 .. w.nregions
  BY <1>1
<1> QED BY Zenon, <1>2 DEF Covered

\* What gm_mmap leaves, unless the gap above the mapping ends at the top.
LEMMA MmapKeeps ==
  ASSUME NEW m \in MemType, Layout(m), Covered(m),
         NEW z \in 1 .. MaxMap, NEW guard \in BOOLEAN,
         MapFits(m, z, guard), MapEnd(m, z, guard) # Top
  PROVE  LET guarded == IF guard THEN Mapped(m, Region(Cursor(m), 1, "none")) ELSE m
             done == Mapped(guarded, Region(Cursor(m) + GuardPages(guard), z, "rw"))
             w == [done EXCEPT !.next = MapEnd(m, z, guard) % Top]
         IN  Goes(m, w) /\ w.dir = m.dir /\ w.committed = m.committed
<1> DEFINE G == GuardPages(guard)
           C == Cursor(m)
           N == m.nregions
           low == Region(C, 1, "none")
           high == Region(C + G, z, "rw")
           guarded == IF guard THEN Mapped(m, low) ELSE m
           done == Mapped(guarded, high)
           E == MapEnd(m, z, guard)
           w == [done EXCEPT !.next = E % Top]
<1>1. G \in {0, 1} /\ C \in Nat /\ N \in Nat /\ z \in Nat /\ z >= 1 /\ (guard <=> G = 1)
  BY MemAssumption DEF GuardPages, Cursor, MemType
<1>2. E = C + G + z + 1 /\ E < Top /\ Top \in Nat /\ N + G + 1 <= MaxRegions /\ MaxRegions \in Nat
  BY <1>1, MemAssumption DEF MapFits, MapEnd
<1>3. /\ low \in RegionType /\ low.base = C /\ low.size = 1 /\ low.prot = "none"
      /\ high \in RegionType /\ high.base = C + G /\ high.size = z /\ high.prot = "rw"
  BY SMTT(60), <1>1, RegionIs
<1> HIDE DEF low, high, C, G, E
<1>4. /\ guarded \in MemType /\ guarded.nregions = N + G
      /\ \A k \in 1 .. N : guarded.regions[k] = m.regions[k]
      /\ G = 1 => guarded.regions[N + 1] = low
      /\ guarded.last = m.last /\ guarded.live = m.live
      /\ guarded.dir = m.dir /\ guarded.wdir = m.wdir /\ guarded.committed = m.committed
  <2>1. CASE guard
    <3> DEFINE v == Mapped(m, low)
    <3>1. N < MaxRegions /\ G = 1 /\ guarded = v
      BY <1>1, <1>2, <2>1
    <3>2. /\ v \in MemType /\ v.nregions = N + 1 /\ \A k \in 1 .. N : v.regions[k] = m.regions[k]
          /\ v.regions[N + 1] = low /\ v.last = m.last /\ v.live = m.live
          /\ v.dir = m.dir /\ v.wdir = m.wdir /\ v.committed = m.committed
      BY Zenon, <1>3, <3>1, MappedIs
    <3> HIDE DEF guarded, v
    <3> QED BY Zenon, <3>1, <3>2
  <2>2. CASE ~guard
    BY <1>1, <2>2
  <2> QED BY ZenonT(60), <2>1, <2>2
<1> HIDE DEF guarded
<1>5. /\ done \in MemType /\ done.nregions = N + G + 1
      /\ \A k \in 1 .. N : done.regions[k] = m.regions[k]
      /\ G = 1 => done.regions[N + 1] = low
      /\ done.regions[N + G + 1] = high
      /\ done.last = m.last /\ done.live = m.live
      /\ done.dir = m.dir /\ done.wdir = m.wdir /\ done.committed = m.committed
  <2>1. guarded.nregions < MaxRegions
    BY SMTT(60), <1>1, <1>2, <1>4
  <2>2. /\ done \in MemType /\ done.nregions = guarded.nregions + 1
        /\ \A k \in 1 .. guarded.nregions : done.regions[k] = guarded.regions[k]
        /\ done.regions[guarded.nregions + 1] = high
        /\ done.last = guarded.last /\ done.live = guarded.live
        /\ done.dir = guarded.dir /\ done.wdir = guarded.wdir /\ done.committed = guarded.committed
    BY <1>3, <1>4, <2>1, MappedIs
  <2> HIDE DEF done
  <2> QED BY <1>1, <1>4, <2>2
<1> HIDE DEF done
<1>6. E % Top = E /\ E \in Nat /\ E # 0
  BY <1>1, <1>2
<1>7. /\ w \in MemType /\ w.nregions = done.nregions /\ w.regions = done.regions
      /\ w.last = done.last /\ w.next = E /\ w.live = done.live
      /\ w.dir = done.dir /\ w.wdir = done.wdir /\ w.committed = done.committed
  BY Zenon, <1>5, <1>6 DEF MemType
<1> HIDE DEF w
<1>8. Cursor(w) = E
  BY Zenon, <1>6, <1>7 DEF Cursor
<1>9. Covered(w)
  BY SMTT(60), <1>1, <1>5, <1>7, GrownCovers
<1>10. Layout(w)
  <2>1. w.nregions = N + G + 1 /\ w.nregions <= MaxRegions /\ w.last <= w.nregions /\ Cursor(w) < Top
    BY SMTT(60), <1>1, <1>2, <1>5, <1>7, <1>8 DEF Layout, MemType
  <2>2. \A k \in 1 .. N : /\ w.regions[k] = m.regions[k]
                          /\ m.regions[k].base \in Nat /\ m.regions[k].size \in Nat
                          /\ m.regions[k].size >= 1 /\ Ends(m.regions[k]) <= C
    <3>1. \A k \in 1 .. N : m.regions[k].size >= 1 /\ Ends(m.regions[k]) <= C
      BY Zenon DEF Layout, C
    <3>2. \A k \in 1 .. N : w.regions[k] = m.regions[k]
      BY Zenon, <1>5, <1>7
    <3>3. \A k \in 1 .. N : m.regions[k].base \in Nat /\ m.regions[k].size \in Nat
      <4>1. m.nregions <= MaxRegions
        BY Zenon DEF Layout
      <4> QED BY Zenon, <4>1, RegionFields
    <3> QED BY Zenon, <3>1, <3>2, <3>3
  <2>3. (G = 1 => w.regions[N + 1] = low) /\ w.regions[N + G + 1] = high
    BY Zenon, <1>5, <1>7
  <2>4. \A k \in 1 .. N + G + 1 : k \in 1 .. N \/ (G = 1 /\ k = N + 1) \/ k = N + G + 1
    BY SMTT(60), <1>1
  <2>5. ASSUME NEW k \in 1 .. N + G + 1 PROVE w.regions[k].size >= 1 /\ Ends(w.regions[k]) <= E
    <3>1. CASE k \in 1 .. N
      BY SMTT(20), <1>1, <1>2, <2>2, <3>1 DEF Ends
    <3>2. CASE G = 1 /\ k = N + 1
      BY SMTT(20), <1>1, <1>2, <1>3, <2>3, <3>2 DEF Ends
    <3>3. CASE k = N + G + 1
      BY <1>1, <1>2, <1>3, <2>3, <3>3 DEF Ends
    <3> QED BY Zenon, <2>4, <3>1, <3>2, <3>3
  <2>6. ASSUME NEW k \in 1 .. N + G + 1, NEW l \in 1 .. N + G + 1, k < l
        PROVE  Ends(w.regions[k]) <= w.regions[l].base
    <3>1. CASE k \in 1 .. N /\ l \in 1 .. N
      BY Zenon, <2>2, <2>6, <3>1 DEF Layout
    <3>2. CASE k \in 1 .. N /\ l \notin 1 .. N
      BY SMTT(60), <1>1, <1>3, <2>2, <2>3, <2>4, <3>2 DEF Ends
    <3>3. CASE G = 1 /\ k = N + 1
      BY SMTT(60), <1>1, <1>3, <2>3, <2>6, <3>3 DEF Ends
    <3>4. k # N + G + 1
      BY <1>1, <2>6
    <3> QED BY Zenon, <2>4, <3>1, <3>2, <3>3, <3>4
  <2>7. ASSUME NEW k \in 1 .. N + G + 1, w.regions[k].prot = "none"
        PROVE  /\ w.regions[k].size = 1 /\ k < N + G + 1
               /\ w.regions[k+1].prot = "rw" /\ w.regions[k+1].base = w.regions[k].base + 1
    <3>1. CASE k \in 1 .. N
      <4>1. k < N /\ m.regions[k].size = 1
            /\ m.regions[k+1].prot = "rw" /\ m.regions[k+1].base = m.regions[k].base + 1
        BY Zenon, <2>2, <2>7, <3>1 DEF Layout
      <4>2. k + 1 \in 1 .. N
        BY <1>1, <3>1, <4>1
      <4>3. k < N + G + 1
        BY <1>1, <3>1
      <4> QED BY Zenon, <2>2, <3>1, <4>1, <4>2, <4>3
    <3>2. CASE G = 1 /\ k = N + 1
      BY <1>1, <1>3, <2>3, <3>2
    <3>3. k # N + G + 1
      BY Zenon, <1>3, <2>3, <2>7
    <3> QED BY Zenon, <2>4, <3>1, <3>2, <3>3
  <2> QED BY ZenonT(60), <1>8, <2>1, <2>5, <2>6, <2>7 DEF Layout
<1> QED BY Zenon, <1>5, <1>7, <1>9, <1>10 DEF Goes, w, done, guarded, low, high, C, G, E

\* gm_munmap drops k entries from lo on: nothing, the mapping, or the mapping and the
\* guard below it; and never the mapping above a guard it leaves.
Drops(m, b, z, gone, lo, k) ==
  /\ lo \in 1 .. m.nregions /\ k \in {1, 2} /\ lo + k - 1 <= m.nregions
  /\ gone = lo .. lo + k - 1
  /\ m.regions[lo + k - 1].base = b /\ m.regions[lo + k - 1].size = z
  /\ k = 2 => m.regions[lo].prot = "none"
  /\ lo > 1 => m.regions[lo - 1].prot # "none"

LEMMA DroppedIs ==
  ASSUME NEW m \in MemType, Layout(m), NEW b \in Pages, NEW z \in 1 .. MaxMap
  PROVE  \/ Dropped(m, b, z) = {}
         \/ \E lo \in Nat, k \in Nat : Drops(m, b, z, Dropped(m, b, z), lo, k)
<1> DEFINE same == {j \in 1 .. m.nregions : m.regions[j].base = b /\ m.regions[j].size = z}
<1>1. CASE same = {}
  BY ZenonT(60), <1>1 DEF Dropped
<1>2. CASE same # {}
  <2>1. PICK j \in same : TRUE
    BY Zenon, <1>2
  <2>2. j \in 1 .. m.nregions /\ m.regions[j].base = b /\ m.regions[j].size = z
    BY Zenon, <2>1
  <2>3. b \in Pages /\ Within(m.regions[j], b) /\ b \in Nat /\ z \in Nat /\ z >= 1
    BY <2>2, MemAssumption DEF Within, Pages
  <2>4. ASSUME NEW l \in same PROVE l = j
    <3>1. l \in 1 .. m.nregions /\ Within(m.regions[l], b)
      BY Zenon, <2>3 DEF Within
    <3> QED BY Zenon, <2>2, <2>3, <3>1, ScanIs
  <2>5. same = {j} /\ Min(same) = j
    <3>1. same = {j}
      BY Zenon, <2>1, <2>4
    <3> QED BY <3>1 DEF Min
  <2>6. j \in Nat /\ j >= 1 /\ m.nregions \in Nat
    BY <2>2 DEF MemType
  <2> DEFINE below == j > 1 /\ m.regions[j-1].prot = "none" /\ m.regions[j-1].base + m.regions[j-1].size = b
  <2>7. Dropped(m, b, z) = IF below THEN {j - 1, j} ELSE {j}
    <3> HIDE DEF below
    <3>1. Dropped(m, b, z) = IF same = {} THEN {} ELSE IF below THEN {j - 1, j} ELSE {j}
      <4> HIDE DEF same
      <4>1. Dropped(m, b, z) =
              IF same = {} THEN {}
              ELSE IF Min(same) > 1 /\ m.regions[Min(same)-1].prot = "none"
                      /\ m.regions[Min(same)-1].base + m.regions[Min(same)-1].size = b
                   THEN {Min(same) - 1, Min(same)} ELSE {Min(same)}
        BY Zenon DEF Dropped, same
      <4> QED BY Zenon, <2>5, <4>1 DEF below
    <3> QED BY Zenon, <1>2, <3>1
  <2>8. \A l \in 1 .. m.nregions : m.regions[l].prot = "none" =>
           /\ l < m.nregions /\ m.regions[l].size = 1
           /\ m.regions[l+1].prot = "rw" /\ m.regions[l+1].base = m.regions[l].base + 1
    BY Zenon DEF Layout
  <2> HIDE DEF same
  <2>9. CASE below
    <3>1. j - 1 \in 1 .. m.nregions /\ {j - 1, j} = (j - 1) .. (j - 1) + 2 - 1 /\ (j - 1) + 2 - 1 = j
      BY <2>2, <2>6, <2>9
    <3>2. j - 1 > 1 => m.regions[(j - 1) - 1].prot # "none"
      <4> SUFFICES ASSUME j - 1 > 1, m.regions[(j - 1) - 1].prot = "none" PROVE FALSE
        BY Zenon
      <4>1. (j - 1) - 1 \in 1 .. m.nregions /\ ((j - 1) - 1) + 1 = j - 1
        BY <2>2, <2>6
      <4>2. m.regions[j - 1].prot = "rw"
        BY Zenon, <2>8, <4>1
      <4> QED BY Zenon, <2>9, <4>2
    <3>3. Drops(m, b, z, Dropped(m, b, z), j - 1, 2)
      BY <2>2, <2>6, <2>7, <2>9, <3>1, <3>2 DEF Drops
    <3> QED BY <2>6, <2>9, <3>3
  <2>10. CASE ~below
    <3>1. {j} = j .. j + 1 - 1 /\ j + 1 - 1 = j
      BY <2>6
    <3>2. j > 1 => m.regions[j - 1].prot # "none"
      <4> SUFFICES ASSUME j > 1, m.regions[j - 1].prot = "none" PROVE FALSE
        BY Zenon
      <4>1. j - 1 \in 1 .. m.nregions /\ (j - 1) + 1 = j
        BY <2>2, <2>6
      <4>2. m.regions[j - 1].size = 1 /\ m.regions[j].base = m.regions[j - 1].base + 1
        BY Zenon, <2>8, <4>1
      <4> QED BY Zenon, <2>2, <2>10, <4>2
    <3>3. Drops(m, b, z, Dropped(m, b, z), j, 1)
      BY <2>2, <2>7, <2>10, <3>1, <3>2 DEF Drops
    <3> QED BY Zenon, <2>6, <3>3
  <2> QED BY Zenon, <2>9, <2>10
<1> QED BY Zenon, <1>1, <1>2

\* w has the table of m without the k entries from lo on.
Without(m, w, lo, k) ==
  /\ w \in MemType /\ w.nregions = m.nregions - k
  /\ \A q \in 1 .. m.nregions - k :
       w.regions[q] = m.regions[IF q < lo THEN q ELSE q + k]
  /\ w.next = m.next /\ w.dir = m.dir /\ w.wdir = m.wdir
  /\ w.committed = m.committed /\ w.live = m.live

\* The compacted table: its entries are those of the old one in their order, without the
\* dropped ones.
LEMMA CompactedIs ==
  ASSUME NEW m \in MemType, Layout(m), NEW b, NEW z, NEW gone, NEW lo \in Nat, NEW k \in Nat,
         Drops(m, b, z, gone, lo, k)
  PROVE  Without(m, Compacted(m, gone), lo, k)
<1> DEFINE new == [q \in RegionSlots |-> IF q >= lo /\ q + k <= m.nregions
                                           THEN m.regions[q + k] ELSE m.regions[q]]
           w == [m EXCEPT !.nregions = m.nregions - k, !.regions = new]
<1>1. /\ m.nregions \in Nat /\ m.nregions <= MaxRegions /\ m.regions \in [RegionSlots -> RegionType]
      /\ lo >= 1 /\ k \in {1, 2} /\ lo + k - 1 <= m.nregions /\ MaxRegions \in Nat
  BY MemAssumption DEF MemType, Layout, Drops
<1>2. Cardinality(gone) = k /\ gone # {}
  <2>1. Cardinality(lo .. lo + k - 1) = k
    BY <1>1, FS_Interval
  <2>2. lo \in lo .. lo + k - 1
    BY <1>1
  <2> QED BY Zenon, <2>1, <2>2 DEF Drops
<1>3. Min(gone) = lo
  <2>1. lo \in gone /\ \A y \in gone : lo <= y /\ y \in Nat
    BY <1>1 DEF Drops
  <2>2. \A x \in gone : (\A y \in gone : x <= y) => x = lo
    BY <2>1
  <2> QED BY Zenon, <2>1, <2>2 DEF Min
<1>4. new \in [RegionSlots -> RegionType]
  BY SMTT(20), <1>1 DEF RegionSlots
<1>5. Compacted(m, gone) = w
  <2>1. Compacted(m, gone) = [m EXCEPT !.nregions = @ - k, !.regions = new]
    BY Zenon, <1>2, <1>3 DEF Compacted
  <2> HIDE DEF new
  <2> QED BY Zenon, <2>1 DEF MemType
<1>6. \A q \in 1 .. m.nregions - k : new[q] = m.regions[IF q < lo THEN q ELSE q + k]
  BY SMTT(20), <1>1 DEF RegionSlots
<1> HIDE DEF new
<1>6a. m.nregions - k \in Nat
  BY <1>1
<1>7. /\ w \in MemType /\ w.nregions = m.nregions - k /\ w.regions = new
      /\ w.next = m.next /\ w.dir = m.dir /\ w.wdir = m.wdir
      /\ w.committed = m.committed /\ w.live = m.live
  BY Zenon, <1>4, <1>6a DEF MemType
<1> QED BY Zenon, <1>5, <1>6, <1>7 DEF Without

PagesLeft(m, b, z) == m.dir \ (m.dir \cap (b .. b + z - 1))

Unmapped(m, b, z, c) ==
  LET freed == m.dir \cap (b .. b + z - 1)
  IN  [Compacted(m, Dropped(m, b, z)) EXCEPT
         !.dir = @ \ freed, !.wdir = @ \ freed, !.committed = c, !.last = LastAfter(m)]

\* The pages of an unmapping go, and the entries that were for them.
LEMMA MunmapKeeps ==
  ASSUME NEW m \in MemType, Layout(m), Covered(m), NEW b \in Pages, NEW z \in 1 .. MaxMap,
         NEW c \in Nat
  PROVE  LET w == Unmapped(m, b, z, c)
         IN  Goes(m, w) /\ w.dir = PagesLeft(m, b, z) /\ w.committed = c
<1> DEFINE freed == m.dir \cap (b .. b + z - 1)
           gone == Dropped(m, b, z)
           d == Compacted(m, gone)
           w == [d EXCEPT !.dir = @ \ freed, !.wdir = @ \ freed,
                          !.committed = c, !.last = LastAfter(m)]
<1>1. b \in Nat /\ z \in Nat /\ z >= 1 /\ m.nregions \in Nat /\ m.nregions <= MaxRegions
  BY MemAssumption DEF Pages, MemType, Layout
<1>2. /\ m.wdir \subseteq m.dir /\ m.dir \subseteq Pages
      /\ \A a \in m.dir : a \in Nat
  BY MemAssumption DEF Covered, MemType, Pages
<1> HIDE DEF freed
<1>3. ASSUME d \in MemType, d.dir = m.dir, d.wdir = m.wdir, d.next = m.next, d.live = m.live
      PROVE  /\ w \in MemType /\ w.regions = d.regions /\ w.nregions = d.nregions
             /\ w.next = m.next /\ w.last = 0 /\ w.committed = c /\ w.live = m.live
             /\ w.dir = m.dir \ freed /\ w.wdir = m.wdir \ freed
  <2> HIDE DEF d
  <2> QED BY Zenon, <1>3 DEF MemType, LastAfter
<1>4. CASE gone = {}
  <2>1. d = m
    BY Zenon, <1>4 DEF Compacted
  <2> HIDE DEF w, d
  <2>2. Layout(w)
    BY SMTT(20), <1>1, <1>3, <2>1, SameTable
  <2>3. Covered(w)
    BY <1>2, <1>3, <2>1 DEF Covered
  <2> QED BY Zenon, <1>3, <2>1, <2>2, <2>3 DEF Goes, Unmapped, PagesLeft, w, d, freed
<1>5. CASE gone # {}
  <2>1. PICK lo \in Nat, k \in Nat : Drops(m, b, z, gone, lo, k)
    BY Zenon, <1>5, DroppedIs
  <2> DEFINE src(q) == IF q < lo THEN q ELSE q + k
             n2 == m.nregions - k
  <2>2. /\ d \in MemType /\ d.nregions = n2
        /\ \A q \in 1 .. n2 : d.regions[q] = m.regions[src(q)]
        /\ d.next = m.next /\ d.dir = m.dir /\ d.wdir = m.wdir /\ d.live = m.live
    <3> HIDE DEF gone, src, n2, d
    <3>1. Without(m, Compacted(m, gone), lo, k)
      BY Zenon, <2>1, CompactedIs
    <3> QED BY Zenon, <3>1 DEF Without, d, src, n2
  <2> HIDE DEF w, d
  <2>3. /\ lo >= 1 /\ k \in {1, 2} /\ lo + k - 1 <= m.nregions /\ n2 \in Nat
        /\ m.regions[lo + k - 1].base = b /\ m.regions[lo + k - 1].size = z
        /\ k = 2 => m.regions[lo].prot = "none"
        /\ lo > 1 => m.regions[lo - 1].prot # "none"
    BY <1>1, <2>1 DEF Drops
  <2>4. \A q \in 1 .. n2 : src(q) \in 1 .. m.nregions
    BY <1>1, <2>3
  <2>5. \A q, l \in 1 .. n2 : q < l => src(q) < src(l)
    BY <1>1, <2>3
  <2>6. \A j \in 1 .. m.nregions : (j \in lo .. lo + k - 1) \/ \E q \in 1 .. n2 : src(q) = j
    <3> SUFFICES ASSUME NEW j \in 1 .. m.nregions, j \notin lo .. lo + k - 1
                 PROVE  \E q \in 1 .. n2 : src(q) = j
      BY Zenon
    <3>1. CASE j < lo
      <4>1. j \in 1 .. n2 /\ src(j) = j
        BY <1>1, <2>3, <3>1
      <4> QED BY Zenon, <4>1
    <3>2. CASE j >= lo + k
      <4>1. j - k \in 1 .. n2 /\ src(j - k) = j
        BY <1>1, <2>3, <3>2
      <4> QED BY Zenon, <4>1
    <3> QED BY <1>1, <2>3, <3>1, <3>2
  <2>7. \A q \in 1 .. n2 : q # lo - 1 /\ src(q) < m.nregions => q < n2 /\ src(q + 1) = src(q) + 1
    BY <1>1, <2>3
  <2>8. /\ w \in MemType /\ w.nregions = n2 /\ w.last = 0 /\ w.committed = c /\ w.live = m.live
        /\ \A q \in 1 .. n2 : w.regions[q] = m.regions[src(q)]
        /\ w.dir = m.dir \ freed /\ w.wdir = m.wdir \ freed
    BY Zenon, <1>3, <2>2
  <2>8a. Cursor(w) = Cursor(m)
    BY Zenon, <1>3, <2>2 DEF Cursor
  <2>9. Layout(w)
    <3>1. \A q \in 1 .. n2 : w.regions[q].size >= 1 /\ Ends(w.regions[q]) <= Cursor(m)
      <4> HIDE DEF src, n2
      <4> QED BY <2>4, <2>8 DEF Layout
    <3>2. \A q, l \in 1 .. n2 : q < l => Ends(w.regions[q]) <= w.regions[l].base
      <4> HIDE DEF src, n2
      <4> QED BY SMTT(60), <2>4, <2>5, <2>8 DEF Layout
    <3>3. ASSUME NEW q \in 1 .. n2, w.regions[q].prot = "none"
          PROVE  /\ w.regions[q].size = 1 /\ q < n2
                 /\ w.regions[q+1].prot = "rw" /\ w.regions[q+1].base = w.regions[q].base + 1
      <4>1. m.regions[src(q)].prot = "none" /\ src(q) \in 1 .. m.nregions
        BY Zenon, <2>4, <2>8, <3>3
      <4>2. /\ m.regions[src(q)].size = 1 /\ src(q) < m.nregions
            /\ m.regions[src(q)+1].prot = "rw"
            /\ m.regions[src(q)+1].base = m.regions[src(q)].base + 1
        <5> HIDE DEF src
        <5> QED BY Zenon, <4>1 DEF Layout
      <4>3. q # lo - 1
        BY SMTT(60), <2>3, <4>1
      <4>4. q < n2 /\ src(q + 1) = src(q) + 1
        BY Zenon, <2>7, <4>2, <4>3
      <4>5. q + 1 \in 1 .. n2
        BY <2>3, <4>4
      <4> HIDE DEF src, n2
      <4>6. w.regions[q+1] = m.regions[src(q) + 1]
        BY Zenon, <2>8, <4>4, <4>5
      <4> QED BY Zenon, <2>8, <4>2, <4>4, <4>6
    <3>4. n2 <= MaxRegions /\ 0 <= n2 /\ Cursor(m) < Top
      BY SMTT(60), <1>1, <2>3, MemAssumption DEF Layout
    <3> HIDE DEF src, n2
    <3> QED BY SMTT(20), <2>8, <2>8a, <3>1, <3>2, <3>3, <3>4 DEF Layout
  <2>10. Covered(w)
    <3>1. ASSUME NEW a \in m.dir \ freed
          PROVE  \E q \in 1 .. n2 : /\ Within(w.regions[q], a) /\ w.regions[q].prot # "none"
                                    /\ a \in m.wdir => w.regions[q].prot = "rw"
      <4>1. PICK j \in 1 .. m.nregions : /\ Within(m.regions[j], a) /\ m.regions[j].prot # "none"
                                         /\ a \in m.wdir => m.regions[j].prot = "rw"
        BY ZenonT(60) DEF Covered
      <4>2. j # lo + k - 1
        <5> SUFFICES ASSUME j = lo + k - 1 PROVE FALSE
          BY Zenon
        <5>1. b <= a /\ a < b + z
          BY Zenon, <2>3, <4>1 DEF Within
        <5>2. a \in b .. b + z - 1
          BY SMTT(60), <1>1, <1>2, <5>1
        <5> QED BY Zenon, <3>1, <5>2 DEF freed
      <4>3. j \notin lo .. lo + k - 1
        BY SMTT(20), <1>1, <2>3, <4>1, <4>2
      <4>4. PICK q \in 1 .. n2 : src(q) = j
        BY Zenon, <2>6, <4>3
      <4> HIDE DEF src, n2
      <4> QED BY ZenonT(60), <2>8, <4>1, <4>4
    <3> HIDE DEF src, n2
    <3> QED BY ZenonT(60), <1>2, <2>8, <3>1 DEF Covered
  <2> QED BY Zenon, <2>8, <2>9, <2>10 DEF Goes, Unmapped, PagesLeft, w, d, freed
<1> QED BY Zenon, <1>4, <1>5

(***************************************************************************)
(* Memory: the charges of all guests.                                      *)
(***************************************************************************)

Hold(D) == {x \in Guests \X Pages : x[2] \in D[x[1]]}

LEMMA PagesFinite == IsFiniteSet(Pages) /\ \A S \in SUBSET Pages : IsFiniteSet(S) /\ Cardinality(S) \in Nat
<1>1. IsFiniteSet(Pages)
  <2>1. 0 \in Int /\ Top - 1 \in Int
    BY MemAssumption
  <2> QED BY Zenon, <2>1, FS_Interval DEF Pages
<1> QED BY Zenon, <1>1, FS_Subset, FS_CardinalityType

\* What all guests hold is what one of them holds and what the others hold.
LEMMA HoldSplits ==
  ASSUME NEW D \in [Guests -> SUBSET Pages], NEW g \in Guests
  PROVE  LET rest == {x \in Hold(D) : x[1] # g}
         IN  /\ Cardinality(rest) \in Nat /\ Cardinality(D[g]) \in Nat
             /\ Cardinality(Hold(D)) = Cardinality(rest) + Cardinality(D[g])
<1> DEFINE rest == {x \in Hold(D) : x[1] # g}
           own == {g} \X D[g]
<1>1. IsFiniteSet(Guests \X Pages)
  BY Zenon, MemAssumption, PagesFinite, FS_Product
<1>2. rest \in SUBSET (Guests \X Pages) /\ own \in SUBSET (Guests \X Pages)
  BY Zenon DEF Hold
<1>3. Hold(D) = rest \cup own /\ rest \cap own = {}
  BY Zenon DEF Hold
<1>4. IsFiniteSet(rest) /\ IsFiniteSet(own) /\ Cardinality(rest) \in Nat
  BY Zenon, <1>1, <1>2, FS_Subset, FS_CardinalityType
<1>5. D[g] \in SUBSET Pages /\ IsFiniteSet(D[g]) /\ Cardinality(D[g]) \in Nat
  BY Zenon, PagesFinite
<1>6. Cardinality(own) = Cardinality(D[g])
  <2>1. IsFiniteSet({g}) /\ Cardinality({g}) = 1
    BY Zenon, FS_Singleton
  <2>2. Cardinality(own) = Cardinality({g}) * Cardinality(D[g])
    BY Zenon, <1>5, <2>1, FS_Product
  <2> HIDE DEF own
  <2> QED BY <1>5, <2>1, <2>2
<1>7. Cardinality(rest \cup own) = Cardinality(rest) + Cardinality(own) - Cardinality(rest \cap own)
  BY Zenon, <1>4, FS_Union
<1> HIDE DEF rest, own
<1>8. Cardinality(Hold(D)) = Cardinality(rest) + Cardinality(D[g])
  <2>1. Cardinality(rest \cap own) = 0
    BY Zenon, <1>3, FS_EmptySet
  <2>2. Cardinality(Hold(D)) = Cardinality(rest \cup own)
    BY Zenon, <1>3
  <2> HIDE DEF Hold
  <2> QED BY <1>4, <1>5, <1>6, <1>7, <2>1, <2>2
<1> QED BY Zenon, <1>4, <1>5, <1>8 DEF rest

LEMMA HoldMoves ==
  ASSUME NEW D \in [Guests -> SUBSET Pages], NEW E \in [Guests -> SUBSET Pages], NEW g \in Guests,
         \A h \in Guests \ {g} : E[h] = D[h]
  PROVE  /\ Cardinality(Hold(E)) \in Nat
         /\ Cardinality(Hold(E)) + Cardinality(D[g]) = Cardinality(Hold(D)) + Cardinality(E[g])
         /\ Cardinality(D[g]) <= Cardinality(Hold(D))
<1> DEFINE rest == {x \in Hold(D) : x[1] # g}
           restE == {x \in Hold(E) : x[1] # g}
<1>1. restE = rest
  BY Zenon DEF Hold
<1>2. /\ Cardinality(rest) \in Nat /\ Cardinality(D[g]) \in Nat
      /\ Cardinality(Hold(D)) = Cardinality(rest) + Cardinality(D[g])
  BY Zenon, HoldSplits
<1>3. /\ Cardinality(restE) \in Nat /\ Cardinality(E[g]) \in Nat
      /\ Cardinality(Hold(E)) = Cardinality(restE) + Cardinality(E[g])
  BY ZenonT(60), HoldSplits
<1> HIDE DEF rest, restE
<1> QED BY <1>1, <1>2, <1>3

MemInv ==
  /\ mem \in [Guests -> MemType] /\ poolUsed \in Nat
  /\ \A g \in Guests : Layout(mem[g]) /\ Covered(mem[g]) /\ (~mem[g].live => mem[g].dir = {})
  /\ ChargesBalance

\* A step of guest g that charges what it changes.
LEMMA GuestMoves ==
  ASSUME MemInv, NEW g \in Guests, NEW w \in MemType, mem' = [mem EXCEPT ![g] = w],
         Layout(w), Covered(w), ~w.live => w.dir = {}, w.committed = Cardinality(w.dir),
         poolUsed' \in Nat,
         poolUsed' + Cardinality(mem[g].dir) = poolUsed + Cardinality(w.dir),
         PoolLimit # 0 => poolUsed' <= PoolLimit
  PROVE  MemInv'
<1> DEFINE D == [h \in Guests |-> mem[h].dir]
           E == [h \in Guests |-> mem'[h].dir]
<1>1. mem' \in [Guests -> MemType] /\ mem'[g] = w /\ \A h \in Guests \ {g} : mem'[h] = mem[h]
  BY Zenon DEF MemInv
<1>2. D \in [Guests -> SUBSET Pages] /\ E \in [Guests -> SUBSET Pages]
  BY Zenon, <1>1 DEF MemInv, MemType
<1>3. Hold(D) = HeldPages /\ Hold(E) = HeldPages'
  BY Zenon DEF Hold, HeldPages
<1>4. \A h \in Guests \ {g} : E[h] = D[h]
  BY Zenon, <1>1
<1>5. D[g] = mem[g].dir /\ E[g] = w.dir
  BY Zenon, <1>1
<1> HIDE DEF D, E
<1>6. /\ Cardinality(HeldPages') \in Nat
      /\ Cardinality(HeldPages') + Cardinality(D[g]) = Cardinality(HeldPages) + Cardinality(E[g])
  BY Zenon, <1>2, <1>3, <1>4, HoldMoves
<1>7. Cardinality(D[g]) \in Nat /\ Cardinality(E[g]) \in Nat
  BY Zenon, <1>2, PagesFinite
<1>8. poolUsed = Cardinality(HeldPages) /\ poolUsed \in Nat
  BY Zenon DEF MemInv, ChargesBalance
<1>9. poolUsed' = Cardinality(HeldPages')
  BY <1>5, <1>6, <1>7, <1>8
<1>10. \A h \in Guests : mem'[h].committed = Cardinality(mem'[h].dir)
  BY Zenon, <1>1 DEF MemInv, ChargesBalance
<1>11. ChargesBalance'
  BY Zenon, <1>9, <1>10 DEF ChargesBalance
<1>12. \A h \in Guests : Layout(mem'[h]) /\ Covered(mem'[h]) /\ (~mem'[h].live => mem'[h].dir = {})
  BY Zenon, <1>1 DEF MemInv
<1>13. \A h \in Guests : (Layout(mem[h]))' /\ (Covered(mem[h]))'
  BY ZenonT(60), <1>12 DEF Layout, Covered, Cursor
<1> QED BY Zenon, <1>1, <1>11, <1>12, <1>13 DEF MemInv

LEMMA BlankIs ==
  /\ Blank \in MemType /\ Layout(Blank) /\ Covered(Blank) /\ Blank.dir = {} /\ Blank.committed = 0
  /\ Blank.nregions = 0 /\ Blank.next = 0 /\ Blank.last = 0 /\ Blank.wdir = {}
<1>1. NoRegion \in RegionType
  BY Zenon DEF NoRegion, RegionType
<1>2. [k \in RegionSlots |-> NoRegion] \in [RegionSlots -> RegionType]
  BY Zenon, <1>1
<1>3. /\ Blank \in MemType /\ Blank.dir = {} /\ Blank.committed = 0
      /\ Blank.nregions = 0 /\ Blank.next = 0 /\ Blank.last = 0 /\ Blank.wdir = {}
  <2> HIDE DEF NoRegion
  <2> QED BY ZenonT(60), <1>2 DEF Blank, MemType
<1>4. Layout(Blank)
  BY <1>3, MemAssumption DEF Layout, Cursor
<1> QED BY Zenon, <1>3, <1>4 DEF Covered

\* The loader's two regions lie below the dynamic mappings.
LEMMA BuildKeeps ==
  LET m == [Blank EXCEPT !.live = TRUE, !.loading = TRUE]
      w == Mapped(Mapped(m, Region(0, 1, "ro")), Region(1, 1, "rw"))
  IN  w \in MemType /\ Layout(w) /\ Covered(w) /\ w.dir = {} /\ w.committed = 0
<1> DEFINE m == [Blank EXCEPT !.live = TRUE, !.loading = TRUE]
           text == Region(0, 1, "ro")
           data == Region(1, 1, "rw")
           v == Mapped(m, text)
           w == Mapped(v, data)
<1>1. /\ m \in MemType /\ m.dir = {} /\ m.committed = 0 /\ m.wdir = {}
      /\ m.nregions = 0 /\ m.next = 0 /\ m.last = 0
  BY ZenonT(60), BlankIs DEF MemType
<1>2. /\ text \in RegionType /\ text.base = 0 /\ text.size = 1 /\ text.prot = "ro"
      /\ data \in RegionType /\ data.base = 1 /\ data.size = 1 /\ data.prot = "rw"
  BY RegionIs
<1> HIDE DEF m, text, data
<1>3. 0 < MaxRegions /\ 1 < MaxRegions /\ 2 <= MaxRegions /\ 2 <= MmapBase /\ MmapBase < Top
  BY MemAssumption
<1>4. /\ v \in MemType /\ v.nregions = 1 /\ v.regions[1] = text
      /\ v.last = 0 /\ v.next = 0 /\ v.dir = {} /\ v.wdir = {} /\ v.committed = 0
  <2>1. /\ v \in MemType /\ v.nregions = m.nregions + 1 /\ v.regions[m.nregions + 1] = text
        /\ v.last = m.last /\ v.next = m.next
        /\ v.dir = m.dir /\ v.wdir = m.wdir /\ v.committed = m.committed
    BY SMTT(60), <1>1, <1>2, <1>3, MappedIs
  <2> HIDE DEF v
  <2> QED BY <1>1, <2>1
<1> HIDE DEF v
<1>5. /\ w \in MemType /\ w.nregions = 2 /\ w.regions[1] = text /\ w.regions[2] = data
      /\ w.last = 0 /\ w.next = 0 /\ w.dir = {} /\ w.wdir = {} /\ w.committed = 0
  <2>1. /\ w \in MemType /\ w.nregions = v.nregions + 1 /\ w.regions[v.nregions + 1] = data
        /\ \A k \in 1 .. v.nregions : w.regions[k] = v.regions[k]
        /\ w.last = v.last /\ w.next = v.next
        /\ w.dir = v.dir /\ w.wdir = v.wdir /\ w.committed = v.committed
    BY ZenonT(60), <1>2, <1>3, <1>4, MappedIs
  <2> HIDE DEF w
  <2>2. v.nregions + 1 = 2 /\ 1 \in 1 .. v.nregions
    BY <1>4
  <2> QED BY Zenon, <1>4, <2>1, <2>2
<1> HIDE DEF w
<1>6. Cursor(w) = MmapBase
  BY Zenon, <1>5 DEF Cursor
<1>7. Layout(w)
  <2>1. \A k \in 1 .. w.nregions : k = 1 \/ k = 2
    BY <1>5
  <2>2. Ends(text) = 1 /\ Ends(data) = 2 /\ 1 <= MmapBase /\ 0 <= 2
    BY <1>2, <1>3, MemAssumption DEF Ends
  <2>3. \A k \in 1 .. w.nregions : w.regions[k].size >= 1 /\ Ends(w.regions[k]) <= MmapBase
    BY <1>2, <1>3, <1>5, <2>1, <2>2
  <2>4. \A k, l \in 1 .. w.nregions : k < l => Ends(w.regions[k]) <= w.regions[l].base
    BY <1>2, <1>5, <2>1, <2>2
  <2>5. \A k \in 1 .. w.nregions : w.regions[k].prot # "none"
    BY Zenon, <1>2, <1>5, <2>1
  <2> QED BY Zenon, <1>3, <1>5, <1>6, <2>2, <2>3, <2>4, <2>5 DEF Layout
<1>8. Covered(w)
  BY Zenon, <1>5 DEF Covered
<1> QED BY Zenon, <1>5, <1>7, <1>8 DEF w, v, m, text, data

\* As long as the gap above no mapping ends at the top of the address space.
LEMMA MemStep ==
  ASSUME ~ReachTop, MemInv, [GmNext]_gmVars
  PROVE  MemInv'
<1>1. CASE UNCHANGED gmVars
  <2>1. mem' = mem /\ poolUsed' = poolUsed
    BY Zenon, <1>1 DEF gmVars
  <2>2. ChargesBalance'
    BY Zenon, <2>1 DEF MemInv, ChargesBalance, HeldPages
  <2> QED BY Zenon, <2>1, <2>2 DEF MemInv
<1>2. ASSUME NEW g \in Guests,
             \/ Build(g) \/ Loaded(g) \/ MemFree(g)
             \/ \E a \in Pages, rw \in BOOLEAN : Access(g, a, rw)
             \/ \E z \in 1 .. MaxMap, guard \in BOOLEAN : g \in Mappers /\ Mmap(g, z, guard)
             \/ \E b \in Pages, z \in 1 .. MaxMap : g \in Mappers /\ Munmap(g, b, z)
      PROVE  MemInv'
  <2> DEFINE m == mem[g]
  <2>1. /\ m \in MemType /\ Layout(m) /\ Covered(m) /\ (~m.live => m.dir = {})
        /\ m.committed = Cardinality(m.dir) /\ poolUsed \in Nat
        /\ m.dir \in SUBSET Pages /\ m.committed \in Nat
        /\ PoolLimit # 0 => poolUsed <= PoolLimit
    BY Zenon DEF MemInv, ChargesBalance, MemType
  <2>2. Cardinality(m.dir) <= poolUsed
    <3> DEFINE D == [h \in Guests |-> mem[h].dir]
    <3>1. D \in [Guests -> SUBSET Pages] /\ Hold(D) = HeldPages /\ D[g] = m.dir
      BY Zenon DEF MemInv, MemType, Hold, HeldPages
    <3> HIDE DEF D
    <3>2. Cardinality(D[g]) <= Cardinality(Hold(D))
      BY Zenon, <3>1, HoldMoves
    <3> QED BY Zenon, <3>1, <3>2 DEF MemInv, ChargesBalance
  <2>3. mem \in [Guests -> MemType]
    BY Zenon DEF MemInv
  <2> HIDE DEF m
  <2>3a. ASSUME NEW w, Goes(m, w), m.live
         PROVE  w \in MemType /\ Layout(w) /\ Covered(w) /\ (~w.live => w.dir = {})
    BY Zenon, <2>3a DEF Goes
  <2>4. ASSUME NEW w \in MemType, mem' = [mem EXCEPT ![g] = w], Layout(w), Covered(w),
               ~w.live => w.dir = {}, w.dir = m.dir, w.committed = m.committed, UNCHANGED poolUsed
        PROVE  MemInv'
    <3>1. Cardinality(m.dir) \in Nat /\ w.committed = Cardinality(w.dir)
      BY Zenon, <2>1, <2>4
    <3>2. /\ poolUsed' \in Nat /\ (PoolLimit # 0 => poolUsed' <= PoolLimit)
          /\ poolUsed' + Cardinality(m.dir) = poolUsed + Cardinality(w.dir)
      BY Zenon, <2>1, <2>4, <3>1
    <3> QED BY ZenonT(60), <2>4, <3>1, <3>2, GuestMoves DEF m
  <2>5. CASE Build(g)
    <3> DEFINE w == Mapped(Mapped([Blank EXCEPT !.live = TRUE, !.loading = TRUE], Region(0, 1, "ro")),
                           Region(1, 1, "rw"))
    <3>1. w \in MemType /\ Layout(w) /\ Covered(w) /\ w.dir = {} /\ w.committed = 0
      BY Zenon, BuildKeeps
    <3>2. mem' = [mem EXCEPT ![g] = w] /\ UNCHANGED poolUsed /\ m.dir = {}
      BY Zenon, <2>1, <2>5 DEF Build, m
    <3>3. m.committed = 0
      BY Zenon, <2>1, <3>2, FS_EmptySet
    <3> HIDE DEF w
    <3> QED BY Zenon, <2>4, <3>1, <3>2, <3>3
  <2>6. CASE Loaded(g)
    <3> DEFINE w == [m EXCEPT !.loading = FALSE]
    <3>1. mem' = [mem EXCEPT ![g] = w] /\ UNCHANGED poolUsed
      BY Zenon, <2>3, <2>6 DEF Loaded, m
    <3>2. /\ w \in MemType /\ w.dir = m.dir /\ w.wdir = m.wdir /\ w.committed = m.committed
          /\ w.regions = m.regions /\ w.nregions = m.nregions /\ w.next = m.next /\ w.last = m.last
          /\ w.live = m.live
      BY Zenon, <2>1 DEF MemType
    <3> HIDE DEF w
    <3>3. Layout(w)
      <4>1. m \in MemType /\ Layout(m) /\ w.last <= m.nregions
        BY Zenon, <2>1, <3>2 DEF Layout
      <4> QED BY Zenon, <3>2, <4>1, SameTable
    <3>4. Covered(w)
      BY ZenonT(60), <2>1, <3>2 DEF Covered
    <3> QED BY Zenon, <2>1, <2>4, <3>1, <3>2, <3>3, <3>4
  <2>7. CASE MemFree(g)
    <3>1. mem' = [mem EXCEPT ![g] = Blank] /\ poolUsed' = Less(poolUsed, m.committed)
      BY Zenon, <2>7 DEF MemFree, m
    <3>2. Blank.committed = Cardinality(Blank.dir) /\ Cardinality(Blank.dir) = 0
      BY Zenon, BlankIs, FS_EmptySet
    <3>3. /\ poolUsed' \in Nat /\ poolUsed' + Cardinality(m.dir) = poolUsed + Cardinality(Blank.dir)
          /\ (PoolLimit # 0 => poolUsed' <= PoolLimit)
      BY <2>1, <2>2, <3>1, <3>2, MemAssumption DEF Less
    <3> QED BY ZenonT(60), <3>1, <3>2, <3>3, BlankIs, GuestMoves DEF m
  <2>8. CASE \E a \in Pages, rw \in BOOLEAN : Access(g, a, rw)
    <3>1. PICK a \in Pages, rw \in BOOLEAN : Access(g, a, rw)
      BY Zenon, <2>8
    <3>2. CASE Fault(g, a)
      <4> DEFINE w == [Remember(m, RegionOf(m, a)) EXCEPT !.fault = TRUE]
      <4>1. mem' = [mem EXCEPT ![g] = w] /\ UNCHANGED poolUsed
        BY Zenon, <2>3, <3>2 DEF Fault, m
      <4>2. Goes(m, w) /\ w.dir = m.dir /\ w.committed = m.committed
        BY Zenon, <2>1, FaultKeeps
      <4>3. m.live
        BY ZenonT(60), <3>1 DEF Access, m
      <4> HIDE DEF w
      <4> QED BY ZenonT(60), <2>3a, <2>4, <4>1, <4>2, <4>3
    <3>3. CASE ~Fault(g, a)
      <4>1. Allowed(m, a, rw) /\ (a \notin m.dir => ~NoRoom(m)) /\ m.live
        BY ZenonT(60), <3>1, <3>3 DEF Access, m
      <4>2. PICK warm \in BOOLEAN : Touch(g, a, warm)
        BY ZenonT(60), <3>1, <3>3 DEF Access
      <4> DEFINE s == RegionOf(m, a)
                 r == Remember(m, s)
                 new == IF a \in m.dir THEN 0 ELSE 1
                 w == Touched(m, a, warm, new)
      <4>3. r.dir = m.dir
        BY Zenon, <2>1, LookedUp
      <4>4. mem' = [mem EXCEPT ![g] = w] /\ poolUsed' = poolUsed + new
        BY Zenon, <4>2, <4>3 DEF Touch, Touched, m
      <4>5. new \in {0, 1}
        BY Zenon
      <4>6. Goes(m, w) /\ w.dir = m.dir \cup {a} /\ w.committed = m.committed + new
        <5>1. RegionOf(m, a) # 0 /\ m.regions[RegionOf(m, a)].prot # "none"
          BY Zenon, <4>1 DEF Allowed
        <5>2. new \in Nat
          BY Zenon
        <5> HIDE DEF new
        <5>3. Takes(m, w, a, new)
          BY Zenon, <2>1, <5>1, <5>2, TouchKeeps
        <5> HIDE DEF w
        <5> QED BY Zenon, <5>3 DEF Takes
      <4>7. w \in MemType /\ Layout(w) /\ Covered(w) /\ (~w.live => w.dir = {})
        BY ZenonT(60), <2>3a, <4>1, <4>6
      <4> HIDE DEF w
      <4>8. Cardinality(w.dir) = Cardinality(m.dir) + new
        <5>1. IsFiniteSet(m.dir) /\ Cardinality(m.dir) \in Nat
          BY Zenon, <2>1, PagesFinite
        <5>2. Cardinality(m.dir \cup {a}) = IF a \in m.dir THEN Cardinality(m.dir) ELSE Cardinality(m.dir) + 1
          BY Zenon, <5>1, FS_AddElement
        <5>3. w.dir = m.dir \cup {a}
          BY Zenon, <4>6
        <5> QED BY <5>1, <5>2, <5>3
      <4>9. poolUsed' \in Nat /\ (PoolLimit # 0 => poolUsed' <= PoolLimit)
        <5>1. a \notin m.dir => ~(PoolLimit # 0 /\ poolUsed + 1 > PoolLimit)
          BY Zenon, <4>1 DEF NoRoom
        <5>2. poolUsed \in Nat /\ (PoolLimit # 0 => poolUsed <= PoolLimit) /\ poolUsed' = poolUsed + new
          BY Zenon, <2>1, <4>4
        <5>3. PoolLimit \in Nat
          BY Zenon, MemAssumption
        <5> QED BY <5>1, <5>2, <5>3
      <4> HIDE DEF new
      <4>10. w.committed = Cardinality(w.dir)
        BY Zenon, <2>1, <4>6, <4>8
      <4>11. poolUsed' + Cardinality(m.dir) = poolUsed + Cardinality(w.dir)
        BY <2>1, <4>4, <4>5, <4>8
      <4> QED BY ZenonT(60), <4>4, <4>6, <4>7, <4>9, <4>10, <4>11, GuestMoves DEF m
    <3> QED BY Zenon, <3>2, <3>3
  <2>9. CASE \E z \in 1 .. MaxMap, guard \in BOOLEAN : Mmap(g, z, guard)
    <3>1. PICK z \in 1 .. MaxMap, guard \in BOOLEAN : Mmap(g, z, guard)
      BY Zenon, <2>9
    <3>2. MapEnd(m, z, guard) # Top /\ UNCHANGED poolUsed /\ m.live
      BY Zenon, <3>1, MemAssumption DEF Mmap, m
    <3>3. CASE MapFits(m, z, guard)
      <4> DEFINE guarded == IF guard THEN Mapped(m, Region(Cursor(m), 1, "none")) ELSE m
                 done == Mapped(guarded, Region(Cursor(m) + GuardPages(guard), z, "rw"))
                 w == [done EXCEPT !.next = MapEnd(m, z, guard) % Top]
      <4>1. mem' = [mem EXCEPT ![g] = w]
        BY Zenon, <3>1, <3>3 DEF Mmap, m
      <4>2. Goes(m, w) /\ w.dir = m.dir /\ w.committed = m.committed
        BY SMTT(60), <2>1, <3>2, <3>3, MmapKeeps
      <4> HIDE DEF w
      <4> QED BY ZenonT(60), <2>3a, <2>4, <3>2, <4>1, <4>2
    <3>4. CASE ~MapFits(m, z, guard)
      <4> DEFINE w == [m EXCEPT !.next = Cursor(m)]
      <4>1. mem' = [mem EXCEPT ![g] = w]
        BY Zenon, <3>1, <3>4 DEF Mmap, m
      <4>2. Cursor(m) \in Nat /\ Cursor(m) # 0
        BY <2>1, MemAssumption DEF Cursor, MemType
      <4>3. /\ w \in MemType /\ w.dir = m.dir /\ w.wdir = m.wdir /\ w.committed = m.committed
            /\ w.regions = m.regions /\ w.nregions = m.nregions /\ w.last = m.last
            /\ w.live = m.live /\ w.next = Cursor(m)
        BY Zenon, <2>1, <4>2 DEF MemType
      <4> HIDE DEF w
      <4>4. Cursor(w) = Cursor(m)
        BY Zenon, <4>2, <4>3 DEF Cursor
      <4>5. Layout(w)
        BY ZenonT(60), <2>1, <4>3, <4>4 DEF Layout
      <4>6. Covered(w)
        BY ZenonT(60), <2>1, <4>3 DEF Covered
      <4> QED BY ZenonT(60), <2>1, <2>4, <3>2, <4>1, <4>3, <4>5, <4>6
    <3> QED BY Zenon, <3>3, <3>4
  <2>10. CASE \E b \in Pages, z \in 1 .. MaxMap : Munmap(g, b, z)
    <3>1. PICK b \in Pages, z \in 1 .. MaxMap : Munmap(g, b, z)
      BY Zenon, <2>10
    <3> DEFINE freed == m.dir \cap (b .. b + z - 1)
               k == Cardinality(freed)
               c == Less(m.committed, k)
               w == Unmapped(m, b, z, c)
    <3>2. mem' = [mem EXCEPT ![g] = w] /\ poolUsed' = Less(poolUsed, k) /\ m.live
      <4>1. Compacted(m, Dropped(m, b, z)).committed = m.committed
        BY DEF Compacted
      <4> QED BY Zenon, <3>1, <4>1 DEF Munmap, Unmapped, m
    <3>3. freed \in SUBSET Pages /\ freed \subseteq m.dir /\ m.dir \cap freed = freed
      BY Zenon, <2>1
    <3>4. /\ k \in Nat /\ k <= Cardinality(m.dir)
          /\ Cardinality(m.dir \ freed) = Cardinality(m.dir) - k
      <4>1. IsFiniteSet(m.dir) /\ Cardinality(m.dir) \in Nat /\ k \in Nat
        BY Zenon, <2>1, <3>3, PagesFinite
      <4>2. Cardinality(m.dir \ freed) = Cardinality(m.dir) - Cardinality(m.dir \cap freed)
        BY ZenonT(60), <4>1, FS_Difference
      <4>3. k <= Cardinality(m.dir)
        BY Zenon, <3>3, <4>1, FS_Subset
      <4> QED BY ZenonT(60), <3>3, <4>1, <4>2, <4>3
    <3> HIDE DEF k
    <3>5. c \in Nat /\ c = Cardinality(m.dir \ freed)
      BY <2>1, <3>4 DEF Less
    <3>6. Goes(m, w) /\ w.dir = m.dir \ freed /\ w.committed = c
      <4> HIDE DEF c
      <4>0. c \in Nat
        BY Zenon, <3>5
      <4>1. Goes(m, w) /\ w.dir = PagesLeft(m, b, z) /\ w.committed = c
        BY ZenonT(60), <2>1, <4>0, MunmapKeeps
      <4> HIDE DEF w
      <4> QED BY Zenon, <4>1 DEF PagesLeft
    <3> HIDE DEF w, freed
    <3>7. /\ poolUsed' \in Nat /\ poolUsed' + Cardinality(m.dir) = poolUsed + Cardinality(w.dir)
          /\ (PoolLimit # 0 => poolUsed' <= PoolLimit)
      <4>1. /\ poolUsed \in Nat /\ Cardinality(m.dir) \in Nat /\ Cardinality(m.dir) <= poolUsed
            /\ PoolLimit # 0 => poolUsed <= PoolLimit
        BY Zenon, <2>1, <2>2
      <4>2. poolUsed' = Less(poolUsed, k) /\ Cardinality(w.dir) = Cardinality(m.dir) - k
        BY Zenon, <3>2, <3>4, <3>6
      <4> QED BY <3>4, <4>1, <4>2, MemAssumption DEF Less
    <3> HIDE DEF c
    <3>8. w.committed = Cardinality(w.dir)
      BY Zenon, <3>5, <3>6
    <3>9. w \in MemType /\ Layout(w) /\ Covered(w) /\ (~w.live => w.dir = {})
      BY Zenon, <2>3a, <3>2, <3>6
    <3> QED BY ZenonT(60), <3>2, <3>7, <3>8, <3>9, GuestMoves DEF m
  <2> QED BY Zenon, <1>2, <2>5, <2>6, <2>7, <2>8, <2>9, <2>10
<1> QED BY Zenon, <1>1, <1>2 DEF GmNext

LEMMA MemInvariant ==
  ASSUME ~ReachTop
  PROVE  GmSpec => []MemInv
<1>1. GmInit => MemInv
  <2> SUFFICES ASSUME GmInit PROVE MemInv
    BY Zenon
  <2>1. mem \in [Guests -> MemType] /\ poolUsed = 0 /\ \A g \in Guests : mem[g] = Blank
    BY Zenon, BlankIs DEF GmInit
  <2>2. HeldPages = {}
    BY Zenon, <2>1, BlankIs DEF HeldPages
  <2>3. ChargesBalance
    <3>1. Cardinality({}) = 0
      BY Zenon, FS_EmptySet
    <3> QED BY <2>1, <2>2, <3>1, BlankIs, MemAssumption DEF ChargesBalance
  <2> QED BY Zenon, <2>1, <2>3, BlankIs DEF MemInv
<1>2. MemInv /\ [GmNext]_gmVars => MemInv'
  BY Zenon, MemStep
<1> QED BY <1>1, <1>2, PTL DEF GmSpec

\* The counters by which gm_page refuses memory are the pages that are committed, of each
\* guest and of the pool, for any number of guests, regions and pages; a mapping whose gap
\* ends at the very top of the address space is left out here and below.
THEOREM ChargesExact ==
  ASSUME ~ReachTop
  PROVE  GmSpec => []ChargesBalance
<1>1. MemInv => ChargesBalance
  BY Zenon DEF MemInv
<1> QED BY <1>1, MemInvariant, PTL

\* The write cache, the page directory and the cached lookup of region_of answer as a scan
\* of the region table would.
THEOREM CachesAnswer ==
  ASSUME ~ReachTop
  PROVE  GmSpec => []CachesAgree
<1>1. MemInv => CachesAgree
  <2> SUFFICES ASSUME MemInv, NEW g \in Guests, NEW a \in Pages
               PROVE  /\ RegionOf(mem[g], a) = Scan(mem[g], a)
                      /\ \A rw \in BOOLEAN :
                           (~mem[g].loading /\ Fast(mem[g], a, rw)) =>
                              /\ Scan(mem[g], a) # 0
                              /\ mem[g].regions[Scan(mem[g], a)].prot
                                   \in (IF rw THEN {"rw"} ELSE {"ro", "rw"})
    BY Zenon DEF CachesAgree
  <2> DEFINE m == mem[g]
  <2>1. m \in MemType /\ Layout(m) /\ Covered(m)
    BY Zenon DEF MemInv
  <2> HIDE DEF m
  <2>2. ASSUME NEW rw \in BOOLEAN, Fast(m, a, rw)
        PROVE  Scan(m, a) # 0 /\ m.regions[Scan(m, a)].prot \in (IF rw THEN {"rw"} ELSE {"ro", "rw"})
    <3>1. a \in m.dir /\ (rw => a \in m.wdir)
      BY Zenon, <2>1, <2>2 DEF Fast, Covered
    <3>2. PICK k \in 1 .. m.nregions : /\ Within(m.regions[k], a) /\ m.regions[k].prot # "none"
                                       /\ a \in m.wdir => m.regions[k].prot = "rw"
      BY Zenon, <2>1, <3>1 DEF Covered
    <3>3. Scan(m, a) = k
      BY Zenon, <2>1, <3>2, ScanIs
    <3>4. m.regions[k].prot \in {"none", "ro", "rw"} /\ k # 0
      <4>1. m.regions[k] \in RegionType /\ k \in RegionSlots
        BY Zenon, <2>1, RegionFields DEF Layout
      <4> QED BY <4>1 DEF RegionType, RegionSlots
    <3> QED BY Zenon, <3>1, <3>2, <3>3, <3>4
  <2> QED BY ZenonT(60), <2>1, <2>2, LookupAgrees DEF m
<1> QED BY <1>1, MemInvariant, PTL

\* The regions of a guest never overlap, and a guard page is never without its mapping.
THEOREM RegionsDisjoint ==
  ASSUME ~ReachTop
  PROVE  GmSpec => []RegionsApart
<1>1. MemInv => RegionsApart
  <2> SUFFICES ASSUME MemInv, NEW g \in Guests, NEW k \in 1 .. mem[g].nregions
               PROVE  /\ \A l \in 1 .. mem[g].nregions \ {k} :
                           \A a \in Pages : ~(Within(mem[g].regions[k], a) /\ Within(mem[g].regions[l], a))
                      /\ mem[g].regions[k].prot = "none" =>
                           /\ k < mem[g].nregions
                           /\ mem[g].regions[k+1].prot = "rw"
                           /\ mem[g].regions[k+1].base = mem[g].regions[k].base + 1
    BY Zenon DEF RegionsApart
  <2>1. mem[g] \in MemType /\ Layout(mem[g])
    BY Zenon DEF MemInv
  <2>2. ASSUME NEW l \in 1 .. mem[g].nregions \ {k}, NEW a \in Pages,
               Within(mem[g].regions[k], a), Within(mem[g].regions[l], a)
        PROVE  FALSE
    <3>1. Scan(mem[g], a) = k
      BY Zenon, <2>1, <2>2, ScanIs
    <3>2. Scan(mem[g], a) = l
      BY Zenon, <2>1, <2>2, ScanIs
    <3> QED BY Zenon, <3>1, <3>2
  <2> QED BY ZenonT(60), <2>1, <2>2 DEF Layout
<1> QED BY <1>1, MemInvariant, PTL

=============================================================================
