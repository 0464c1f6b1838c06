----------------------------- MODULE AllocProofs ----------------------------
(***************************************************************************)
(* Two allocators, proved for every size of what they hand out.  Building  *)
(* a process: no failed call leaks a CPU or breaks the promise of          *)
(* ProcTable.  Registers: the temps that are live together have homes      *)
(* apart.                                                                  *)
(***************************************************************************)
EXTENDS SchedBuild, RegAlloc, FiniteSetTheorems, TLAPS

(***************************************************************************)
(* The CPUs of the processes.                                              *)
(***************************************************************************)


USE BuildAssumption

\* One CPU more than processes while a build has one and is not in the table.
Owned == Cardinality(used) + (IF pc = "mem_init" THEN 1 ELSE 0)

\* The table is filled up to nprocs at most, a build in progress owns its slot,
\* and the process in it has no handle yet.
BuildInv ==
  /\ used \subseteq 0 .. nprocs - 1
  /\ cpus = Owned
  /\ pc = "mem_init" => slot \notin used /\ slot < nprocs
  /\ pc \in {"load", "accept", "finish"} => slot \in used /\ handle[slot] = 0

BInv == TypeOK /\ BuildInv

LEMMA HandleType ==
  ASSUME NEW s \in Slots, NEW g \in Nat
  PROVE  PROC_HANDLE(s, g) \in Nat
BY DEF PROC_HANDLE, Slots

\* Counting the slots in use.
LEMMA Counts ==
  ASSUME TypeOK
  PROVE  /\ Cardinality(used) \in 0 .. MaxProc
         /\ \A s \in Slots : s \notin used =>
              /\ Cardinality(used \cup {s}) = Cardinality(used) + 1
              /\ Cardinality(used) < MaxProc
         /\ \A s \in used : /\ Cardinality(used \ {s}) = Cardinality(used) - 1
                           /\ Cardinality(used) > 0
<1>1. IsFiniteSet(Slots) /\ Cardinality(Slots) = MaxProc
  BY FS_Interval DEF Slots
<1>2. IsFiniteSet(used) /\ Cardinality(used) <= MaxProc
  BY Zenon, <1>1, FS_Subset DEF TypeOK
<1>3. Cardinality(used) \in Nat
  BY Zenon, <1>2, FS_CardinalityType
<1>4. ASSUME NEW s \in Slots, s \notin used
      PROVE  Cardinality(used \cup {s}) = Cardinality(used) + 1 /\ Cardinality(used) < MaxProc
  <2>1. Cardinality(used \cup {s}) = Cardinality(used) + 1
    BY Zenon, <1>2, <1>4, FS_AddElement
  <2>2. used \cup {s} \in SUBSET Slots
    BY DEF TypeOK
  <2>3. Cardinality(used \cup {s}) <= MaxProc
    BY Zenon, <1>1, <2>2, FS_Subset
  <2> QED BY <1>3, <2>1, <2>3
<1>5. ASSUME NEW s \in used
      PROVE  Cardinality(used \ {s}) = Cardinality(used) - 1 /\ Cardinality(used) > 0
  <2>1. Cardinality(used \ {s}) = Cardinality(used) - 1
    BY Zenon, <1>2, FS_RemoveElement
  <2>2. Cardinality(used) # 0
    BY <1>2, FS_EmptySet
  <2> QED BY <1>3, <2>1, <2>2
<1> QED BY <1>2, <1>3, <1>4, <1>5

\* A slot is taken inside the table or right at its end.
LEMMA SlotTaken ==
  ASSUME BInv, NEW s \in Slots, TakesSlot(s)
  PROVE  nprocs' \in nprocs .. MaxProc /\ s < nprocs'
<1>1. nprocs \in 0 .. MaxProc /\ used \subseteq 0 .. nprocs - 1
  BY Zenon DEF BInv, BuildInv, TypeOK
<1>2. s <= nprocs
  <2> SUFFICES ASSUME s > nprocs PROVE FALSE
    BY <1>1 DEF Slots
  <2>1. nprocs \in 0 .. s - 1
    BY <1>1 DEF Slots
  <2>2. nprocs \in used
    BY Zenon, <2>1 DEF TakesSlot
  <2> QED BY <1>1, <2>2
<1> QED BY <1>1, <1>2 DEF TakesSlot, Slots

LEMMA TableGrows ==
  ASSUME NEW n \in 0 .. MaxProc, NEW m \in n .. MaxProc, NEW S \in SUBSET (0 .. n - 1)
  PROVE  m \in 0 .. MaxProc /\ S \subseteq 0 .. m - 1
<1>1. m \in 0 .. MaxProc
  OBVIOUS
<1>2. \A x \in S : x \in 0 .. n - 1
  BY Zenon
<1>3. \A x \in 0 .. n - 1 : x \in 0 .. m - 1
  OBVIOUS
<1> QED BY Zenon, <1>1, <1>2, <1>3

LEMMA BuildStep == BInv /\ [Next]_vars => BInv'
<1> SUFFICES ASSUME BInv, [Next]_vars PROVE BInv'
  BY Zenon
<1> USE DEF BInv
<1>t. /\ used \subseteq Slots /\ handle \in [Slots -> Nat] /\ slot_gen \in [Slots -> Nat]
      /\ nprocs \in 0 .. MaxProc /\ slot \in Slots /\ cpus \in 0 .. MaxProc
      /\ cpus \in Int /\ MaxProc \in Nat
  BY DEF TypeOK
<1>c. /\ Cardinality(used) \in 0 .. MaxProc
      /\ \A s \in Slots : s \notin used =>
           /\ Cardinality(used \cup {s}) = Cardinality(used) + 1
           /\ Cardinality(used) < MaxProc
      /\ \A s \in used : /\ Cardinality(used \ {s}) = Cardinality(used) - 1
                           /\ Cardinality(used) > 0
  BY Zenon, Counts
<1>u. used \in SUBSET (0 .. nprocs - 1) /\ cpus = Owned
  BY Zenon DEF BuildInv
<1>1. CASE AllocFails
  <2>1. nprocs' \in nprocs .. MaxProc
    BY <1>1, <1>t, SlotTaken DEF AllocFails
  <2>2. used' \subseteq 0 .. nprocs' - 1 /\ nprocs' \in 0 .. MaxProc
    BY Zenon, <1>1, <1>t, <1>u, <2>1, TableGrows DEF AllocFails
  <2> QED BY Zenon, <1>1, <1>t, <2>2 DEF AllocFails, TypeOK, BuildInv, Owned
<1>2. CASE Alloc
  <2>1. PICK s \in Slots : TakesSlot(s) /\ slot' = s
    BY Zenon, <1>2 DEF Alloc
  <2>2. nprocs' \in nprocs .. MaxProc /\ s \notin used /\ s < nprocs'
    BY Zenon, <2>1, SlotTaken DEF TakesSlot
  <2>3. cpus = Cardinality(used)
    BY <1>2, <1>c, <1>u DEF Alloc, Owned
  <2>5. Cardinality(used) < MaxProc
    BY Zenon, <1>c, <2>1, <2>2
  <2>6. cpus' = Cardinality(used) + 1 /\ cpus' \in 0 .. MaxProc
    BY <1>2, <1>c, <1>t, <2>3, <2>5 DEF Alloc
  <2>4. used' \subseteq 0 .. nprocs' - 1 /\ nprocs' \in 0 .. MaxProc
    BY Zenon, <1>2, <1>t, <1>u, <2>2, TableGrows DEF Alloc
  <2> QED BY Zenon, <1>2, <1>t, <2>1, <2>2, <2>4, <2>6 DEF Alloc, TypeOK, BuildInv, Owned
<1>3. CASE MemInitFails
  <2>1. cpus' = Cardinality(used)
    BY <1>3, <1>c DEF MemInitFails, BuildInv, Owned
  <2> QED BY <1>3, <1>t, <1>c, <2>1 DEF MemInitFails, TypeOK, BuildInv, Owned
<1>4. CASE MemInit
  <2>1. cpus' = Cardinality(used')
    BY Zenon, <1>4, <1>t, <1>c DEF MemInit, BuildInv, Owned
  <2>2. slot < nprocs
    BY Zenon, <1>4 DEF MemInit, BuildInv
  <2>3. used' \subseteq 0 .. nprocs' - 1
    BY <1>4, <1>t, <2>2 DEF MemInit, BuildInv, Slots
  <2> QED BY <1>4, <1>t, <2>1, <2>3 DEF MemInit, TypeOK, BuildInv, Owned
<1>5. ASSUME pc \in {"load", "accept"}, Discard PROVE BInv'
  <2>1. slot \in used /\ cpus = Cardinality(used)
    BY <1>5, <1>c DEF BuildInv, Owned
  <2>2. cpus' = Cardinality(used') /\ cpus' \in 0 .. MaxProc
    BY <1>5, <1>c, <2>1, Counts DEF Discard
  <2> QED BY <1>5, <1>t, <2>2 DEF Discard, TypeOK, BuildInv, Owned
<1>6. CASE LoadFails \/ Rejects
  BY Zenon, <1>5, <1>6 DEF LoadFails, Rejects
<1>7. CASE Load \/ Accepts
  BY Zenon, <1>7, <1>t DEF Load, Accepts, TypeOK, BuildInv, Owned
<1>8. CASE FinishFails
  BY Zenon, <1>8, <1>t DEF FinishFails, TypeOK, BuildInv, Owned
<1>9. CASE Finish
  <2>1. PROC_HANDLE(slot, slot_gen[slot]) \in Nat
    BY Zenon, <1>t, HandleType
  <2>2. vdso_state' \in {-1, 0, 1}
    BY Zenon, <1>9 DEF Finish, NewVdsoState, TypeOK
  <2> QED BY Zenon, <1>9, <1>t, <2>1, <2>2 DEF Finish, TypeOK, BuildInv, Owned
<1>10. ASSUME NEW s \in Slots, Reap(s) PROVE BInv'
  <2>1. cpus = Cardinality(used) /\ s \in used
    BY <1>10, <1>c DEF Reap, BuildInv, Owned
  <2>2. cpus' = Cardinality(used') /\ cpus' \in 0 .. MaxProc
    BY <1>10, <1>c, <2>1 DEF Reap
  <2> QED BY <1>10, <1>t, <2>2 DEF Reap, TypeOK, BuildInv, Owned
<1>11. CASE UNCHANGED vars
  BY <1>11 DEF vars, TypeOK, BuildInv, Owned
<1> QED BY Zenon, <1>1, <1>2, <1>3, <1>4, <1>6, <1>7, <1>8, <1>9, <1>10, <1>11 DEF Next

LEMMA BuildInvariant == Spec => []BInv
<1>1. Init => BInv
  BY FS_EmptySet DEF Init, BInv, TypeOK, BuildInv, Owned, Slots
<1> QED BY <1>1, BuildStep, PTL DEF Spec

\* Whichever call of proc_alloc, the loader, proc_accept or proc_finish fails,
\* and in whatever order builds and reaps come, every CPU between two builds
\* belongs to a process of the table.
THEOREM BuildLeaksNothing == Spec => [](TypeOK /\ NoCpuLeaks)
<1>1. BInv => NoCpuLeaks
  <2> SUFFICES ASSUME BInv, pc = "idle" PROVE cpus = Cardinality(used)
    BY Zenon DEF NoCpuLeaks
  <2>1. Cardinality(used) \in 0 .. MaxProc
    BY Zenon, Counts DEF BInv
  <2> QED BY <2>1 DEF BInv, BuildInv, Owned
<1> QED BY <1>1, BuildInvariant, PTL DEF BInv

TableOf(us, hs) == [s \in Slots |-> IF s \in us THEN hs[s] ELSE 0]

\* A build shows in the table only when proc_finish issues the handle; giving
\* up, at whatever call, shows nothing.
THEOREM BuildImplementsTable == Spec => TableSpec
<1>1. Init => Table!Init
  BY Zenon DEF Init, Table!Init, Table!Slots, Slots
<1>2. ASSUME BInv, [Next]_vars PROVE [Table!Next]_(Table!tvars)
  <2> USE DEF BInv
  <2>t. used \subseteq Slots /\ handle \in [Slots -> Nat] /\ slot \in Slots
        /\ slot_gen \in [Slots -> Nat]
    BY Zenon, <1>2 DEF TypeOK
  <2>q. ASSUME TableOf(used', handle') = TableOf(used, handle), slot_gen' = slot_gen
        PROVE  UNCHANGED Table!tvars
    BY Zenon, <2>q DEF TableOf, Table!tvars
  <2>1. CASE AllocFails \/ Alloc \/ MemInitFails \/ Load \/ Accepts \/ FinishFails
             \/ UNCHANGED vars
    <3>1. used' = used /\ handle' = handle /\ slot_gen' = slot_gen
      BY Zenon, <2>1 DEF AllocFails, Alloc, MemInitFails, Load, Accepts, FinishFails, vars
    <3> QED BY Zenon, <2>q, <3>1
  <2>2. CASE MemInit
    BY <1>2, <2>2, <2>q, <2>t DEF MemInit, BuildInv, TableOf
  <2>3. CASE LoadFails \/ Rejects
    BY Zenon, <1>2, <2>3, <2>q, <2>t DEF LoadFails, Rejects, Discard, BuildInv, TableOf
  <2>4. CASE Finish
    <3>1. PICK s \in Slots : s = slot
      BY Zenon, <2>t
    <3>2. s \in used /\ handle[s] = 0
      BY Zenon, <1>2, <2>4, <3>1 DEF Finish, BuildInv
    <3>3. TableOf(used, handle)[s] = 0
      BY Zenon, <3>2 DEF TableOf
    <3>4. TableOf(used', handle') =
            [TableOf(used, handle) EXCEPT ![s] = PROC_HANDLE(s, slot_gen[s])]
      BY ZenonT(40), <2>4, <2>t, <3>1, <3>2 DEF Finish, TableOf
    <3>5. slot_gen' = slot_gen
      BY Zenon, <2>4 DEF Finish
    <3>6. Table!Add(s)
      BY Zenon, <3>3, <3>4, <3>5 DEF TableOf, Table!Add, Table!Handle, PROC_HANDLE
    <3> QED BY Zenon, <3>6 DEF Table!Next, Table!Slots, Slots
  <2>5. ASSUME NEW s \in Slots, Reap(s) PROVE Table!Next
    <3>1. TableOf(used, handle)[s] # 0
      BY Zenon, <2>5 DEF Reap, TableOf
    <3>2. TableOf(used', handle') =
            [t \in Slots |-> IF t \in {s} THEN 0 ELSE TableOf(used, handle)[t]]
      BY Zenon, <2>5 DEF Reap, TableOf
    <3>3. slot_gen' = [t \in Slots |-> IF t \in {s} THEN slot_gen[t] + 1 ELSE slot_gen[t]]
      BY Zenon, <2>5, <2>t DEF Reap
    <3>4. Table!Retire({s})
      BY Zenon, <3>1, <3>2, <3>3 DEF TableOf, Table!Retire, Table!Slots, Slots
    <3> QED BY <3>4 DEF Table!Next, Table!Slots, Slots
  <2> HIDE DEF BInv
  <2> QED BY Zenon, <1>2, <2>1, <2>2, <2>3, <2>4, <2>5 DEF Next
<1> QED BY <1>1, <1>2, BuildInvariant, PTL DEF Spec, TableSpec, Table!Spec

(***************************************************************************)
(* The registers of a function.  The inductive invariant speaks of the     *)
(* class the linear scan is at: what it has placed has one home, what is   *)
(* active has registers of its own, and what has expired ended before the  *)
(* start of all that is still to be placed.                                *)
(***************************************************************************)

HIDE BuildAssumption

RaClass == {"i64", "int", "float"}

\* Every argument passed since the last call is in pending[].
ArgsKept == \A t \in waiting : \E k \in 1 .. Len(pending) : pending[k] = t

RaType ==
  /\ stage \in {"scan", "done", "died"} \cup RaClass
  /\ cls \in [Temps -> RaClass] /\ pinned \in SUBSET (0 .. IntRegs - 1)
  /\ ip \in Nat /\ firstDef \in [Temps -> Int] /\ lastUse \in [Temps -> Int]
  /\ lastRead \in [Temps -> Int] /\ pending \in Seq(Temps) /\ waiting \in SUBSET Temps
  /\ todo \in SUBSET Temps /\ active \in SUBSET Temps /\ pool \in SUBSET Int
  /\ reg \in [Temps -> Int] /\ spill \in [Temps -> Int] /\ slots \in [RaClass -> Nat]

\* The live range of the scan covers every instruction that needs the temp.
RaRanges == \A t \in Temps : lastRead[t] <= lastUse[t] /\ lastUse[t] < ip

\* Nothing is placed before the live ranges are known.
RaFresh ==
  /\ stage = "scan" => \A t \in Temps : reg[t] = -1 /\ spill[t] = -1
  /\ stage \notin RaClass => todo = {}

\* Class c has been allocated.
Behind(c) ==
  \/ stage = "done"
  \/ c = "i64" /\ stage \in {"int", "float"}
  \/ c = "int" /\ stage = "float"

\* linscan() has been at t.
Placed(t) == firstDef[t] >= 0 /\ (Behind(cls[t]) \/ (cls[t] = stage /\ t \notin todo))

\* What is placed has a register or a slot, and nothing else has either.
OneHome ==
  \A t \in Temps : /\ Placed(t) => (reg[t] >= 0) # (spill[t] >= 0)
                   /\ ~Placed(t) => reg[t] = -1 /\ spill[t] = -1

\* A register is one of its class, and no pinned one.
InRange ==
  \A t \in Temps :
    reg[t] >= 0 => reg[t] < NumRegs(cls[t]) /\ (cls[t] = "int" => reg[t] \notin pinned)

\* The scan of a class: active intervals have registers of their own, none of them
\* free, and what has expired ended before the start of all that is still to come.
Scanning ==
  stage \in RaClass =>
    /\ \A t \in todo : cls[t] = stage /\ firstDef[t] >= 0
    /\ \A t \in active : cls[t] = stage /\ reg[t] >= 0
    /\ \A r \in pool : r >= 0 /\ r < NumRegs(stage) /\ (stage = "int" => r \notin pinned)
    /\ \A u, v \in active : reg[u] = reg[v] => u = v
    /\ \A u \in active : reg[u] \notin pool
    /\ \A v \in Temps : cls[v] = stage /\ reg[v] >= 0 /\ v \notin active
                        => \A u \in todo : End(v) < firstDef[u]

\* Two temps of one register are never live together.
RegsShared ==
  \A t, u \in Temps :
    t # u /\ cls[t] = cls[u] /\ reg[t] >= 0 /\ reg[t] = reg[u]
      => End(t) < firstDef[u] \/ End(u) < firstDef[t]

\* The slots of a spill area lie below its count, one beside the other.
SlotsApart ==
  /\ \A t \in Temps : spill[t] >= 0 => spill[t] + SpillSize(cls[t]) <= slots[cls[t]] * SpillSize(cls[t])
  /\ \A t, u \in Temps :
       t # u /\ cls[t] = cls[u] /\ spill[t] >= 0 /\ spill[u] >= 0
         => spill[t] + SpillSize(cls[t]) <= spill[u] \/ spill[u] + SpillSize(cls[u]) <= spill[t]

\* Pins and pairs never meet.
PinsSafe == stage \in {"int", "float", "done"} => PairRegs = 0 \/ pinned = {}

\* The inductive invariant of the scan, and of the whole.
AllocInv == OneHome /\ InRange /\ Scanning /\ RegsShared /\ SlotsApart /\ PinsSafe

RaInv == /\ RaType /\ RaRanges /\ RaFresh
         /\ stage \in {"i64", "int", "float", "done"} => AllocInv

\* -1 stands for no register and no slot.
LEMMA NoneIsNegative == ASSUME NEW x, x = -1 PROVE ~(x >= 0)
OBVIOUS

\* A pair in use keeps the two registers it stands for off the integers' range.
LEMMA PairBelow ==
  ASSUME RaType, NEW t \in Temps, cls[t] = "i64", reg[t] >= 0, reg[t] < Pairs
  PROVE  PairRegs \in Nat /\ PairRegs >= 2 * (reg[t] + 1)
<1> DEFINE S == {p \in 0 .. Pairs - 1 : \E u \in Temps : cls[u] = "i64" /\ reg[u] >= p}
           L == 0 .. reg[t]
<1>1. reg[t] \in Int /\ Pairs \in Nat
  BY Zenon, RaAssumption DEF RaType
<1>2. L \subseteq S
  BY <1>1
<1>3. IsFiniteSet(0 .. Pairs - 1)
  BY <1>1, FS_Interval
<1>4. IsFiniteSet(S) /\ Cardinality(S) \in Nat
  <2>1. S \subseteq 0 .. Pairs - 1
    BY Zenon
  <2> QED BY Zenon, <1>3, <2>1, FS_Subset, FS_CardinalityType
<1>5. Cardinality(L) = reg[t] + 1
  <2>1. 0 \in Int /\ 0 <= reg[t]
    BY <1>1
  <2>2. Cardinality(0 .. reg[t]) = IF 0 > reg[t] THEN 0 ELSE reg[t] - 0 + 1
    BY Zenon, <1>1, <2>1, FS_Interval
  <2> QED BY <1>1, <2>1, <2>2
<1>6. Cardinality(L) <= Cardinality(S)
  BY Zenon, <1>2, <1>4, FS_Subset
<1>7. PairRegs = 2 * Cardinality(S)
  BY Zenon DEF PairRegs
<1> HIDE DEF S, L
<1> QED BY <1>1, <1>4, <1>5, <1>6, <1>7

LEMMA PairType == RaType => PairRegs \in Nat
<1> SUFFICES ASSUME RaType PROVE PairRegs \in Nat
  BY Zenon
<1> DEFINE S == {p \in 0 .. Pairs - 1 : \E u \in Temps : cls[u] = "i64" /\ reg[u] >= p}
<1>1. IsFiniteSet(0 .. Pairs - 1)
  BY RaAssumption, FS_Interval
<1>2. S \subseteq 0 .. Pairs - 1
  BY Zenon
<1>3. Cardinality(S) \in Nat
  BY Zenon, <1>1, <1>2, FS_Subset, FS_CardinalityType
<1>4. PairRegs = 2 * Cardinality(S)
  BY Zenon DEF PairRegs
<1> HIDE DEF S
<1> QED BY <1>3, <1>4

\* What the pairs take depends on the registers of the pairs only.
LEMMA PairSame ==
  ASSUME cls' = cls, \A u \in Temps : cls[u] = "i64" => reg'[u] = reg[u]
  PROVE  PairRegs' = PairRegs
<1> DEFINE In(p) == \E u \in Temps : cls[u] = "i64" /\ reg[u] >= p
           InP(p) == \E u \in Temps : cls'[u] = "i64" /\ reg'[u] >= p
<1>1. \A p \in 0 .. Pairs - 1 : In(p) <=> InP(p)
  BY Zenon
<1>2. {p \in 0 .. Pairs - 1 : In(p)} = {p \in 0 .. Pairs - 1 : InP(p)}
  BY Zenon, <1>1
<1>3. PairRegs = 2 * Cardinality({p \in 0 .. Pairs - 1 : In(p)})
  BY Zenon DEF PairRegs
<1>4. PairRegs' = 2 * Cardinality({p \in 0 .. Pairs - 1 : InP(p)})
  BY Zenon DEF PairRegs
<1> QED BY Zenon, <1>2, <1>3, <1>4

\* Placing temps of one class leaves the widths of the classes placed so far.
LEMMA Widths ==
  ASSUME RaType, stage \in RaClass, OneHome, InRange, PinsSafe,
         cls' = cls, pinned' = pinned, stage' = stage, firstDef' = firstDef,
         reg' \in [Temps -> Int],
         \A u \in Temps : cls[u] # stage => reg'[u] = reg[u],
         \A u \in Temps : cls[u] = stage /\ reg'[u] >= 0 =>
            reg'[u] < NumRegs(stage) /\ (stage = "int" => reg'[u] \notin pinned)
  PROVE  InRange' /\ PinsSafe' /\ NumRegs(stage)' = NumRegs(stage)
<1>1. stage # "i64" => PairRegs' = PairRegs
  BY Zenon, PairSame
<1>2. \A c \in RaClass : stage # "i64" => NumRegs(c)' = NumRegs(c)
  BY Zenon, <1>1 DEF NumRegs, RaClass
<1>3. \A c \in {"i64", "float"} : NumRegs(c)' = NumRegs(c)
  BY Zenon DEF NumRegs
<1>4. NumRegs(stage)' = NumRegs(stage)
  BY Zenon, <1>2, <1>3 DEF RaClass
<1>5. PinsSafe'
  BY Zenon, <1>1 DEF PinsSafe
<1>6. InRange'
  <2> SUFFICES ASSUME NEW u \in Temps, reg'[u] >= 0
               PROVE  reg'[u] < NumRegs(cls[u])' /\ (cls[u] = "int" => reg'[u] \notin pinned)
    BY Zenon DEF InRange
  <2>1. CASE cls[u] = stage
    BY Zenon, <1>4, <2>1
  <2>2. CASE cls[u] # stage
    <3>1. reg'[u] = reg[u] /\ cls[u] \in RaClass
      BY Zenon, <2>2 DEF RaType
    <3>2. stage # "i64" \/ cls[u] # "int"
      BY <3>1 DEF OneHome, Placed, Behind, RaType
    <3> QED BY Zenon, <1>2, <1>3, <2>2, <3>1, <3>2 DEF InRange, RaClass
  <2> QED BY Zenon, <2>1, <2>2
<1> QED BY Zenon, <1>4, <1>5, <1>6

\* A new spill slot lies above the others of its area.
LEMMA SpillKeeps ==
  ASSUME RaType, SlotsApart, NEW x \in Temps, cls[x] = stage, SpillTo(x), cls' = cls
  PROVE  /\ SlotsApart' /\ spill' \in [Temps -> Int] /\ slots' \in [RaClass -> Nat]
         /\ spill'[x] >= 0 /\ \A u \in Temps \ {x} : spill'[u] = spill[u]
<1> DEFINE z == SpillSize(stage)
<1>1. stage \in RaClass /\ z \in {4, 8}
  BY Zenon DEF RaType, SpillSize
<1>2. spill \in [Temps -> Int] /\ slots \in [RaClass -> Nat] /\ slots[stage] \in Nat
  BY Zenon, <1>1 DEF RaType
<1>3. spill' = [spill EXCEPT ![x] = slots[stage] * z] /\ slots' = [slots EXCEPT ![stage] = slots[stage] + 1]
  BY Zenon DEF SpillTo
<1> HIDE DEF z
<1>4. slots[stage] * z \in Nat /\ (slots[stage] + 1) * z = slots[stage] * z + z
  BY <1>1, <1>2
<1>5. /\ spill' \in [Temps -> Int] /\ slots' \in [RaClass -> Nat]
      /\ spill'[x] = slots[stage] * z /\ \A u \in Temps \ {x} : spill'[u] = spill[u]
      /\ slots'[stage] = slots[stage] + 1 /\ \A c \in RaClass \ {stage} : slots'[c] = slots[c]
  BY <1>1, <1>2, <1>3, <1>4
<1>6. \A u \in Temps : SpillSize(cls[u])' = SpillSize(cls[u]) /\ SpillSize(cls[u]) \in {4, 8}
  BY Zenon DEF SpillSize, RaType
<1>7. \A u \in Temps : cls[u] \in RaClass /\ spill[u] \in Int
  BY Zenon DEF RaType
<1>8. \A u \in Temps : spill[u] >= 0 => spill[u] + SpillSize(cls[u]) <= slots[cls[u]] * SpillSize(cls[u])
  BY Zenon DEF SlotsApart
<1>9. \A u \in Temps : cls[u] = stage => SpillSize(cls[u]) = z
  BY Zenon DEF z
<1>10. ASSUME NEW u \in Temps, spill'[u] >= 0
       PROVE  spill'[u] + SpillSize(cls[u]) <= slots'[cls[u]] * SpillSize(cls[u])
  <2>1. CASE u = x
    BY <1>1, <1>4, <1>5, <1>9, <2>1
  <2>2. CASE u # x /\ cls[u] = stage
    BY SMTT(20), <1>1, <1>4, <1>5, <1>7, <1>8, <1>9, <1>10, <2>2
  <2>3. CASE u # x /\ cls[u] # stage
    BY Zenon, <1>5, <1>7, <1>8, <1>10, <2>3
  <2> QED BY Zenon, <2>1, <2>2, <2>3
<1>11. ASSUME NEW t \in Temps, NEW u \in Temps, t # u, cls[t] = cls[u], spill'[t] >= 0, spill'[u] >= 0
       PROVE  spill'[t] + SpillSize(cls[t]) <= spill'[u] \/ spill'[u] + SpillSize(cls[u]) <= spill'[t]
  <2>1. CASE t = x
    BY SMTT(20), <1>1, <1>4, <1>5, <1>7, <1>8, <1>9, <1>11, <2>1
  <2>2. CASE u = x
    BY SMTT(20), <1>1, <1>4, <1>5, <1>7, <1>8, <1>9, <1>11, <2>2
  <2>3. CASE t # x /\ u # x
    BY Zenon, <1>5, <1>11, <2>3 DEF SlotsApart
  <2> QED BY Zenon, <2>1, <2>2, <2>3
<1>12. SlotsApart'
  BY Zenon, <1>6, <1>10, <1>11 DEF SlotsApart
<1> QED BY <1>4, <1>5, <1>12

\* One pass over the instructions.
LEMMA ScanKeeps ==
  ASSUME RaInv, ArgsKept, stage = "scan",
         NEW D \in SUBSET Temps, NEW U \in SUBSET Temps,
         ScanInsn(D, U) \/ ScanCall(D, U) \/ \E t \in Temps : ScanArg(t)
  PROVE  RaInv'
<1>1. RaType /\ RaRanges /\ RaFresh
  BY Zenon DEF RaInv
<1>2. /\ ip' = ip + 1 /\ stage' = stage /\ cls' = cls /\ pinned' = pinned
      /\ firstDef' = [u \in Temps |-> IF u \in D /\ firstDef[u] < 0 THEN ip ELSE firstDef[u]]
         \/ firstDef' = [u \in Temps |-> IF u \in {} /\ firstDef[u] < 0 THEN ip ELSE firstDef[u]]
      /\ UNCHANGED <<todo, active, pool, reg, spill, slots>>
  BY Zenon DEF ScanInsn, ScanArg, ScanCall, Touch, placeVars
<1>3. ip \in Nat /\ firstDef \in [Temps -> Int] /\ lastUse \in [Temps -> Int] /\ lastRead \in [Temps -> Int]
      /\ pending \in Seq(Temps) /\ waiting \in SUBSET Temps
  BY Zenon, <1>1 DEF RaType
<1>4. ip' \in Nat /\ firstDef' \in [Temps -> Int]
  BY <1>2, <1>3
<1> DEFINE Rest == /\ lastUse' \in [Temps -> Int] /\ lastRead' \in [Temps -> Int]
                   /\ pending' \in Seq(Temps) /\ waiting' \in SUBSET Temps
                   /\ \A u \in Temps : lastRead'[u] <= lastUse'[u] /\ lastUse'[u] <= ip
<1>5. Rest
  <2>1. \A u \in Temps : lastRead[u] <= lastUse[u] /\ lastUse[u] < ip /\ lastUse[u] \in Int /\ lastRead[u] \in Int
    BY Zenon, <1>1, <1>3 DEF RaRanges
  <2>2. CASE ScanInsn(D, U)
    <3>1. /\ lastUse' = [u \in Temps |-> IF u \in D \cup U THEN ip ELSE lastUse[u]]
          /\ lastRead' = [u \in Temps |-> IF u \in D \cup U THEN ip ELSE lastRead[u]]
          /\ pending' = pending /\ waiting' = waiting
      BY Zenon, <2>2 DEF ScanInsn, Upto
    <3> QED BY <1>3, <2>1, <3>1
  <2>3. CASE \E t \in Temps : ScanArg(t)
    <3>0. PICK t \in Temps : ScanArg(t)
      BY Zenon, <2>3
    <3>1. /\ lastUse' = [u \in Temps |-> IF u \in {t} THEN ip ELSE lastUse[u]]
          /\ lastRead' = lastRead /\ waiting' = waiting \cup {t}
          /\ pending' = Append(pending, t) \/ pending' = pending
      BY Zenon, <3>0 DEF ScanArg, Upto
    <3>2. Append(pending, t) \in Seq(Temps) /\ waiting \cup {t} \in SUBSET Temps
      BY <1>3
    <3>3. \A u \in Temps : lastRead'[u] <= lastUse'[u] /\ lastUse'[u] <= ip
      BY <1>3, <2>1, <3>1
    <3>4. lastUse' \in [Temps -> Int] /\ lastRead' \in [Temps -> Int]
      BY <1>3, <3>1
    <3>5. pending' \in Seq(Temps) /\ waiting' \in SUBSET Temps
      BY Zenon, <1>3, <3>1, <3>2
    <3> QED BY Zenon, <3>3, <3>4, <3>5
  <2>4. CASE ScanCall(D, U)
    <3> DEFINE P == {pending[k] : k \in 1 .. Len(pending)}
    <3>1. /\ lastUse' = [u \in Temps |-> IF u \in D \cup U \cup P THEN ip ELSE lastUse[u]]
          /\ lastRead' = [u \in Temps |-> IF u \in D \cup U \cup waiting THEN ip ELSE lastRead[u]]
          /\ pending' = <<>> /\ waiting' = {}
      BY Zenon, <2>4 DEF ScanCall, Upto
    <3>2. waiting \subseteq P
      BY Zenon DEF ArgsKept
    <3> HIDE DEF P
    <3>3. <<>> \in Seq(Temps) /\ {} \in SUBSET Temps
      OBVIOUS
    <3> QED BY <1>3, <2>1, <3>1, <3>2, <3>3
  <2> QED BY Zenon, <2>2, <2>3, <2>4
<1>6. RaType'
  BY Zenon, <1>1, <1>2, <1>4, <1>5 DEF RaType
<1>7. RaRanges'
  BY <1>2, <1>3, <1>5 DEF RaRanges
<1>8. RaFresh'
  BY Zenon, <1>1, <1>2 DEF RaFresh
<1>9. stage' = "scan"
  BY Zenon, <1>2
<1> QED BY Zenon, <1>6, <1>7, <1>8, <1>9 DEF RaInv

\* A class is done: the next one, the end, or the rejection of a pin.
LEMMA StageKeeps ==
  ASSUME RaInv, EndScan \/ BeginInt \/ BeginFloat \/ EndAlloc
  PROVE  RaInv'
<1>1. RaType /\ RaRanges /\ RaFresh
  BY Zenon DEF RaInv
<1>2. UNCHANGED <<cls, pinned, ip, firstDef, lastUse, pending, waiting, lastRead, reg, spill, slots>>
  BY Zenon DEF EndScan, BeginInt, BeginFloat, EndAlloc, BeginClass, scanVars, placeVars
<1>3. RaRanges'
  BY Zenon, <1>1, <1>2 DEF RaRanges
<1>4. PairRegs' = PairRegs /\ \A c \in RaClass : NumRegs(c)' = NumRegs(c)
  <2>1. PairRegs' = PairRegs
    BY ZenonT(30), <1>2, PairSame
  <2> QED BY Zenon, <2>1 DEF NumRegs
<1>5. RegsShared /\ SlotsApart => RegsShared' /\ SlotsApart'
  BY <1>2 DEF RegsShared, SlotsApart, End, SpillSize
<1>6. InRange => InRange'
  BY Zenon, <1>1, <1>2, <1>4 DEF InRange, RaType
<1>7. ASSUME NEW c \in RaClass, BeginClass(c),
             \A u \in Temps : cls[u] = c => reg[u] = -1,
             \A u \in Temps : Placed(u)' <=> Placed(u),
             OneHome, InRange, RegsShared, SlotsApart, PinsSafe'
      PROVE  RaInv'
  <2>1. /\ stage' = c /\ todo' = {u \in Temps : cls[u] = c /\ firstDef[u] >= 0}
        /\ active' = {} /\ pool' = (0 .. NumRegs(c) - 1) \ IF c = "int" THEN pinned ELSE {}
    BY Zenon, <1>7 DEF BeginClass
  <2>2. NumRegs(c) \in Nat /\ NumRegs(c)' = NumRegs(c)
    BY SMTT(20), <1>1, <1>4, <1>7, PairType, RaAssumption DEF NumRegs, RaClass
  <2>3. RaType'
    BY SMTT(60), <1>1, <1>2, <1>7, <2>1, <2>2 DEF RaType
  <2>4. OneHome'
    <3>1. reg' = reg /\ spill' = spill
      BY Zenon, <1>2
    <3> QED BY Zenon, <1>7, <3>1 DEF OneHome
  <2>5. Scanning'
    <3>1. \A q \in pool' : q >= 0 /\ q < NumRegs(c) /\ (c = "int" => q \notin pinned)
      BY <2>1, <2>2
    <3>2. \A u \in todo' : cls[u] = c /\ firstDef[u] >= 0
      BY Zenon, <2>1
    <3>3. \A v \in Temps : cls[v] = c => ~(reg[v] >= 0)
      BY Zenon, <1>7, NoneIsNegative
    <3>4. stage' = c /\ active' = {} /\ cls' = cls /\ reg' = reg /\ firstDef' = firstDef /\ pinned' = pinned
      BY Zenon, <1>2, <2>1
    <3> QED BY Zenon, <2>2, <3>1, <3>2, <3>3, <3>4 DEF Scanning
  <2>6. RaFresh'
    BY Zenon, <1>7, <2>1 DEF RaFresh, RaClass
  <2> QED BY Zenon, <1>3, <1>5, <1>6, <1>7, <2>3, <2>4, <2>5, <2>6 DEF RaInv, AllocInv
<1>8. CASE EndScan
  <2>1. stage = "scan" /\ BeginClass("i64") /\ stage' = "i64"
        /\ todo' = {u \in Temps : cls[u] = "i64" /\ firstDef[u] >= 0}
    BY Zenon, <1>8 DEF EndScan, BeginClass
  <2>2. \A u \in Temps : reg[u] = -1 /\ spill[u] = -1
    BY Zenon, <1>1, <2>1 DEF RaFresh
  <2>3. \A u \in Temps : ~Placed(u) /\ ~Placed(u)'
    BY ZenonT(60), <1>1, <1>2, <2>1 DEF Placed, Behind, RaType, RaClass
  <2>4. OneHome /\ InRange /\ RegsShared /\ SlotsApart
    <3>1. \A u \in Temps : ~(reg[u] >= 0) /\ ~(spill[u] >= 0)
      BY Zenon, <2>2, NoneIsNegative
    <3> QED BY Zenon, <2>2, <2>3, <3>1 DEF OneHome, InRange, RegsShared, SlotsApart
  <2>5. PinsSafe'
    BY Zenon, <2>1 DEF PinsSafe
  <2> QED BY Zenon, <1>7, <2>1, <2>2, <2>3, <2>4, <2>5 DEF RaClass
<1>9. CASE stage = "i64" /\ todo = {} /\ BeginClass("int") /\ ~(PairRegs > 0 /\ pinned # {})
  <2>1. stage' = "int" /\ todo' = {u \in Temps : cls[u] = "int" /\ firstDef[u] >= 0}
    BY Zenon, <1>9 DEF BeginClass
  <2>2. AllocInv
    BY Zenon, <1>9 DEF RaInv
  <2>3. \A u \in Temps : Placed(u)' <=> Placed(u)
    BY Zenon, <1>1, <1>2, <1>9, <2>1 DEF Placed, Behind, RaType, RaClass
  <2>4. \A u \in Temps : cls[u] = "int" => reg[u] = -1
    BY Zenon, <1>9, <2>2 DEF AllocInv, OneHome, Placed, Behind
  <2>5. PinsSafe'
    BY <1>1, <1>2, <1>4, <1>9, PairType DEF PinsSafe
  <2> QED BY Zenon, <1>7, <1>9, <2>2, <2>3, <2>4, <2>5 DEF RaClass, AllocInv
<1>10. CASE stage = "i64" /\ todo = {} /\ stage' = "died" /\ UNCHANGED placeVars
  <2>1. RaType'
    BY Zenon, <1>1, <1>2, <1>10 DEF RaType, placeVars
  <2>2. RaFresh'
    BY Zenon, <1>10 DEF RaFresh, RaClass, placeVars
  <2> QED BY Zenon, <1>3, <1>10, <2>1, <2>2 DEF RaInv
<1>11. CASE BeginFloat
  <2>1. stage = "int" /\ todo = {} /\ BeginClass("float")
        /\ stage' = "float" /\ todo' = {u \in Temps : cls[u] = "float" /\ firstDef[u] >= 0}
    BY Zenon, <1>11 DEF BeginFloat, BeginClass
  <2>2. AllocInv
    BY Zenon, <2>1 DEF RaInv
  <2>3. \A u \in Temps : Placed(u)' <=> Placed(u)
    BY Zenon, <1>1, <1>2, <2>1 DEF Placed, Behind, RaType, RaClass
  <2>4. \A u \in Temps : cls[u] = "float" => reg[u] = -1
    BY Zenon, <2>1, <2>2 DEF AllocInv, OneHome, Placed, Behind
  <2>5. PinsSafe'
    BY Zenon, <1>2, <1>4, <2>1, <2>2 DEF AllocInv, PinsSafe
  <2> QED BY Zenon, <1>7, <2>1, <2>2, <2>3, <2>4, <2>5 DEF RaClass, AllocInv
<1>12. CASE EndAlloc
  <2>1. stage = "float" /\ todo = {} /\ stage' = "done" /\ UNCHANGED placeVars
    BY Zenon, <1>12 DEF EndAlloc
  <2>2. AllocInv
    BY Zenon, <2>1 DEF RaInv
  <2>3. \A u \in Temps : Placed(u)' <=> Placed(u)
    BY Zenon, <1>1, <1>2, <2>1 DEF Placed, Behind, RaType, RaClass
  <2>4. OneHome' /\ PinsSafe'
    BY Zenon, <1>2, <1>4, <2>1, <2>2, <2>3 DEF AllocInv, OneHome, PinsSafe
  <2>5. Scanning' /\ RaFresh'
    BY Zenon, <2>1 DEF Scanning, RaFresh, RaClass, placeVars
  <2>6. RaType'
    BY Zenon, <1>1, <1>2, <2>1 DEF RaType, placeVars
  <2> QED BY Zenon, <1>3, <1>5, <1>6, <2>2, <2>4, <2>5, <2>6 DEF RaInv, AllocInv
<1> QED BY Zenon, <1>8, <1>9, <1>10, <1>11, <1>12 DEF BeginInt

\* linscan() is at t, which has no home yet.
LEMMA NextIs ==
  ASSUME RaInv, NEW t \in todo
  PROVE  /\ stage \in RaClass /\ cls[t] = stage /\ firstDef[t] >= 0 /\ t \in Temps
         /\ reg[t] = -1 /\ spill[t] = -1 /\ ~Placed(t)
         /\ RaType /\ OneHome /\ InRange /\ Scanning /\ RegsShared /\ SlotsApart /\ PinsSafe
<1>1. RaType /\ RaFresh
  BY Zenon DEF RaInv
<1>2. stage \in RaClass /\ t \in Temps
  BY Zenon, <1>1 DEF RaFresh, RaType
<1>3. OneHome /\ InRange /\ Scanning /\ RegsShared /\ SlotsApart /\ PinsSafe
  BY Zenon, <1>2 DEF RaInv, RaClass, AllocInv
<1>4. cls[t] = stage /\ firstDef[t] >= 0
  BY Zenon, <1>2, <1>3 DEF Scanning
<1>5. ~Placed(t)
  BY Zenon, <1>2, <1>4 DEF Placed, Behind, RaClass
<1>6. reg[t] = -1 /\ spill[t] = -1
  BY Zenon, <1>2, <1>3, <1>5 DEF OneHome
<1> QED BY Zenon, <1>1, <1>2, <1>3, <1>4, <1>5, <1>6

\* Scanning and RegsShared after t was placed, in terms of what does not change.
ScanNow ==
  /\ \A u \in active' : cls[u] = stage /\ reg'[u] >= 0
  /\ \A r \in pool' : r >= 0 /\ r < NumRegs(stage) /\ (stage = "int" => r \notin pinned)
  /\ \A u, v \in active' : reg'[u] = reg'[v] => u = v
  /\ \A u \in active' : reg'[u] \notin pool'
  /\ \A v \in Temps : cls[v] = stage /\ reg'[v] >= 0 /\ v \notin active'
                      => \A u \in todo' : End(v) < firstDef[u]

SharedNow ==
  \A t, u \in Temps :
    t # u /\ cls[t] = cls[u] /\ reg'[t] >= 0 /\ reg'[t] = reg'[u]
      => End(t) < firstDef[u] \/ End(u) < firstDef[t]

\* t is placed; x is the one whose home is taken for it, or t itself.
LEMMA MoveKeeps ==
  ASSUME RaInv, NEW t \in todo, NEW x \in Temps, todo' = todo \ {t},
         UNCHANGED <<stage, cls, pinned, scanVars>>,
         active' \in SUBSET Temps, pool' \in SUBSET Int, reg' \in [Temps -> Int],
         spill' \in [Temps -> Int], slots' \in [RaClass -> Nat],
         cls[x] = stage, x = t \/ Placed(x),
         \A u \in Temps \ {t, x} : reg'[u] = reg[u] /\ spill'[u] = spill[u],
         \A u \in {t, x} : (reg'[u] >= 0) # (spill'[u] >= 0),
         \A u \in {t, x} : reg'[u] >= 0 => reg'[u] < NumRegs(stage) /\ (stage = "int" => reg'[u] \notin pinned),
         ScanNow, SharedNow, SlotsApart'
  PROVE  RaInv'
<1>1. UNCHANGED <<stage, cls, pinned, ip, firstDef, lastUse, pending, waiting, lastRead>>
  BY Zenon DEF scanVars
<1>2. stage \in RaClass /\ cls[t] = stage /\ firstDef[t] >= 0 /\ t \in Temps
  BY Zenon, NextIs
<1>3. RaType /\ OneHome /\ InRange /\ Scanning /\ PinsSafe
  BY Zenon, NextIs
<1>4. RaType'
  BY Zenon, <1>1, <1>3 DEF RaType
<1>5. RaRanges' /\ RaFresh'
  <2>1. RaRanges /\ stage' \in RaClass /\ stage' # "scan"
    BY Zenon, <1>1, <1>2 DEF RaInv, RaClass
  <2> QED BY Zenon, <1>1, <2>1 DEF RaRanges, RaFresh
<1>6. \A u \in Temps : Placed(u)' <=> (Placed(u) \/ u = t)
  BY Zenon, <1>1, <1>2 DEF Placed, Behind
<1>7. OneHome'
  <2>1. \A u \in Temps \ {t, x} : /\ Placed(u) => (reg'[u] >= 0) # (spill'[u] >= 0)
                                  /\ ~Placed(u) => reg'[u] = -1 /\ spill'[u] = -1
    BY Zenon, <1>3 DEF OneHome
  <2> QED BY Zenon, <1>6, <2>1 DEF OneHome
<1>8. InRange' /\ PinsSafe' /\ NumRegs(stage)' = NumRegs(stage)
  <2>1. \A u \in Temps : cls[u] = stage /\ reg'[u] >= 0 =>
          reg'[u] < NumRegs(stage) /\ (stage = "int" => reg'[u] \notin pinned)
    BY Zenon, <1>3 DEF InRange
  <2>2. \A u \in Temps : cls[u] # stage => reg'[u] = reg[u]
    BY Zenon, <1>2
  <2>3. cls' = cls /\ pinned' = pinned /\ stage' = stage /\ firstDef' = firstDef
    BY Zenon, <1>1
  <2> QED BY Zenon, <1>2, <1>3, <2>1, <2>2, <2>3, Widths
<1>9. \A u \in Temps : End(u)' = End(u)
  BY Zenon, <1>1 DEF End
<1>10. Scanning'
  <2>1. \A u \in todo' : cls[u] = stage /\ firstDef[u] >= 0
    BY Zenon, <1>2, <1>3 DEF Scanning
  <2>2. \A r \in pool' : r >= 0 /\ r < NumRegs(stage)' /\ (stage' = "int" => r \notin pinned')
    BY Zenon, <1>1, <1>8 DEF ScanNow
  <2>3. \A v \in Temps : cls'[v] = stage' /\ reg'[v] >= 0 /\ v \notin active'
                         => \A u \in todo' : End(v)' < firstDef'[u]
    BY Zenon, <1>1, <1>9 DEF ScanNow
  <2> QED BY Zenon, <1>1, <2>1, <2>2, <2>3 DEF Scanning, ScanNow
<1>11. RegsShared'
  BY ZenonT(30), <1>1, <1>9 DEF RegsShared, SharedNow
<1>12. AllocInv'
  BY Zenon, <1>7, <1>8, <1>10, <1>11 DEF AllocInv
<1> QED BY Zenon, <1>4, <1>5, <1>12 DEF RaInv

\* num_regs == 0: every interval of the class goes to memory.
LEMMA SpillAllKeeps ==
  ASSUME RaInv, NEW t \in Temps, SpillAll(t)
  PROVE  RaInv'
<1>1. /\ t \in todo /\ todo' = todo \ {t} /\ UNCHANGED <<stage, cls, pinned, scanVars>>
      /\ SpillTo(t) /\ active' = active /\ pool' = pool /\ reg' = reg
  BY Zenon DEF SpillAll
<1>2. stage \in RaClass /\ cls[t] = stage /\ reg[t] = -1
  BY Zenon, <1>1, NextIs
<1>3. RaType /\ Scanning /\ RegsShared /\ SlotsApart
  BY Zenon, <1>1, NextIs
<1>4. /\ SlotsApart' /\ spill' \in [Temps -> Int] /\ slots' \in [RaClass -> Nat]
      /\ spill'[t] >= 0 /\ \A u \in Temps \ {t} : spill'[u] = spill[u]
  BY Zenon, <1>1, <1>2, <1>3, SpillKeeps
<1>5. active' \in SUBSET Temps /\ pool' \in SUBSET Int /\ reg' \in [Temps -> Int]
  BY Zenon, <1>1, <1>3 DEF RaType
<1>6. ScanNow
  BY Zenon, <1>1, <1>2, <1>3 DEF ScanNow, Scanning
<1>7. SharedNow
  BY Zenon, <1>1, <1>3 DEF SharedNow, RegsShared
<1>8. ~(reg'[t] >= 0)
  BY Zenon, <1>1, <1>2, NoneIsNegative
<1> QED BY Zenon, <1>1, <1>2, <1>4, <1>5, <1>6, <1>7, <1>8, MoveKeeps

\* What is left of the scan before t is placed: what has expired ends before t and
\* before all that follow, and what is free belongs to no interval still active.
LEMMA Expiry ==
  ASSUME RaInv, NEW t \in Temps, PlaceNext(t)
  PROVE  /\ \A v \in Temps : cls[v] = stage /\ reg[v] >= 0 /\ v \notin Still(t)
              => \A u \in todo : End(v) < firstDef[u]
         /\ \A v \in Still(t) : reg[v] \notin FreeRegs(t)
         /\ \A r \in FreeRegs(t) : /\ r \in Int /\ r >= 0 /\ r < NumRegs(stage)
                                   /\ (stage = "int" => r \notin pinned)
         /\ Still(t) \subseteq active
<1>1. t \in todo /\ todo' = todo \ {t} /\ UNCHANGED <<stage, cls, pinned, scanVars>> /\ Earliest(t)
  BY Zenon DEF PlaceNext
<1>2. stage \in RaClass /\ RaType /\ Scanning /\ InRange
  BY Zenon, <1>1, NextIs
<1>3. \A u \in Temps : End(u) \in Int /\ firstDef[u] \in Int
  BY Zenon, <1>2 DEF RaType, End
<1>4. active \in SUBSET Temps /\ todo \in SUBSET Temps /\ reg \in [Temps -> Int] /\ pool \in SUBSET Int
  BY Zenon, <1>2 DEF RaType
<1>5. \A u \in todo : firstDef[t] <= firstDef[u]
  BY <1>1, <1>3, <1>4 DEF Earliest
<1>6. \A v \in active : v \notin Still(t) => End(v) < firstDef[t]
  BY <1>3, <1>4 DEF Still
<1>7. ASSUME NEW v \in Temps, cls[v] = stage, reg[v] >= 0, v \notin Still(t), NEW u \in todo
      PROVE  End(v) < firstDef[u]
  <2>1. CASE v \in active
    <3>1. End(v) < firstDef[t] /\ firstDef[t] <= firstDef[u]
      BY Zenon, <1>5, <1>6, <1>7, <2>1
    <3>2. End(v) \in Int /\ firstDef[t] \in Int /\ firstDef[u] \in Int
      BY Zenon, <1>3, <1>4
    <3> QED BY <3>1, <3>2
  <2>2. CASE v \notin active
    BY Zenon, <1>2, <1>7, <2>2 DEF Scanning
  <2> QED BY Zenon, <2>1, <2>2
<1>8. \A v \in Still(t) : reg[v] \notin FreeRegs(t)
  BY Zenon, <1>2 DEF Still, FreeRegs, Scanning
<1>9. ASSUME NEW r \in FreeRegs(t)
      PROVE  r \in Int /\ r >= 0 /\ r < NumRegs(stage) /\ (stage = "int" => r \notin pinned)
  <2>1. CASE r \in pool
    BY Zenon, <1>2, <1>4, <2>1 DEF Scanning
  <2>2. CASE \E u \in active : r = reg[u]
    BY <1>2, <1>4, <2>2 DEF Scanning, InRange
  <2> QED BY Zenon, <2>1, <2>2 DEF FreeRegs
<1>10. Still(t) \subseteq active
  BY Zenon DEF Still
<1> QED BY Zenon, <1>7, <1>8, <1>9, <1>10

\* t takes a register that no active interval has.
LEMMA TakeKeeps ==
  ASSUME RaInv, NEW t \in Temps, TakeFree(t)
  PROVE  RaInv'
<1>1. /\ PlaceNext(t) /\ t \in todo /\ todo' = todo \ {t} /\ UNCHANGED <<stage, cls, pinned, scanVars>>
      /\ active' = Still(t) \cup {t} /\ spill' = spill /\ slots' = slots
  BY Zenon DEF TakeFree, PlaceNext
<1>2. PICK r \in FreeRegs(t) : reg' = [reg EXCEPT ![t] = r] /\ pool' = FreeRegs(t) \ {r}
  BY Zenon DEF TakeFree
<1>3. stage \in RaClass /\ cls[t] = stage /\ spill[t] = -1 /\ reg[t] = -1
  BY Zenon, <1>1, NextIs
<1>4. RaType /\ Scanning /\ RegsShared /\ SlotsApart
  BY Zenon, <1>1, NextIs
<1>5. /\ \A v \in Temps : cls[v] = stage /\ reg[v] >= 0 /\ v \notin Still(t)
           => \A u \in todo : End(v) < firstDef[u]
      /\ \A v \in Still(t) : reg[v] \notin FreeRegs(t)
      /\ \A q \in FreeRegs(t) : q \in Int /\ q >= 0 /\ q < NumRegs(stage) /\ (stage = "int" => q \notin pinned)
      /\ Still(t) \subseteq active
  BY Zenon, <1>1, Expiry
<1>6. active \in SUBSET Temps /\ reg \in [Temps -> Int]
  BY Zenon, <1>4 DEF RaType
<1>7. /\ r \in Int /\ r >= 0 /\ reg' \in [Temps -> Int] /\ reg'[t] = r
      /\ \A u \in Temps \ {t} : reg'[u] = reg[u]
  BY Zenon, <1>2, <1>5, <1>6
<1>8. active' \in SUBSET Temps /\ pool' \in SUBSET Int
  BY Zenon, <1>1, <1>2, <1>5, <1>6
<1>9. \A u \in Still(t) : /\ u \in Temps /\ u # t /\ reg'[u] = reg[u]
                          /\ reg[u] \notin FreeRegs(t) /\ cls[u] = stage /\ reg[u] >= 0
  <2>1. \A u \in active : cls[u] = stage /\ reg[u] >= 0
    BY Zenon, <1>3, <1>4 DEF Scanning
  <2>2. ~(reg[t] >= 0)
    BY Zenon, <1>3, NoneIsNegative
  <2>3. \A u \in Still(t) : u \in Temps /\ u \in active /\ u # t
    BY Zenon, <1>5, <1>6, <2>1, <2>2
  <2> QED BY Zenon, <1>5, <1>7, <2>1, <2>3
<1>10. ScanNow
  <2>1. \A u \in active' : cls[u] = stage /\ reg'[u] >= 0
    BY Zenon, <1>1, <1>3, <1>7, <1>9
  <2>2. \A q \in pool' : q >= 0 /\ q < NumRegs(stage) /\ (stage = "int" => q \notin pinned)
    BY Zenon, <1>2, <1>5
  <2>3. \A u, v \in active' : reg'[u] = reg'[v] => u = v
    <3>1. \A u, v \in Still(t) : reg[u] = reg[v] => u = v
      BY Zenon, <1>3, <1>4, <1>5 DEF Scanning
    <3>2. \A u \in Still(t) : reg'[u] # r
      BY Zenon, <1>2, <1>9
    <3> QED BY Zenon, <1>1, <1>7, <1>9, <3>1, <3>2
  <2>4. \A u \in active' : reg'[u] \notin pool'
    BY Zenon, <1>1, <1>2, <1>7, <1>9
  <2>5. \A v \in Temps : cls[v] = stage /\ reg'[v] >= 0 /\ v \notin active'
                         => \A u \in todo' : End(v) < firstDef[u]
    <3>1. \A v \in Temps : v \notin active' => v # t /\ v \notin Still(t) /\ reg'[v] = reg[v]
      BY Zenon, <1>1, <1>7
    <3> QED BY Zenon, <1>1, <1>5, <3>1
  <2> QED BY Zenon, <2>1, <2>2, <2>3, <2>4, <2>5 DEF ScanNow
<1>11. SharedNow
  <2>1. \A v \in Temps : cls[v] = stage /\ reg[v] = r => End(v) < firstDef[t]
    BY Zenon, <1>1, <1>2, <1>5, <1>7
  <2> QED BY Zenon, <1>3, <1>4, <1>7, <2>1 DEF SharedNow, RegsShared
<1>12. SlotsApart'
  <2>1. cls' = cls
    BY Zenon, <1>1
  <2> QED BY Zenon, <1>1, <1>4, <2>1 DEF SlotsApart, SpillSize
<1>13. spill' \in [Temps -> Int] /\ slots' \in [RaClass -> Nat] /\ ~(spill'[t] >= 0)
  BY <1>1, <1>3, <1>4 DEF RaType
<1>14. \A u \in Temps \ {t, t} : reg'[u] = reg[u] /\ spill'[u] = spill[u]
  BY Zenon, <1>1, <1>7
<1>15. \A u \in {t, t} : (reg'[u] >= 0) # (spill'[u] >= 0)
  BY Zenon, <1>7, <1>13
<1>16. \A u \in {t, t} : reg'[u] >= 0 => reg'[u] < NumRegs(stage) /\ (stage = "int" => reg'[u] \notin pinned)
  BY Zenon, <1>2, <1>5, <1>7
<1> QED BY ZenonT(30), <1>1, <1>3, <1>7, <1>8, <1>10, <1>11, <1>12, <1>13, <1>14, <1>15, <1>16, MoveKeeps

\* The active interval that ends last gives its register to t.
LEMMA StealKeeps ==
  ASSUME RaInv, NEW t \in Temps, NEW s \in active, StealReg(t, s)
  PROVE  RaInv'
<1>1. /\ PlaceNext(t) /\ t \in todo /\ todo' = todo \ {t} /\ UNCHANGED <<stage, cls, pinned, scanVars>>
      /\ active' = (Still(t) \ {s}) \cup {t} /\ pool' = {} /\ s \in Still(t)
      /\ SpillTo(s) /\ reg' = [reg EXCEPT ![t] = reg[s], ![s] = -1]
  BY Zenon DEF StealReg, PlaceNext, EndsLast
<1>2. stage \in RaClass /\ cls[t] = stage /\ reg[t] = -1 /\ spill[t] = -1
  BY Zenon, <1>1, NextIs
<1>3. RaType /\ OneHome /\ InRange /\ Scanning /\ RegsShared /\ SlotsApart
  BY Zenon, <1>1, NextIs
<1>4. /\ \A v \in Temps : cls[v] = stage /\ reg[v] >= 0 /\ v \notin Still(t)
           => \A u \in todo : End(v) < firstDef[u]
      /\ Still(t) \subseteq active
  BY Zenon, <1>1, Expiry
<1>5. active \in SUBSET Temps /\ reg \in [Temps -> Int] /\ s \in Temps
  BY Zenon, <1>3 DEF RaType
<1>6. /\ \A u \in active : cls[u] = stage /\ reg[u] >= 0
      /\ \A u, v \in active : reg[u] = reg[v] => u = v
  BY Zenon, <1>2, <1>3 DEF Scanning
<1>7. cls[s] = stage /\ reg[s] >= 0 /\ s # t /\ t \notin active
  BY <1>2, <1>6
<1>8. /\ reg' \in [Temps -> Int] /\ reg'[t] = reg[s] /\ reg'[s] = -1
      /\ \A u \in Temps \ {s, t} : reg'[u] = reg[u]
  BY <1>1, <1>5, <1>7
<1>9. /\ SlotsApart' /\ spill' \in [Temps -> Int] /\ slots' \in [RaClass -> Nat]
      /\ spill'[s] >= 0 /\ \A u \in Temps \ {s} : spill'[u] = spill[u]
  BY Zenon, <1>1, <1>3, <1>5, <1>7, SpillKeeps
<1>10. active' \in SUBSET Temps /\ pool' \in SUBSET Int
  BY Zenon, <1>1, <1>4, <1>5
<1>11. \A u \in Still(t) \ {s} : u \in Temps /\ u # t /\ reg'[u] = reg[u] /\ cls[u] = stage
                                 /\ reg[u] >= 0 /\ reg[u] # reg[s]
  BY Zenon, <1>4, <1>5, <1>6, <1>7, <1>8
<1>12. ~(reg'[s] >= 0) /\ ~(spill'[t] >= 0) /\ reg'[t] >= 0
  <2>1. spill'[t] = -1 /\ reg'[s] = -1 /\ reg'[t] = reg[s]
    BY Zenon, <1>2, <1>7, <1>8, <1>9
  <2> QED BY Zenon, <1>7, <2>1, NoneIsNegative
<1>13. ScanNow
  <2>1. \A u \in active' : cls[u] = stage /\ reg'[u] >= 0
    BY Zenon, <1>1, <1>2, <1>11, <1>12
  <2>2. \A u, v \in active' : reg'[u] = reg'[v] => u = v
    <3>1. \A u \in active' : u = t \/ u \in Still(t) \ {s}
      BY Zenon, <1>1
    <3>2. \A u, v \in Still(t) \ {s} : reg'[u] = reg'[v] => u = v
      BY Zenon, <1>4, <1>6, <1>11
    <3>3. \A u \in Still(t) \ {s} : reg'[u] # reg'[t]
      BY Zenon, <1>8, <1>11
    <3> QED BY Zenon, <3>1, <3>2, <3>3
  <2>3. \A v \in Temps : cls[v] = stage /\ reg'[v] >= 0 /\ v \notin active'
                         => \A u \in todo' : End(v) < firstDef[u]
    <3>1. \A v \in Temps : reg'[v] >= 0 /\ v \notin active' => v \notin Still(t) /\ reg'[v] = reg[v]
      BY Zenon, <1>1, <1>8, <1>12
    <3> QED BY Zenon, <1>1, <1>4, <3>1
  <2>4. /\ \A q \in pool' : q >= 0 /\ q < NumRegs(stage) /\ (stage = "int" => q \notin pinned)
        /\ \A u \in active' : reg'[u] \notin pool'
    BY <1>1
  <2> QED BY Zenon, <2>1, <2>2, <2>3, <2>4 DEF ScanNow
<1>14. SharedNow
  <2>1. \A v \in Temps \ {s} : cls[v] = stage /\ reg[v] = reg[s] => End(v) < firstDef[t]
    BY Zenon, <1>1, <1>4, <1>6, <1>7
  <2>2. \A v \in Temps \ {s, t} : cls[v] = stage => reg'[v] = reg[v]
    BY Zenon, <1>8
  <2> QED BY ZenonT(60), <1>2, <1>3, <1>8, <1>12, <2>1, <2>2 DEF SharedNow, RegsShared
<1>15. reg'[t] < NumRegs(stage) /\ (stage = "int" => reg'[t] \notin pinned)
  BY Zenon, <1>3, <1>5, <1>7, <1>8 DEF InRange
<1>16. Placed(s)
  <2>1. reg[s] # -1
    BY <1>7
  <2> QED BY Zenon, <1>3, <1>5, <2>1 DEF OneHome
<1>17. \A u \in Temps \ {t, s} : reg'[u] = reg[u] /\ spill'[u] = spill[u]
  BY Zenon, <1>8, <1>9
<1>18. \A u \in {t, s} : (reg'[u] >= 0) # (spill'[u] >= 0)
  BY Zenon, <1>9, <1>12
<1>19. \A u \in {t, s} : reg'[u] >= 0 => reg'[u] < NumRegs(stage) /\ (stage = "int" => reg'[u] \notin pinned)
  BY Zenon, <1>12, <1>15
<1> QED BY ZenonT(60), <1>1, <1>5, <1>7, <1>8, <1>9, <1>10, <1>13, <1>14, <1>16, <1>17, <1>18, <1>19, MoveKeeps

\* t itself ends last and goes to memory.
LEMMA SelfKeeps ==
  ASSUME RaInv, NEW t \in Temps, NEW s \in active, SpillSelf(t, s)
  PROVE  RaInv'
<1>1. /\ PlaceNext(t) /\ t \in todo /\ todo' = todo \ {t} /\ UNCHANGED <<stage, cls, pinned, scanVars>>
      /\ active' = Still(t) /\ pool' = {} /\ SpillTo(t) /\ reg' = reg
  BY Zenon DEF SpillSelf, PlaceNext
<1>2. stage \in RaClass /\ cls[t] = stage /\ reg[t] = -1
  BY Zenon, <1>1, NextIs
<1>3. RaType /\ Scanning /\ RegsShared /\ SlotsApart
  BY Zenon, <1>1, NextIs
<1>4. /\ \A v \in Temps : cls[v] = stage /\ reg[v] >= 0 /\ v \notin Still(t)
           => \A u \in todo : End(v) < firstDef[u]
      /\ Still(t) \subseteq active
  BY Zenon, <1>1, Expiry
<1>5. /\ SlotsApart' /\ spill' \in [Temps -> Int] /\ slots' \in [RaClass -> Nat]
      /\ spill'[t] >= 0 /\ \A u \in Temps \ {t} : spill'[u] = spill[u]
  BY Zenon, <1>1, <1>2, <1>3, SpillKeeps
<1>6. active' \in SUBSET Temps /\ pool' \in SUBSET Int /\ reg' \in [Temps -> Int]
  BY Zenon, <1>1, <1>3, <1>4 DEF RaType
<1>7. ScanNow
  BY Zenon, <1>1, <1>2, <1>3, <1>4 DEF ScanNow, Scanning
<1>8. SharedNow
  BY Zenon, <1>1, <1>3 DEF SharedNow, RegsShared
<1>9. ~(reg'[t] >= 0)
  BY Zenon, <1>1, <1>2, NoneIsNegative
<1>10. \A u \in Temps \ {t, t} : reg'[u] = reg[u] /\ spill'[u] = spill[u]
  BY Zenon, <1>1, <1>5
<1>11. /\ \A u \in {t, t} : (reg'[u] >= 0) # (spill'[u] >= 0)
       /\ \A u \in {t, t} : reg'[u] >= 0 => reg'[u] < NumRegs(stage) /\ (stage = "int" => reg'[u] \notin pinned)
  BY Zenon, <1>5, <1>9
<1> QED BY Zenon, <1>1, <1>2, <1>5, <1>6, <1>7, <1>8, <1>10, <1>11, MoveKeeps

LEMMA RaStart == RaInit => RaInv
<1> SUFFICES ASSUME RaInit PROVE RaInv
  BY Zenon
<1>1. cls \in [Temps -> RaClass]
  BY Zenon, RaAssumption DEF RaInit, RaClass
<1>2. Unset \in [Temps -> Int] /\ \A u \in Temps : Unset[u] = -1
  BY DEF Unset
<1>3. slots \in [RaClass -> Nat]
  BY Zenon DEF RaInit, RaClass
<1>4. <<>> \in Seq(Temps)
  OBVIOUS
<1>5. RaType
  <2>1. pinned \in SUBSET (0 .. IntRegs - 1)
    BY Zenon DEF RaInit
  <2>2. ip \in Nat /\ pool \in SUBSET Int /\ todo \in SUBSET Temps /\ active \in SUBSET Temps /\ waiting \in SUBSET Temps
    BY Zenon DEF RaInit
  <2> QED BY Zenon, <1>1, <1>2, <1>3, <1>4, <2>1, <2>2 DEF RaInit, RaType
<1>6. RaRanges /\ RaFresh /\ stage = "scan"
  BY <1>2 DEF RaInit, RaRanges, RaFresh
<1> QED BY Zenon, <1>5, <1>6 DEF RaInv

LEMMA RaStep ==
  ASSUME RaInv, ArgsKept, [RaNext]_raVars
  PROVE  RaInv'
<1>1. CASE \/ \E D, U \in SUBSET Temps : ScanInsn(D, U)
           \/ \E t \in Temps : ScanArg(t)
           \/ \E D, U \in SUBSET Temps : Cardinality(D) <= 1 /\ Cardinality(U) <= 1 /\ ScanCall(D, U)
  <2>1. stage = "scan"
    BY Zenon, <1>1 DEF ScanInsn, ScanArg, ScanCall, Touch
  <2>2. PICK D \in SUBSET Temps, U \in SUBSET Temps :
          ScanInsn(D, U) \/ ScanCall(D, U) \/ \E t \in Temps : ScanArg(t)
    BY Zenon, <1>1
  <2> QED BY Zenon, <2>1, <2>2, ScanKeeps
<1>2. CASE EndScan \/ BeginInt \/ BeginFloat \/ EndAlloc
  BY Zenon, <1>2, StageKeeps
<1>3. CASE Place
  BY Zenon, <1>3, SpillAllKeeps, TakeKeeps, StealKeeps, SelfKeeps DEF Place
<1>4. CASE UNCHANGED raVars
  <2>1. /\ UNCHANGED <<stage, cls, pinned, ip, firstDef, lastUse, pending, waiting, lastRead>>
        /\ UNCHANGED <<todo, active, pool, reg, spill, slots>>
    BY Zenon, <1>4 DEF raVars, scanVars, placeVars
  <2>2. RaType' /\ RaRanges' /\ RaFresh'
    BY Zenon, <2>1 DEF RaInv, RaType, RaRanges, RaFresh
  <2>3. PairRegs' = PairRegs
    BY Zenon, <2>1, PairSame
  <2>4. \A c : NumRegs(c)' = NumRegs(c)
    BY Zenon, <2>3 DEF NumRegs
  <2>5. \A u : End(u)' = End(u) /\ Placed(u)' = Placed(u)
    BY Zenon, <2>1 DEF End, Placed, Behind
  <2>6. OneHome /\ InRange => OneHome' /\ InRange'
    BY ZenonT(60), <2>1, <2>4, <2>5 DEF OneHome, InRange
  <2>7. Scanning => Scanning'
    BY ZenonT(60), <2>1, <2>4, <2>5 DEF Scanning
  <2>8. RegsShared /\ SlotsApart /\ PinsSafe => RegsShared' /\ SlotsApart' /\ PinsSafe'
    BY ZenonT(60), <2>1, <2>3, <2>5 DEF RegsShared, SlotsApart, PinsSafe, SpillSize
  <2> QED BY Zenon, <2>1, <2>2, <2>6, <2>7, <2>8 DEF RaInv, AllocInv
<1> QED BY Zenon, <1>1, <1>2, <1>3, <1>4 DEF RaNext

\* Two slots of one area stay apart when the area is moved.
LEMMA ApartShifted ==
  ASSUME NEW a \in Nat, NEW b \in Nat, NEW m \in Nat, NEW n \in Nat, NEW c \in Nat, NEW d \in Nat,
         a + m <= b \/ b + n <= a
  PROVE  a + m + c + d <= b + n + c + d - n \/ b + n + c + d <= a + m + c + d - m
OBVIOUS

LEMMA ApartMoved ==
  ASSUME NEW a \in Nat, NEW b \in Nat, NEW m \in Nat, NEW n \in Nat, NEW c \in Nat, NEW d \in Nat,
         a + m <= b \/ b + n <= a,
         NEW p, p = a + m + c + d, NEW q, q = b + n + c + d
  PROVE  p <= q - n \/ q <= p - m
OBVIOUS

\* The invariant gives what the generated code relies on.
LEMMA HomesFromInv == RaInv => HomesApart
<1> SUFFICES ASSUME RaInv, stage = "done"
             PROVE  \A t \in Temps :
                      /\ \A u \in Temps \ {t} :
                           /\ LiveTogether(t, u) => Occupies(t) \cap Occupies(u) = {}
                           /\ spill[t] >= 0 /\ spill[u] >= 0 => SpillBytes(t) \cap SpillBytes(u) = {}
                      /\ \A r \in pinned : <<"x", r>> \notin Occupies(t)
                      /\ firstDef[t] >= 0 => (reg[t] >= 0) # (spill[t] >= 0)
  BY Zenon DEF HomesApart
<1>1. AllocInv /\ RaType /\ RaRanges
  BY Zenon DEF RaInv
<1>2. \A t \in Temps : /\ cls[t] \in RaClass /\ reg[t] \in Int /\ spill[t] \in Int
                       /\ firstDef[t] \in Int /\ lastUse[t] \in Int /\ lastRead[t] \in Int
  BY Zenon, <1>1 DEF RaType
<1>3. IntRegs \in Nat /\ Pairs \in Nat /\ slots["float"] \in Nat /\ slots["int"] \in Nat /\ slots["i64"] \in Nat
  BY Zenon, <1>1, RaAssumption DEF RaType, RaClass
<1>4. \A t \in Temps : cls[t] = "i64" /\ reg[t] >= 0 =>
        reg[t] < Pairs /\ PairRegs \in Nat /\ PairRegs >= 2 * (reg[t] + 1)
  <2> SUFFICES ASSUME NEW t \in Temps, cls[t] = "i64", reg[t] >= 0
               PROVE  reg[t] < Pairs /\ PairRegs \in Nat /\ PairRegs >= 2 * (reg[t] + 1)
    BY Zenon
  <2>1. reg[t] < Pairs
    BY Zenon, <1>1 DEF AllocInv, InRange, NumRegs
  <2> QED BY Zenon, <1>1, <2>1, PairBelow
<1>5. \A t \in Temps : cls[t] = "int" /\ reg[t] >= 0 => reg[t] \notin pinned /\ reg[t] < IntRegs - PairRegs
  <2> SUFFICES ASSUME NEW t \in Temps, cls[t] = "int", reg[t] >= 0
               PROVE  reg[t] \notin pinned /\ reg[t] < IntRegs - PairRegs
    BY Zenon
  <2>1. reg[t] < NumRegs("int") /\ reg[t] \notin pinned
    BY Zenon, <1>1 DEF AllocInv, InRange
  <2> QED BY SMTT(20), <1>1, <1>2, <1>3, <2>1, PairType DEF NumRegs
<1>6. ASSUME NEW t \in Temps, NEW u \in Temps, t # u, LiveTogether(t, u)
      PROVE  Occupies(t) \cap Occupies(u) = {}
  <2>1. cls[t] # cls[u] \/ reg[t] < 0 \/ reg[t] # reg[u]
    <3>1. ~(End(t) < firstDef[u] \/ End(u) < firstDef[t])
      <4>1. /\ firstDef[t] <= lastRead[u] /\ firstDef[u] <= lastRead[t]
            /\ lastRead[t] <= lastUse[t] /\ lastRead[u] <= lastUse[u]
        BY Zenon, <1>1, <1>6 DEF LiveTogether, RaRanges
      <4>2. firstDef[t] <= lastUse[u] /\ firstDef[u] <= lastUse[t]
        BY <1>2, <4>1
      <4> QED BY <1>2, <4>2 DEF End
    <3>2. ~(reg[t] >= 0) => reg[t] < 0
      BY <1>2
    <3> QED BY Zenon, <1>1, <1>6, <3>1, <3>2 DEF AllocInv, RegsShared
  <2>2. ASSUME NEW v \in {t, u}, NEW w \in {t, u}, v # w, reg[v] >= 0, reg[w] >= 0,
               cls[v] = "i64", cls[w] = "int"
        PROVE  Occupies(v) \cap Occupies(w) = {}
    <3>1. reg[w] < IntRegs - PairRegs /\ PairRegs \in Nat /\ PairRegs >= 2 * (reg[v] + 1)
      BY Zenon, <1>4, <1>5, <2>2
    <3>2. reg[w] # IntRegs - 2 - 2 * reg[v] /\ reg[w] # IntRegs - 1 - 2 * reg[v]
      BY SMTT(20), <1>2, <1>3, <3>1
    <3> QED BY <2>2, <3>2 DEF Occupies
  <2>3. CASE reg[t] < 0 \/ reg[u] < 0
    BY SMTT(60), <1>2, <2>3 DEF Occupies
  <2>4. CASE reg[t] >= 0 /\ reg[u] >= 0 /\ cls[t] = cls[u]
    <3>1. reg[t] # reg[u] /\ reg[t] \in Int /\ reg[u] \in Int
      BY <1>2, <2>1, <2>4
    <3>2. CASE cls[t] = "i64"
      <4>1. /\ IntRegs - 2 - 2 * reg[t] # IntRegs - 2 - 2 * reg[u]
            /\ IntRegs - 2 - 2 * reg[t] # IntRegs - 1 - 2 * reg[u]
            /\ IntRegs - 1 - 2 * reg[t] # IntRegs - 2 - 2 * reg[u]
            /\ IntRegs - 1 - 2 * reg[t] # IntRegs - 1 - 2 * reg[u]
        BY <1>3, <3>1
      <4> QED BY <2>4, <3>2, <4>1 DEF Occupies
    <3>3. CASE cls[t] = "int"
      BY <2>4, <3>1, <3>3 DEF Occupies
    <3>4. CASE cls[t] = "float"
      BY SMTT(60), <2>4, <3>1, <3>4 DEF Occupies
    <3> QED BY Zenon, <1>2, <3>2, <3>3, <3>4 DEF RaClass
  <2>5. CASE reg[t] >= 0 /\ reg[u] >= 0 /\ cls[t] # cls[u]
    <3>1. CASE cls[t] = "float" \/ cls[u] = "float"
      BY SMTT(60), <1>2, <2>5, <3>1 DEF Occupies, RaClass
    <3>2. CASE cls[t] = "i64" /\ cls[u] = "int"
      BY Zenon, <1>6, <2>2, <2>5, <3>2
    <3>3. CASE cls[t] = "int" /\ cls[u] = "i64"
      BY Zenon, <1>6, <2>2, <2>5, <3>3
    <3> QED BY Zenon, <1>2, <2>5, <3>1, <3>2, <3>3 DEF RaClass
  <2>6. (reg[t] < 0 \/ reg[t] >= 0) /\ (reg[u] < 0 \/ reg[u] >= 0)
    BY <1>2
  <2> QED BY Zenon, <2>3, <2>4, <2>5, <2>6
<1>7. ASSUME NEW t \in Temps, NEW u \in Temps, t # u, spill[t] >= 0, spill[u] >= 0
      PROVE  SpillBytes(t) \cap SpillBytes(u) = {}
  <2>1. /\ spill[t] + SpillSize(cls[t]) <= slots[cls[t]] * SpillSize(cls[t])
        /\ spill[u] + SpillSize(cls[u]) <= slots[cls[u]] * SpillSize(cls[u])
        /\ cls[t] = cls[u] => spill[t] + SpillSize(cls[t]) <= spill[u] \/ spill[u] + SpillSize(cls[u]) <= spill[t]
    BY Zenon, <1>1, <1>7 DEF AllocInv, SlotsApart
  <2>2. SpillDepth(t) \in Int /\ SpillDepth(u) \in Int /\ SpillSize(cls[t]) \in {4, 8} /\ SpillSize(cls[u]) \in {4, 8}
    <3>1. \A c : SpillSize(c) \in {4, 8}
      BY Zenon DEF SpillSize
    <3>2. slots["float"] * 8 \in Int /\ slots["int"] * 4 \in Int /\ 0 \in Int
      BY <1>3
    <3>3. \A a, b, c, d \in Int : a + b + c + d \in Int
      OBVIOUS
    <3>4. SpillSize(cls[t]) \in Int /\ SpillSize(cls[u]) \in Int /\ spill[t] \in Int /\ spill[u] \in Int
      BY <1>2, <3>1
    <3> QED BY Zenon, <3>1, <3>2, <3>3, <3>4 DEF SpillDepth
  <2>3. \/ SpillDepth(t) <= SpillDepth(u) - SpillSize(cls[u])
        \/ SpillDepth(u) <= SpillDepth(t) - SpillSize(cls[t])
    <3> DEFINE F == slots["float"] * 8
               I == slots["int"] * 4
    <3>1. F \in Nat /\ I \in Nat
      BY <1>2, <1>3 DEF RaClass
    <3>a. \A v \in {t, u} :
            /\ SpillSize(cls[v]) \in Nat /\ spill[v] \in Nat
            /\ cls[v] = "float" => spill[v] + SpillSize(cls[v]) <= F
            /\ cls[v] = "int" => spill[v] + SpillSize(cls[v]) <= I
      <4>1. spill[t] \in Nat /\ spill[u] \in Nat
        BY <1>2, <1>7
      <4>2. SpillSize(cls[t]) \in Nat /\ SpillSize(cls[u]) \in Nat
        BY <2>2
      <4>3. /\ cls[t] = "float" => slots[cls[t]] * SpillSize(cls[t]) = F
            /\ cls[t] = "int" => slots[cls[t]] * SpillSize(cls[t]) = I
            /\ cls[u] = "float" => slots[cls[u]] * SpillSize(cls[u]) = F
            /\ cls[u] = "int" => slots[cls[u]] * SpillSize(cls[u]) = I
        BY Zenon DEF SpillSize
      <4> HIDE DEF F, I
      <4> QED BY Zenon, <2>1, <4>1, <4>2, <4>3
    <3>b. \A v \in {t, u} :
            /\ cls[v] = "float" => SpillDepth(v) = spill[v] + SpillSize(cls[v]) + 0 + 0
            /\ cls[v] = "int" => SpillDepth(v) = spill[v] + SpillSize(cls[v]) + F + 0
            /\ cls[v] = "i64" => SpillDepth(v) = spill[v] + SpillSize(cls[v]) + F + I
      BY Zenon DEF SpillDepth
    <3> HIDE DEF F, I
    <3>2. \A v \in {t, u} :
            /\ cls[v] = "float" => SpillDepth(v) <= F
            /\ cls[v] = "int" => SpillDepth(v) <= F + I /\ F <= SpillDepth(v) - SpillSize(cls[v])
            /\ cls[v] = "i64" => F + I <= SpillDepth(v) - SpillSize(cls[v])
      <4> TAKE v \in {t, u}
      <4> DEFINE d == SpillDepth(v)
                 n == SpillSize(cls[v])
                 o == spill[v]
      <4>1. /\ n \in Nat /\ o \in Nat
            /\ cls[v] = "float" => o + n <= F /\ d = o + n + 0 + 0
            /\ cls[v] = "int" => o + n <= I /\ d = o + n + F + 0
            /\ cls[v] = "i64" => d = o + n + F + I
        BY Zenon, <3>a, <3>b
      <4>2. /\ cls[v] = "float" => d <= F
            /\ cls[v] = "int" => d <= F + I /\ F <= d - n
            /\ cls[v] = "i64" => F + I <= d - n
        <5> HIDE DEF d, n, o
        <5> QED BY <3>1, <4>1
      <4> QED BY Zenon, <4>2
    <3>c. cls[t] \in {"float", "int", "i64"} /\ cls[u] \in {"float", "int", "i64"}
      BY Zenon, <1>2 DEF RaClass
    <3>3. CASE cls[t] = cls[u]
      <4>1. spill[t] + SpillSize(cls[t]) <= spill[u] \/ spill[u] + SpillSize(cls[u]) <= spill[t]
        BY Zenon, <2>1, <3>3
      <4>2. F \in Nat /\ I \in Nat /\ 0 \in Nat
        BY Zenon, <3>1
      <4>3. /\ spill[t] \in Nat /\ spill[u] \in Nat
            /\ SpillSize(cls[t]) \in Nat /\ SpillSize(cls[u]) \in Nat
        BY Zenon, <3>a
      <4>4. ASSUME NEW c \in Nat, NEW d \in Nat,
                   SpillDepth(t) = spill[t] + SpillSize(cls[t]) + c + d,
                   SpillDepth(u) = spill[u] + SpillSize(cls[u]) + c + d
            PROVE  \/ SpillDepth(t) <= SpillDepth(u) - SpillSize(cls[u])
                   \/ SpillDepth(u) <= SpillDepth(t) - SpillSize(cls[t])
        BY Zenon, <4>1, <4>3, <4>4, ApartMoved
      <4> QED BY Zenon, <3>3, <3>b, <3>c, <4>2, <4>4
    <3>4. CASE cls[t] # cls[u]
      BY SMTT(20), <2>2, <3>1, <3>2, <3>4, <3>c
    <3> QED BY Zenon, <3>3, <3>4
  <2> QED BY SMTT(60), <2>2, <2>3 DEF SpillBytes
<1>8. ASSUME NEW t \in Temps, NEW r \in pinned PROVE <<"x", r>> \notin Occupies(t)
  <2>1. cls[t] = "i64" => reg[t] < 0
    <3> SUFFICES ASSUME cls[t] = "i64", reg[t] >= 0 PROVE FALSE
      BY <1>2
    <3>1. PairRegs \in Nat /\ PairRegs >= 2 * (reg[t] + 1)
      BY Zenon, <1>4
    <3>2. PairRegs = 0
      BY Zenon, <1>1, <1>8 DEF AllocInv, PinsSafe
    <3> QED BY <1>2, <3>1, <3>2
  <2> QED BY SMTT(60), <1>2, <1>5, <2>1 DEF Occupies, RaClass
<1>9. \A t \in Temps : firstDef[t] >= 0 => (reg[t] >= 0) # (spill[t] >= 0)
  BY Zenon, <1>1 DEF AllocInv, OneHome, Placed, Behind
<1> QED BY ZenonT(60), <1>6, <1>7, <1>8, <1>9

\* Register allocation is sound for every function, every set of temps and every number of
\* registers, as long as pending[] has room for the arguments of each call: the temps that
\* are live together have homes apart.
THEOREM LinearScanSound == RaSpec /\ []ArgsKept => []HomesApart
<1>1. RaInit => RaInv
  BY Zenon, RaStart
<1>2. RaInv /\ ArgsKept /\ [RaNext]_raVars => RaInv'
  BY Zenon, RaStep
<1>3. RaInv => HomesApart
  BY Zenon, HomesFromInv
<1> QED BY <1>1, <1>2, <1>3, PTL DEF RaSpec
=============================================================================
