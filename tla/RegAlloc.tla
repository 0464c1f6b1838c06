------------------------------ MODULE RegAlloc ------------------------------
(***************************************************************************)
(* The register allocator of the RISC-V back end (backend/regalloc_rv.c):  *)
(* one pass over the instructions gives every temp a live range, then a    *)
(* linear scan hands out the i64 pairs, the integer registers left below   *)
(* them and the float registers, spilling what does not fit.  The frame    *)
(* layout of the spill slots is rv_select.c's.  Registers are numbered     *)
(* from 0 in each class; the instructions are what the front ends emit: a  *)
(* temp is written before it is read, and the code is a straight line.     *)
(***************************************************************************)
EXTENDS Integers, Sequences, FiniteSets

CONSTANTS Temps,        \* the function's temps, numbered from 0
          RaClasses,    \* the class of each temp: a set of functions on Temps
          IntRegs,      \* INT_NUM_REGS
          Pairs,        \* I64_NUM_PAIRS
          FpRegs,       \* FP_NUM_REGS
          MaxPending,   \* the size of pending[]
          NInsns        \* the number of instructions in the function

ASSUME RaAssumption ==
  /\ Temps \subseteq Nat
  /\ RaClasses \subseteq [Temps -> {"i64", "int", "float"}]
  /\ IntRegs \in Nat \ {0} /\ Pairs \in Nat \ {0} /\ FpRegs \in Nat \ {0}
  /\ 2 * Pairs <= IntRegs
  /\ MaxPending \in Nat /\ NInsns \in Nat

VARIABLES stage,        \* "scan", the class being allocated, "done" or "died"
          cls,          \* is_i64, is_int, is_float
          pinned,       \* the integer registers an asm pins or clobbers
          ip,          \* the instruction the scan has reached
          firstDef, lastUse, pending,
          waiting,      \* the temps passed by an ARG since the last call
          lastRead,     \* the last instruction that really needs each temp
          todo, active, pool,
          reg, spill,   \* temp_reg, temp_spill; -1 is none
          slots         \* ni64spills, nspills, nfspills

scanVars == <<ip, firstDef, lastUse, pending, waiting, lastRead>>
placeVars == <<todo, active, pool, reg, spill, slots>>
raVars == <<stage, cls, pinned, scanVars, placeVars>>

Unset == [t \in Temps |-> -1]

RaInit ==
  /\ stage = "scan" /\ cls \in RaClasses
  /\ pinned \in SUBSET (0 .. IntRegs - 1) \ {0 .. IntRegs - 1}
  /\ ip = 0 /\ firstDef = Unset /\ lastUse = Unset /\ pending = <<>>
  /\ waiting = {} /\ lastRead = Unset
  /\ todo = {} /\ active = {} /\ pool = {}
  /\ reg = Unset /\ spill = Unset /\ slots = [c \in {"i64", "int", "float"} |-> 0]

(***************************************************************************)
(* The live ranges.                                                        *)
(***************************************************************************)

\* f with every temp of S moved up to the current instruction
Upto(f, S) == [t \in Temps |-> IF t \in S THEN ip ELSE f[t]]

\* The effect every instruction has: D it writes, U it reads
Touch(D, U) ==
  /\ stage = "scan" /\ ip < NInsns
  /\ \A t \in U : firstDef[t] >= 0
  /\ ip' = ip + 1
  /\ firstDef' = [t \in Temps |-> IF t \in D /\ firstDef[t] < 0 THEN ip ELSE firstDef[t]]
  /\ UNCHANGED <<stage, cls, pinned, placeVars>>

\* An instruction with a destination and two operands, or an extended asm
ScanInsn(D, U) ==
  /\ Touch(D, U)
  /\ lastUse' = Upto(lastUse, D \cup U)
  /\ lastRead' = Upto(lastRead, D \cup U)
  /\ UNCHANGED <<pending, waiting>>

\* ARG, ARG64, FARG: the temp is read when the call is emitted
ScanArg(t) ==
  /\ Touch({}, {t})
  /\ lastUse' = Upto(lastUse, {t})
  /\ pending' = IF Len(pending) < MaxPending THEN Append(pending, t) ELSE pending
  /\ waiting' = waiting \cup {t}
  /\ UNCHANGED lastRead

\* CALL and its variants: a result, and the target of an indirect call
ScanCall(D, U) ==
  /\ Touch(D, U)
  /\ lastUse' = Upto(lastUse, D \cup U \cup {pending[k] : k \in 1 .. Len(pending)})
  /\ lastRead' = Upto(lastRead, D \cup U \cup waiting)
  /\ pending' = <<>> /\ waiting' = {}

(***************************************************************************)
(* linscan(), once per class.                                              *)
(***************************************************************************)

\* 2 * (max_pair + 1): the registers at the top that the pairs in use take
PairRegs ==
  2 * Cardinality({p \in 0 .. Pairs - 1 : \E t \in Temps : cls[t] = "i64" /\ reg[t] >= p})

NumRegs(c) ==
  CASE c = "i64" -> Pairs
    [] c = "int" -> IF IntRegs < PairRegs THEN 0 ELSE IntRegs - PairRegs
    [] c = "float" -> FpRegs

SpillSize(c) == IF c = "int" THEN 4 ELSE 8

\* start linscan for class c: its intervals, the pool without the pinned ones
BeginClass(c) ==
  /\ stage' = c
  /\ todo' = {t \in Temps : cls[t] = c /\ firstDef[t] >= 0}
  /\ active' = {}
  /\ pool' = (0 .. NumRegs(c) - 1) \ IF c = "int" THEN pinned ELSE {}
  /\ UNCHANGED <<cls, pinned, scanVars, reg, spill, slots>>

EndScan == stage = "scan" /\ ip = NInsns /\ BeginClass("i64")

\* a pin in a function with live pairs is rejected
BeginInt ==
  /\ stage = "i64" /\ todo = {}
  /\ IF PairRegs > 0 /\ pinned # {}
       THEN stage' = "died" /\ UNCHANGED <<cls, pinned, scanVars, placeVars>>
       ELSE BeginClass("int")

BeginFloat == stage = "int" /\ todo = {} /\ BeginClass("float")

EndAlloc ==
  /\ stage = "float" /\ todo = {}
  /\ stage' = "done"
  /\ UNCHANGED <<cls, pinned, scanVars, placeVars>>

End(t) == IF lastUse[t] >= firstDef[t] THEN lastUse[t] ELSE firstDef[t]

\* sort_by_start: t may come first of those left
Earliest(t) ==
  \A u \in todo : \/ firstDef[t] < firstDef[u]
                  \/ firstDef[t] = firstDef[u] /\ End(t) <= End(u)

\* Mutant of Still: an interval that ends where t starts has expired.
MutStill(t) == {u \in active : End(u) > firstDef[t]}

Still(t) == {u \in active : End(u) >= firstDef[t]}
FreeRegs(t) == pool \cup {reg[u] : u \in active \ Still(t)}

PlaceNext(t) ==
  /\ t \in todo /\ NumRegs(stage) > 0 /\ Earliest(t)
  /\ todo' = todo \ {t}
  /\ UNCHANGED <<stage, cls, pinned, scanVars>>

\* t goes to the next slot of its class's spill area
SpillTo(t) ==
  /\ spill' = [spill EXCEPT ![t] = slots[stage] * SpillSize(stage)]
  /\ slots' = [slots EXCEPT ![stage] = @ + 1]

\* num_regs == 0: the intervals are spilled in the order of the temps
SpillAll(t) ==
  /\ t \in todo /\ NumRegs(stage) = 0 /\ \A u \in todo : t <= u
  /\ todo' = todo \ {t}
  /\ SpillTo(t)
  /\ UNCHANGED <<stage, cls, pinned, scanVars, active, pool, reg>>

TakeFree(t) ==
  /\ PlaceNext(t)
  /\ \E r \in FreeRegs(t) :
       /\ \A q \in FreeRegs(t) : r <= q
       /\ reg' = [reg EXCEPT ![t] = r]
       /\ pool' = FreeRegs(t) \ {r}
  /\ active' = Still(t) \cup {t}
  /\ UNCHANGED <<spill, slots>>

\* the active interval that ends last; which of several, the array's order says
EndsLast(s, t) == s \in Still(t) /\ \A u \in Still(t) : End(u) <= End(s)

\* the longest active interval gives its register to t
StealReg(t, s) ==
  /\ PlaceNext(t) /\ FreeRegs(t) = {} /\ EndsLast(s, t) /\ End(s) > End(t)
  /\ reg' = [reg EXCEPT ![t] = reg[s], ![s] = -1]
  /\ SpillTo(s)
  /\ active' = (Still(t) \ {s}) \cup {t}
  /\ pool' = {}

SpillSelf(t, s) ==
  /\ PlaceNext(t) /\ FreeRegs(t) = {} /\ EndsLast(s, t) /\ End(s) <= End(t)
  /\ SpillTo(t)
  /\ active' = Still(t) /\ pool' = {}
  /\ UNCHANGED reg

Place ==
  \E t \in Temps : \/ SpillAll(t) \/ TakeFree(t)
                   \/ \E s \in active : StealReg(t, s) \/ SpillSelf(t, s)

RaNext ==
  \/ \E D, U \in SUBSET Temps : ScanInsn(D, U)
  \/ \E t \in Temps : ScanArg(t)
  \/ \E D, U \in SUBSET Temps :
       Cardinality(D) <= 1 /\ Cardinality(U) <= 1 /\ ScanCall(D, U)
  \/ EndScan \/ BeginInt \/ BeginFloat \/ EndAlloc \/ Place

RaSpec == RaInit /\ [][RaNext]_raVars

(***************************************************************************)
(* Properties.                                                             *)
(***************************************************************************)

\* i64_lo_idx, i64_hi_idx: the pairs count down from the top of s1..s11
Occupies(t) ==
  CASE reg[t] < 0 -> {}
    [] reg[t] >= 0 /\ cls[t] = "i64" -> {<<"x", IntRegs - 2 - 2 * reg[t]>>, <<"x", IntRegs - 1 - 2 * reg[t]>>}
    [] reg[t] >= 0 /\ cls[t] = "int" -> {<<"x", reg[t]>>}
    [] reg[t] >= 0 /\ cls[t] = "float" -> {<<"f", reg[t]>>}

\* fspill_byte_offset, spill_byte_offset, i64spill_byte_offset, as a distance
\* below the locals to the slot's lowest byte
SpillDepth(t) ==
  spill[t] + SpillSize(cls[t])
    + (IF cls[t] = "float" THEN 0 ELSE slots["float"] * 8)
    + (IF cls[t] = "i64" THEN slots["int"] * 4 ELSE 0)

SpillBytes(t) == (SpillDepth(t) - SpillSize(cls[t]) + 1) .. SpillDepth(t)

LiveTogether(t, u) ==
  /\ firstDef[t] >= 0 /\ firstDef[u] >= 0
  /\ firstDef[t] <= lastRead[u] /\ firstDef[u] <= lastRead[t]

\* Two temps that are live at one instruction share no machine register,
\* whether single, half of a pair or float, and no temp is in a register an
\* asm of the function pins: an argument keeps its register up to the call
\* that consumes it, and the integers stay below the pairs handed out before
\* them (linscan's expiry and spilling, regalloc's pending[] and int_num_regs).
\* Every temp that is written has exactly one home, and the bytes of two spill
\* slots never overlap, across the three spill areas of the frame as well.
HomesApart ==
  stage = "done" =>
    \A t \in Temps :
      /\ \A u \in Temps \ {t} :
           /\ LiveTogether(t, u) => Occupies(t) \cap Occupies(u) = {}
           /\ spill[t] >= 0 /\ spill[u] >= 0 => SpillBytes(t) \cap SpillBytes(u) = {}
      /\ \A r \in pinned : <<"x", r>> \notin Occupies(t)
      /\ firstDef[t] >= 0 => (reg[t] >= 0) # (spill[t] >= 0)
=============================================================================
