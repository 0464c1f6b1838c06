----------------------------- MODULE SchedBuild ----------------------------
(***************************************************************************)
(* How emu/sched.c builds a process, call by call: proc_alloc takes a slot *)
(* and a CPU, the loader maps the image, proc_accept looks at its header   *)
(* and proc_finish lays out the stack and issues the handle.  Each of      *)
(* these calls can fail and has to give back what the earlier ones took.   *)
(***************************************************************************)
EXTENDS Integers, FiniteSets

CONSTANTS
  MaxProc,     \* SKJ_MAX_PROC
  GenMod,      \* generations a handle can tell apart
  MaxGen,      \* bound on the generation of a slot
  Vdso,        \* run_opts.vdso: a vDSO image was given
  VdsoLoads    \* outcomes of guest_vdso_image to consider

ASSUME BuildAssumption ==
  /\ MaxProc \in 1 .. 254 /\ GenMod \in Nat \ {0} /\ MaxGen \in Nat
  /\ Vdso \in BOOLEAN /\ VdsoLoads \subseteq BOOLEAN

VARIABLES
  used,        \* slots with a process (sched.procs[slot] is not NULL)
  handle,      \* proc.handle, 0 until proc_finish
  slot_gen, nprocs,
  vdso_state,  \* 0 not tried, 1 built, -1 failed
  cpus,        \* CPUs allocated and not freed
  pc,          \* the call the build is at, "idle" between builds
  slot         \* the slot of the build

vars == <<used, handle, slot_gen, nprocs, vdso_state, cpus, pc, slot>>

Slots == 0 .. MaxProc - 1

PROC_HANDLE(s, gen) == (s + 1) + 256 * (gen % GenMod)

Init ==
  /\ used = {}
  /\ handle = [s \in Slots |-> 0]
  /\ slot_gen = [s \in Slots |-> 0]
  /\ nprocs = 0
  /\ vdso_state = 0
  /\ cpus = 0
  /\ pc = "idle"
  /\ slot = 0

\* The slot proc_alloc takes: a retired one before the table grows.
TakesSlot(s) ==
  /\ s \notin used
  /\ \A t \in 0 .. s - 1 : t \in used
  /\ nprocs' = IF s < nprocs THEN nprocs ELSE nprocs + 1

\* proc_alloc up to the CPU.  The table is full, or host memory for the process
\* or its CPU has run out and the slot is left to the next build.
AllocFails ==
  /\ pc = "idle"
  /\ \/ used = Slots /\ UNCHANGED nprocs
     \/ \E s \in Slots : TakesSlot(s)
  /\ UNCHANGED <<used, handle, slot_gen, vdso_state, cpus, pc, slot>>

Alloc ==
  /\ pc = "idle"
  /\ \E s \in Slots : TakesSlot(s) /\ slot' = s
  /\ cpus' = cpus + 1
  /\ pc' = "mem_init"
  /\ UNCHANGED <<used, handle, slot_gen, vdso_state>>

\* Mutant of MemInitFails: the CPU is not given back.
MutMemInitFails ==
  /\ pc = "mem_init"
  /\ pc' = "idle"
  /\ UNCHANGED <<used, handle, slot_gen, nprocs, vdso_state, cpus, slot>>

MemInitFails ==
  /\ pc = "mem_init"
  /\ cpus' = cpus - 1
  /\ pc' = "idle"
  /\ UNCHANGED <<used, handle, slot_gen, nprocs, vdso_state, slot>>

\* ... and the process is in the table, without a handle so far.
MemInit ==
  /\ pc = "mem_init"
  /\ used' = used \cup {slot}
  /\ handle' = [handle EXCEPT ![slot] = 0]
  /\ pc' = "load"
  /\ UNCHANGED <<slot_gen, nprocs, vdso_state, cpus, slot>>

\* Mutant of Discard: the generation of the slot moves on.
MutDiscard ==
  /\ used' = used \ {slot}
  /\ cpus' = cpus - 1
  /\ slot_gen' = [slot_gen EXCEPT ![slot] = @ + 1]
  /\ pc' = "idle"
  /\ UNCHANGED <<handle, nprocs, vdso_state, slot>>

\* proc_discard
Discard ==
  /\ used' = used \ {slot}
  /\ cpus' = cpus - 1
  /\ pc' = "idle"
  /\ UNCHANGED <<handle, slot_gen, nprocs, vdso_state, slot>>

\* elf32_load and its siblings
LoadFails == pc = "load" /\ Discard
Load ==
  /\ pc = "load"
  /\ pc' = "accept"
  /\ UNCHANGED <<used, handle, slot_gen, nprocs, vdso_state, cpus, slot>>

\* proc_accept: the wrong machine or byte order is rejected.
Rejects == pc = "accept" /\ Discard
Accepts ==
  /\ pc = "accept"
  /\ pc' = "finish"
  /\ UNCHANGED <<used, handle, slot_gen, nprocs, vdso_state, cpus, slot>>

\* What vdso_state may become: the first process that gets here builds the
\* vDSO; otherwise it is found built, broken or not asked for.
NewVdsoState ==
  IF Vdso /\ vdso_state = 0
  THEN {IF loads THEN 1 ELSE -1 : loads \in VdsoLoads}
  ELSE {vdso_state}

\* proc_finish returns -1 when the vDSO image cannot be built.
FinishFails ==
  /\ pc = "finish"
  /\ Vdso /\ vdso_state >= 0
  /\ -1 \in NewVdsoState
  /\ vdso_state' = -1
  /\ pc' = "idle"
  /\ UNCHANGED <<used, handle, slot_gen, nprocs, cpus, slot>>

Finish ==
  /\ pc = "finish"
  /\ \E v \in NewVdsoState :
       /\ Vdso /\ vdso_state >= 0 => v # -1
       /\ vdso_state' = v
  /\ handle' = [handle EXCEPT ![slot] = PROC_HANDLE(slot, slot_gen[slot])]
  /\ pc' = "idle"
  /\ UNCHANGED <<used, slot_gen, nprocs, cpus, slot>>

\* reap_child, of a process that was built and has run.
Reap(s) ==
  /\ pc = "idle"
  /\ s \in used /\ handle[s] # 0
  /\ slot_gen[s] < MaxGen
  /\ used' = used \ {s}
  /\ cpus' = cpus - 1
  /\ slot_gen' = [slot_gen EXCEPT ![s] = @ + 1]
  /\ UNCHANGED <<handle, nprocs, vdso_state, pc, slot>>

Next ==
  \/ AllocFails \/ Alloc \/ MemInitFails \/ MemInit
  \/ LoadFails \/ Load \/ Rejects \/ Accepts \/ FinishFails \/ Finish
  \/ \E s \in Slots : Reap(s)

Spec == Init /\ [][Next]_vars
-----------------------------------------------------------------------------
\* The table, the CPU count and the stage of the build keep their types.
TypeOK ==
  /\ used \subseteq Slots
  /\ handle \in [Slots -> Nat]
  /\ slot_gen \in [Slots -> Nat]
  /\ nprocs \in 0 .. MaxProc
  /\ vdso_state \in {-1, 0, 1}
  /\ cpus \in 0 .. MaxProc
  /\ pc \in {"idle", "mem_init", "load", "accept", "finish"}
  /\ slot \in Slots

\* Between two builds every CPU belongs to a process of the table, whichever
\* call of an earlier build failed.
NoCpuLeaks == pc = "idle" => cpus = Cardinality(used)

\* A rejected image leaves nothing behind: between two builds every process of
\* the table was built to the end and has its handle (proc_accept).
RejectedIsGone == pc = "idle" => \A s \in used : handle[s] # 0

\* The table as the holders of handles see it: a build shows once it is done.
Table == INSTANCE ProcTable WITH
           handles <- [s \in Slots |-> IF s \in used THEN handle[s] ELSE 0],
           gens <- slot_gen

\* Building processes, with failures at any call, uses the table as ProcTable
\* promises: a failed build neither shows in it nor moves a generation on.
TableSpec == Table!Spec
=============================================================================
