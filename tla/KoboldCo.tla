------------------------------ MODULE KoboldCo ------------------------------
(***************************************************************************)
(* The coroutines of the Kobold runtime (kobold/co.c) over the handle      *)
(* table and the traps of kobold/co_shim.c.  A coroutine is reclaimed when *)
(* its last reference goes: one that is suspended is first run in cancel   *)
(* mode, so that its frames release what they hold; one that is running is *)
(* marked dead, for the resume it is in to reclaim.  A trap leaves the     *)
(* running coroutine for the co_run that entered it.  The first coroutine  *)
(* of each thread arms the recovery from stack overflow for the process.   *)
(*                                                                         *)
(* A body that ends has released what it holds; release(self) takes the    *)
(* reference of an owner that does not use it again.                       *)
(***************************************************************************)
EXTENDS Integers, Sequences, FiniteSets, Functions

CONSTANTS
  MaxCos,        \* bound: coroutines made in a behaviour
  MainProgram,   \* the stack of the program that drives the VM
  CoThreads,     \* threads of the process, each with a VM of its own
  VmThread       \* the thread of the VM whose coroutines are modelled

ASSUME CoAssumption ==
  /\ MaxCos \in Nat \ {0} /\ VmThread \in CoThreads /\ MainProgram \notin 1 .. MaxCos

VARIABLES
  co,            \* state of each coroutine: "none" before kp_co_new, "freed", "twice"
  started, cancelling, dead,
  holds,         \* the coroutines that the frames of a context have references to
  entered,       \* the co_run calls in progress, innermost last
  curco,         \* the static variable current
  landing,       \* the landing pad: which of the calls a trap goes to, 0 the program's
  raising,       \* a trap is on its way to the landing pad
  closing,       \* kp_handle_sweep has begun
  arming,        \* where each thread is in co_install_handler_once
  handlerState,  \* co_handler_state
  segv, oldSegv  \* the disposition of SIGSEGV, and co_old_segv

refVars == <<co, started, cancelling, dead, holds>>
armVars == <<arming, handlerState, segv, oldSegv>>
runVars == <<entered, curco, landing>>
coVars == <<refVars, runVars, raising, closing, armVars>>

Cos == 1 .. MaxCos
NoCo == 0
\* The frames of co_run on the host stack: the innermost and those around it.
Innermost(e) == e[Len(e)]
Outer(e) == SubSeq(e, 1, Len(e) - 1)
Running == IF entered = <<>> THEN MainProgram ELSE Innermost(entered).co
\* The count of a handle is above zero: each context with a reference added one.
HasRef(h, c) == \E x \in DOMAIN h : c \in h[x]
InUse == {entered[i].co : i \in DOMAIN entered}

CoInit ==
  /\ co = [c \in Cos |-> "none"] /\ started = {} /\ cancelling = {} /\ dead = {}
  /\ holds = [x \in Cos \cup {MainProgram} |-> {}]
  /\ entered = <<>> /\ curco = NoCo /\ landing = 0 /\ raising = FALSE /\ closing = FALSE
  /\ arming = [t \in CoThreads |-> "new"] /\ handlerState = 0
  /\ segv = "theirs" /\ oldSegv = "unset"

-----------------------------------------------------------------------------
(* Arming the recovery from stack overflow, once for all threads.          *)

At(t, from, to) == arming[t] = from /\ arming' = [arming EXCEPT ![t] = to]
ArmsOnly == UNCHANGED <<refVars, runVars, raising, closing>>

CheckHandler(t) ==
  /\ At(t, "new", IF handlerState = 2 THEN "ready" ELSE "elect")
  /\ UNCHANGED <<handlerState, segv, oldSegv>> /\ ArmsOnly

\* Mutant of Elect: the state is set by whoever finds it not done.
MutElect(t) ==
  /\ At(t, "elect", "install") /\ handlerState' = 1
  /\ UNCHANGED <<segv, oldSegv>> /\ ArmsOnly

\* The compare and exchange: one thread installs, the others wait.
Elect(t) ==
  /\ At(t, "elect", IF handlerState = 0 THEN "install" ELSE "wait")
  /\ handlerState' = IF handlerState = 0 THEN 1 ELSE handlerState
  /\ UNCHANGED <<segv, oldSegv>> /\ ArmsOnly

InstallHandler(t) ==
  /\ At(t, "install", "publish")
  /\ oldSegv' = segv /\ segv' = "ours"
  /\ UNCHANGED handlerState /\ ArmsOnly

Publish(t) ==
  /\ At(t, "publish", "ready") /\ handlerState' = 2
  /\ UNCHANGED <<segv, oldSegv>> /\ ArmsOnly

AwaitHandler(t) ==
  /\ handlerState = 2 /\ At(t, "wait", "ready")
  /\ UNCHANGED <<handlerState, segv, oldSegv>> /\ ArmsOnly

-----------------------------------------------------------------------------
(* Entering and reclaiming coroutines.                                     *)

\* co_run up to the switch.
Enter(cs, c, why) == Append(cs, [co |-> c, why |-> why, prev |-> curco, outer |-> landing])

Freed(f, c) == [f EXCEPT ![c] = IF @ = "freed" THEN "twice" ELSE "freed"]

\* co_reclaim with the calls cs in progress, entered with `current` cur and the pad pad.
Reclaim(c, state, cs, cur, pad) ==
  IF state[c] = "suspended" /\ c \in started
  THEN /\ cancelling' = cancelling \cup {c}
       /\ co' = [state EXCEPT ![c] = "running"]
       /\ entered' = Append(cs, [co |-> c, why |-> "cancel", prev |-> cur, outer |-> pad])
       /\ curco' = c /\ landing' = Len(cs) + 1
  ELSE /\ co' = Freed(state, c) /\ entered' = cs /\ curco' = cur /\ landing' = pad
       /\ UNCHANGED cancelling

\* Mutant of Drop: a coroutine that runs is reclaimed like any other.
MutDrop(c) == Reclaim(c, co, entered, curco, landing) /\ UNCHANGED dead

\* kp_co_drop.
Drop(c) ==
  IF co[c] = "running" THEN dead' = dead \cup {c} /\ UNCHANGED <<co, cancelling, runVars>>
  ELSE Reclaim(c, co, entered, curco, landing) /\ UNCHANGED dead

\* The switch back out of the innermost co_run, its coroutine left in a state, and the
\* rest of the kp_co_resume or co_cancel and co_reclaim it was made by.
Leave(state) ==
  LET f == Innermost(entered)
      left == [co EXCEPT ![f.co] = state]
  IN  IF f.why = "cancel"
      THEN /\ co' = Freed(left, f.co) /\ entered' = Outer(entered) /\ curco' = f.prev /\ landing' = f.outer
           /\ UNCHANGED cancelling
      ELSE IF f.co \in dead THEN Reclaim(f.co, left, Outer(entered), f.prev, f.outer)
      ELSE /\ co' = left /\ entered' = Outer(entered) /\ curco' = f.prev /\ landing' = f.outer
           /\ UNCHANGED cancelling

-----------------------------------------------------------------------------
(* What the running context does.                                          *)

Runs == ~raising /\ (entered = <<>> => ~closing)

New(c) ==
  /\ Runs /\ arming[VmThread] = "ready"
  /\ co[c] = "none" /\ \A d \in Cos : d < c => co[d] # "none"
  /\ co' = [co EXCEPT ![c] = "suspended"]
  /\ holds' = [holds EXCEPT ![Running] = @ \cup {c}]
  /\ UNCHANGED <<started, cancelling, dead, runVars, raising, closing, armVars>>

\* One context hands another a reference of its own.
Retain(c, x) ==
  /\ Runs /\ c \in holds[Running] /\ x \in InUse \cup {MainProgram} \cup {d \in Cos : co[d] = "suspended"}
  /\ x # Running /\ c \notin holds[x]
  /\ holds' = [holds EXCEPT ![x] = @ \cup {c}]
  /\ UNCHANGED <<co, started, cancelling, dead, runVars, raising, closing, armVars>>

\* Any but a suspended coroutine is refused with a trap.
Resume(c) ==
  /\ Runs /\ c \in holds[Running]
  /\ IF co[c] = "suspended"
     THEN /\ co' = [co EXCEPT ![c] = "running"] /\ started' = started \cup {c}
          /\ entered' = Enter(entered, c, "resume") /\ curco' = c /\ landing' = Len(entered) + 1
          /\ UNCHANGED raising
     ELSE raising' = TRUE /\ UNCHANGED <<co, started, runVars>>
  /\ UNCHANGED <<cancelling, dead, holds, closing, armVars>>

\* In cancel mode kp_co_yield returns at once.
CoYield ==
  /\ Runs /\ entered # <<>> /\ curco # NoCo /\ curco \notin cancelling
  /\ Leave("suspended")
  /\ UNCHANGED <<started, dead, holds, raising, closing, armVars>>

\* co_trampoline after the body.
BodyEnds ==
  /\ Runs /\ entered # <<>> /\ holds[Running] = {}
  /\ Leave("done")
  /\ UNCHANGED <<started, dead, holds, raising, closing, armVars>>

\* co_table_release of a reference that x has: the slot is free before the reclaimer runs.
ReleaseOf(c, x) ==
  /\ Runs /\ c \in holds[x]
  /\ holds' = [holds EXCEPT ![x] = @ \ {c}]
  /\ IF HasRef(holds', c) THEN UNCHANGED <<co, cancelling, dead, runVars>> ELSE Drop(c)
  /\ UNCHANGED <<started, raising, closing, armVars>>

Release(c) == ReleaseOf(c, Running)
ReleaseSelf(x) == entered # <<>> /\ x # Running /\ ReleaseOf(Running, x)

-----------------------------------------------------------------------------
(* Traps and the end of the program.                                       *)

\* kp_raise, or an overflow that the handler sends to the pad of the innermost co_run.
Trap ==
  /\ Runs /\ raising' = TRUE
  /\ UNCHANGED <<refVars, runVars, closing, armVars>>

\* The pad of a co_run: its coroutine is done, its frames are abandoned with what they
\* hold.  A cancel swallows the trap; a resume raises it again.
Land ==
  /\ raising /\ landing # 0
  /\ LET f == entered[landing]
         left == [co EXCEPT ![f.co] = "done"]
     IN  /\ co' = IF f.why = "cancel" \/ f.co \in dead THEN Freed(left, f.co) ELSE left
         /\ entered' = SubSeq(entered, 1, landing - 1) /\ curco' = f.prev /\ landing' = f.outer
         /\ raising' = (f.why = "resume")
  /\ UNCHANGED <<started, cancelling, dead, holds, closing, armVars>>

\* The program's own pad.
Caught ==
  /\ raising /\ landing = 0 /\ raising' = FALSE
  /\ UNCHANGED <<refVars, runVars, closing, armVars>>

Teardown ==
  /\ Runs /\ entered = <<>> /\ closing' = TRUE
  /\ UNCHANGED <<refVars, runVars, raising, armVars>>

\* A live slot is cleared and its reclaimer run.
Sweep(c) ==
  /\ closing /\ ~raising /\ entered = <<>> /\ HasRef(holds, c)
  /\ holds' = [x \in DOMAIN holds |-> holds[x] \ {c}]
  /\ Drop(c)
  /\ UNCHANGED <<started, raising, closing, armVars>>

CoNext ==
  \/ \E t \in CoThreads : CheckHandler(t) \/ Elect(t) \/ InstallHandler(t) \/ Publish(t) \/ AwaitHandler(t)
  \/ \E c \in Cos : New(c) \/ Resume(c) \/ Release(c) \/ Sweep(c) \/ \E x \in DOMAIN holds : Retain(c, x)
  \/ \E x \in DOMAIN holds : ReleaseSelf(x)
  \/ CoYield \/ BodyEnds \/ Trap \/ Land \/ Caught \/ Teardown

CoSpec == CoInit /\ [][CoNext]_coVars

-----------------------------------------------------------------------------
(* Properties.                                                             *)

\* A coroutine is freed exactly when nothing refers to it and no call runs on its stack:
\* however resumes, cancels, releases of the own handle and traps are nested, no co_run in
\* progress is on a stack that was given back, none is given back twice and none is kept.
\* `current` and the landing pad are those of the innermost co_run.
StacksLive ==
  /\ \A c \in Cos :
       /\ c \in InUse => co[c] = "running"
       /\ co[c] = "freed" <=> (co[c] # "none" /\ ~HasRef(holds, c) /\ c \notin InUse)
  /\ IsInjective([i \in DOMAIN entered |-> entered[i].co])
  /\ curco = (IF entered = <<>> THEN NoCo ELSE Innermost(entered).co) /\ landing = Len(entered)

\* No thread has a coroutine before the handler that recovers its stack overflow is there,
\* and the disposition that co_segv_handler gives other faults back to is never its own,
\* with which they would fault without end: two threads never both install it.
RecoveryArmed ==
  /\ oldSegv # "ours"
  /\ \A t \in CoThreads : arming[t] = "ready" => segv = "ours" /\ oldSegv = "theirs" /\ handlerState = 2
=============================================================================
