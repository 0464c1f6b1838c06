------------------------------- MODULE Sched -------------------------------
(***************************************************************************)
(* The process table and round-robin scheduler of the sandbox emulator     *)
(* (src/emu/sched.c): slots and generation handles, spawn / wait / kill,   *)
(* the slice loop of sched_step with its end-of-round bookkeeping, the     *)
(* park of a blocking call and the poll that wakes it, and sched_destroy.  *)
(*                                                                         *)
(* One host thread runs everything, so the steps below are the steps of    *)
(* that thread.  What is nondeterministic is what the guests do in their   *)
(* slices, which host fds become ready, and how fast the clock runs.       *)
(***************************************************************************)
EXTENDS Integers, Sequences

CONSTANTS
  MaxProc,     \* SKJ_MAX_PROC, the number of slots of the process table
  GenMod,      \* generations a handle can tell apart (2^24 in PROC_HANDLE)
  MaxRoots,    \* bound: root processes the host adds before the run
  MaxBirths,   \* bound: processes created in the whole run
  MaxCalls,    \* bound: host calls one slice (SKJ_QUANTUM instructions) makes
  Fds,         \* host fds a guest may block on
  Sleeps,      \* durations a guest may sleep for
  MaxTime,     \* bound: the monotonic clock
  PollCap,     \* the longest single wait of poll_blocked
  Limit        \* whether the run has a global instruction limit (max_insns)

ASSUME SchedAssumption ==
  /\ MaxProc \in 1..254
  /\ GenMod \in Nat \ {0}
  /\ MaxRoots \in Nat \ {0}
  /\ MaxBirths \in Nat
  /\ MaxCalls \in Nat
  /\ Fds \subseteq Nat
  /\ Sleeps \subseteq Nat \ {0}
  /\ MaxTime \in Nat
  /\ PollCap \in Nat \ {0}
  /\ Limit \in BOOLEAN

VARIABLES
  procs,       \* sched.procs[]: a record per slot, NoProc for a NULL entry
  slot_gen,    \* sched.slot_gen[]
  nprocs,      \* sched.nprocs, the high-water mark of slots ever used
  limited,     \* sched.limited
  pc,          \* where the host thread is
  i,           \* the slot of the slice loop's cursor
  ran,         \* sched_step's *ran
  calls,       \* host calls made so far in the current slice
  now,         \* the monotonic clock
  revents,     \* the fds the last poll reported
  issued       \* history: the handle of each process, in order of creation

vars == <<procs, slot_gen, nprocs, limited, pc, i, ran, calls, now, revents,
          issued>>

Slots == 0 .. MaxProc - 1

\* PROC_HANDLE: slot + 1 in the low byte, the generation truncated above it.
PROC_HANDLE(slot, gen) == (slot + 1) + 256 * (gen % GenMod)

Causes == {"none", "fault", "budget", "limit", "killed"}
PendingCalls == {"none", "wait", "io", "sleep"}

(***************************************************************************)
(* A process.  Beside sched.h's fields: id is its place in the order of    *)
(* creation, frees counts the ops->free of its CPU, and call / arg are the *)
(* guest call that the next slice executes again, because the last one     *)
(* parked on it (a handle, a host fd, or the sleep_deadline).              *)
(***************************************************************************)
Proc ==
  [used : BOOLEAN, id : Nat, handle : Nat, parent : Nat,
   done : BOOLEAN, rc : Causes, zombie : BOOLEAN, frees : Nat,
   blocked : BOOLEAN, wait : Slots \cup {-1}, fd : Fds \cup {-1},
   deadline : Nat, gpark : BOOLEAN, gfd : Fds \cup {-1}, gdeadline : Nat,
   call : PendingCalls, arg : Nat]

NoProc ==
  [used |-> FALSE, id |-> 0, handle |-> 0, parent |-> 0,
   done |-> FALSE, rc |-> "none", zombie |-> FALSE, frees |-> 0,
   blocked |-> FALSE, wait |-> -1, fd |-> -1, deadline |-> 0,
   gpark |-> FALSE, gfd |-> -1, gdeadline |-> 0,
   call |-> "none", arg |-> 0]

NewProc(slot, parent) ==
  [NoProc EXCEPT !.used = TRUE, !.id = Len(issued) + 1,
                 !.handle = PROC_HANDLE(slot, slot_gen[slot]),
                 !.parent = parent]

\* proc_from_handle: the slot the handle names now, or -1.
proc_from_handle(h) ==
  LET slot == (h % 256) - 1
  IN  IF slot \in 0 .. nprocs - 1 /\ procs[slot].used /\ procs[slot].handle = h
      THEN slot ELSE -1

Live(s) == procs[s].used /\ ~procs[s].done
Runnable(s) == Live(s) /\ ~procs[s].blocked
Finished(s) == procs[s].used /\ procs[s].done

\* Mutant of Child: the caller need not be the parent.
MutChild(h) == proc_from_handle(h)

Child(h) == LET c == proc_from_handle(h)
            IN  IF c # -1 /\ procs[c].parent = procs[i].handle THEN c ELSE -1

\* proc_alloc's slot: the lowest free one.
FreeSlot(s) == ~procs[s].used /\ \A t \in 0 .. s - 1 : procs[t].used

Becomes(s, p) == procs' = [procs EXCEPT ![s] = p]

Ended(p, cause) == [p EXCEPT !.done = TRUE, !.rc = cause]

\* The parked call, executed again, has returned.
CallDone(p) == [p EXCEPT !.call = "none"]

\* free_proc_resources: idempotent through the zombie flag.
FreeResources(p) ==
  IF p.zombie THEN p ELSE [p EXCEPT !.zombie = TRUE, !.frees = @ + 1]

Init ==
  /\ procs = [s \in Slots |-> NoProc]
  /\ slot_gen = [s \in Slots |-> 0]
  /\ nprocs = 0
  /\ limited = FALSE
  /\ pc = "boot"
  /\ i = 0
  /\ ran = FALSE
  /\ calls = 0
  /\ now = 0
  /\ revents = {}
  /\ issued = <<>>
-----------------------------------------------------------------------------
(* Building processes.                                                     *)

\* A new process takes the slot proc_alloc finds.
Build(s, parent) ==
  /\ Len(issued) < MaxBirths
  /\ FreeSlot(s)
  /\ Becomes(s, NewProc(s, parent))
  /\ nprocs' = IF s < nprocs THEN nprocs ELSE s + 1
  /\ issued' = Append(issued, NewProc(s, parent).handle)
  /\ UNCHANGED <<slot_gen, limited, now, revents>>

\* A rejected image: proc_alloc may have grown the table before proc_discard
\* cleared the slot again, the generation untouched.
Reject(s) ==
  /\ FreeSlot(s)
  /\ nprocs' = IF s < nprocs THEN nprocs ELSE s + 1
  /\ UNCHANGED <<procs, slot_gen, limited, now, revents, issued>>

\* sched_add_root, for an image that loads.
AddRoot ==
  /\ pc = "boot"
  /\ Len(issued) < MaxRoots
  /\ \E s \in Slots : Build(s, 0)
  /\ UNCHANGED <<pc, i, ran, calls>>

\* sched_run enters its first round.
Start ==
  /\ pc = "boot"
  /\ issued # <<>>
  /\ pc' = "step"
  /\ i' = 0
  /\ ran' = FALSE
  /\ UNCHANGED <<procs, slot_gen, nprocs, limited, calls, now, revents, issued>>
-----------------------------------------------------------------------------
(* The slice loop: the next slot that is neither free, done nor parked.    *)

BeginSlice ==
  /\ pc = "step"
  /\ \E s \in i .. nprocs - 1 :
       /\ Runnable(s)
       /\ \A t \in i .. s - 1 : ~Runnable(t)
       /\ i' = s
  /\ pc' = "slice"
  /\ calls' = 0
  /\ UNCHANGED <<procs, slot_gen, nprocs, limited, ran, now, revents, issued>>

\* The process on the CPU makes a host call: a call of its own choosing, or
\* again the one it parked on.
InCall(op) ==
  /\ pc = "slice"
  /\ calls < MaxCalls
  /\ procs[i].call = op

\* The call returns to the guest, which goes on with its slice.
CallReturns == calls' = calls + 1 /\ UNCHANGED <<pc, i, ran>>

\* do_spawn / do_spawnv, for an image that loads.
Spawn ==
  /\ InCall("none")
  /\ \E s \in Slots : Build(s, procs[i].handle)
  /\ CallReturns

SpawnFails ==
  /\ InCall("none")
  /\ \E s \in Slots : Reject(s)
  /\ CallReturns

\* Mutant of Kill: a finished child is killed again.
MutKill(h) ==
  /\ InCall("none")
  /\ Child(h) # -1
  /\ Becomes(Child(h), Ended(procs[Child(h)], "killed"))
  /\ CallReturns
  /\ UNCHANGED <<slot_gen, nprocs, limited, now, revents, issued>>

\* do_kill, of a child of the caller (any other handle changes nothing).
Kill(h) ==
  /\ InCall("none")
  /\ Child(h) # -1
  /\ IF procs[Child(h)].done THEN UNCHANGED procs
     ELSE Becomes(Child(h), Ended(procs[Child(h)], "killed"))
  /\ CallReturns
  /\ UNCHANGED <<slot_gen, nprocs, limited, now, revents, issued>>

\* The handle a wait call names: a new call's argument, or the parked call's.
WaitsFor(h) ==
  \/ InCall("none")
  \/ InCall("wait") /\ procs[i].arg = h

\* do_wait on a handle that is not a child of the caller: BADHANDLE.
WaitBad(h) ==
  /\ WaitsFor(h)
  /\ Child(h) = -1
  /\ Becomes(i, CallDone(procs[i]))
  /\ CallReturns
  /\ UNCHANGED <<slot_gen, nprocs, limited, now, revents, issued>>

\* Mutant of WaitReaps: the slot is freed with its old generation.
MutWaitReaps(h) ==
  LET c == Child(h) IN
  /\ WaitsFor(h)
  /\ c # -1
  /\ procs[c].done
  /\ procs' = [procs EXCEPT ![c] = NoProc,
                            ![i] = [CallDone(procs[i]) EXCEPT !.wait = -1]]
  /\ CallReturns
  /\ UNCHANGED <<slot_gen, nprocs, limited, now, revents, issued>>

\* do_wait on a finished child: its status is returned and reap_child frees
\* the slot with a bumped generation.
WaitReaps(h) ==
  LET c == Child(h) IN
  /\ WaitsFor(h)
  /\ c # -1
  /\ procs[c].done
  /\ procs' = [procs EXCEPT ![c] = NoProc,
                            ![i] = [CallDone(procs[i]) EXCEPT !.wait = -1]]
  /\ slot_gen' = [slot_gen EXCEPT ![c] = @ + 1]
  /\ CallReturns
  /\ UNCHANGED <<nprocs, limited, now, revents, issued>>

\* GPARK_RETRY, with what to wait for.
Parked(p, op, arg, fd, deadline) ==
  [p EXCEPT !.gpark = TRUE, !.gfd = fd, !.gdeadline = deadline,
            !.call = op, !.arg = arg]

\* The call parks: the CPU hands control back, and the next slice executes
\* the call again.
Parks(p) ==
  /\ Becomes(i, p)
  /\ pc' = "tail"
  /\ UNCHANGED <<slot_gen, nprocs, limited, i, ran, calls, now, revents,
                 issued>>

\* Mutant of WaitParks: the deadline of an earlier sleep stays in place.
MutWaitParks(h) ==
  /\ WaitsFor(h)
  /\ Child(h) # -1
  /\ ~procs[Child(h)].done
  /\ Parks([Parked(procs[i], "wait", h, -1, procs[i].gdeadline)
             EXCEPT !.wait = Child(h)])

\* do_wait on a child that still runs.  Every core the scheduler drives sets
\* can_park in its ready(), so do_wait never takes its WOULDBLOCK return here.
WaitParks(h) ==
  /\ WaitsFor(h)
  /\ Child(h) # -1
  /\ ~procs[Child(h)].done
  /\ Parks([Parked(procs[i], "wait", h, -1, 0) EXCEPT !.wait = Child(h)])

\* sys_read / sys_write on a host fd that would block: the deadline field of
\* an earlier park is left as it is.
IoParks(f) ==
  /\ InCall("none") \/ (InCall("io") /\ procs[i].arg = f)
  /\ Parks(Parked(procs[i], "io", f, f, procs[i].gdeadline))

\* ... and the retry of one that would not block any more.
IoCompletes ==
  /\ InCall("io")
  /\ Becomes(i, CallDone(procs[i]))
  /\ CallReturns
  /\ UNCHANGED <<slot_gen, nprocs, limited, now, revents, issued>>

\* sys_nanosleep: the first call fixes the deadline, a retry before it parks
\* again.
SleepParks(until) ==
  /\ \/ InCall("none") /\ \E d \in Sleeps : until = now + d /\ until <= MaxTime
     \/ InCall("sleep") /\ until = procs[i].arg
  /\ now < until
  /\ Parks(Parked(procs[i], "sleep", until, -1, until))

SleepCompletes ==
  /\ InCall("sleep")
  /\ now >= procs[i].arg
  /\ Becomes(i, CallDone(procs[i]))
  /\ CallReturns
  /\ UNCHANGED <<slot_gen, nprocs, limited, now, revents, issued>>

\* The slice ends with the process still willing to run: it yielded, or its
\* instruction batch is used up.
Yield ==
  /\ pc = "slice"
  /\ pc' = "tail"
  /\ UNCHANGED <<procs, slot_gen, nprocs, limited, i, ran, calls, now, revents,
                 issued>>

Tick ==
  /\ pc = "slice"
  /\ now < MaxTime
  /\ now' = now + 1
  /\ UNCHANGED <<procs, slot_gen, nprocs, limited, pc, i, ran, calls, revents,
                 issued>>
-----------------------------------------------------------------------------
(* The end of proc_slice, and the cursor moves on.                         *)

\* Mutant of SliceOver: the round starts over at the first slot.
MutSliceOver(p) ==
  /\ Becomes(i, p)
  /\ pc' = "step"
  /\ i' = 0
  /\ ran' = TRUE
  /\ calls' = 0
  /\ UNCHANGED <<slot_gen, nprocs, now, revents, issued>>

SliceOver(p) ==
  /\ Becomes(i, p)
  /\ pc' = "step"
  /\ i' = i + 1
  /\ ran' = TRUE
  /\ calls' = 0
  /\ UNCHANGED <<slot_gen, nprocs, now, revents, issued>>

\* The process stopped: a memory fault, a trap or a halt without an exit
\* (rc is set), or a clean exit (rc stays clear).
Stop ==
  /\ pc = "slice"
  /\ \E cause \in {"none", "fault"} :
       SliceOver(Ended(procs[i], cause))
  /\ UNCHANGED limited

\* A spawned child used up its own instruction budget.
OverBudget ==
  /\ pc = "tail"
  /\ procs[i].parent # 0
  /\ SliceOver(Ended(procs[i], "budget"))
  /\ UNCHANGED limited

\* The global instruction limit: the whole run stops here, in mid-round.
HitLimit ==
  /\ pc = "tail"
  /\ Limit
  /\ Becomes(i, Ended(procs[i], "limit"))
  /\ limited' = TRUE
  /\ pc' = "over"
  /\ ran' = TRUE
  /\ UNCHANGED <<slot_gen, nprocs, i, calls, now, revents, issued>>

Blocked(p) == [p EXCEPT !.blocked = TRUE, !.fd = p.gfd,
                        !.deadline = p.gdeadline, !.gpark = FALSE]

\* Still runnable, or parked on what its last call recorded.
Reschedule ==
  /\ pc = "tail"
  /\ SliceOver(IF procs[i].gpark THEN Blocked(procs[i]) ELSE procs[i])
  /\ UNCHANGED limited
-----------------------------------------------------------------------------
(* End of round: zombify, wake the waiters, reap the orphans.              *)

\* Mutants of Orphan: a live parent is no reason to keep the child; a finished
\* one is.
MutOrphanAny(c) == c # 0 /\ Finished(c)
MutOrphanGone(c) ==
  c # 0 /\ Finished(c) /\ proc_from_handle(procs[c].parent) = -1

\* A finished child that no wait can collect any more, its parent resolved by
\* handle.
Orphan(c) ==
  /\ c # 0
  /\ Finished(c)
  /\ LET par == proc_from_handle(procs[c].parent)
     IN  par = -1 \/ procs[par].done

\* What the bookkeeping makes of the process in slot s.
Zombified(s) ==
  IF s # 0 /\ Finished(s) THEN FreeResources(procs[s]) ELSE procs[s]

Unblocked(p) == [p EXCEPT !.blocked = FALSE]

WaitOver(s) ==
  /\ procs[s].blocked
  /\ procs[s].wait >= 0
  /\ ~Live(procs[s].wait)

\* Mutant of Kept: the wake loop is missing.
MutKept(s) == Zombified(s)

Kept(s) ==
  IF WaitOver(s) THEN Unblocked(Zombified(s)) ELSE Zombified(s)

EndRound ==
  /\ pc = "step"
  /\ \A s \in i .. nprocs - 1 : ~Runnable(s)
  /\ procs' = [s \in Slots |-> IF Orphan(s) THEN NoProc ELSE Kept(s)]
  /\ slot_gen' = [s \in Slots |-> IF Orphan(s) THEN slot_gen[s] + 1
                                               ELSE slot_gen[s]]
  /\ pc' = IF \E s \in Slots : Live(s) THEN "poll" ELSE "over"
  /\ i' = 0
  /\ UNCHANGED <<nprocs, limited, ran, calls, now, revents, issued>>
-----------------------------------------------------------------------------
(* poll_blocked(S, !ran), and the next round begins.                       *)

IoParked == {s \in Slots : Live(s) /\ procs[s].blocked}
PollFds == {procs[s].fd : s \in IoParked} \ {-1}
Deadlines == {procs[s].deadline : s \in IoParked} \ {0}

\* The wait is over: at once when something ran this round or there is
\* nothing to wait for, else with a ready fd or at the nearest deadline.
WaitEnds(ready, t) ==
  \/ ran
  \/ PollFds = {} /\ Deadlines = {}
  \/ ready # {}
  \/ t >= now + PollCap /\ Deadlines # {}
  \/ \E d \in Deadlines : t >= d

\* sched_mark_ready for each ready fd, then sched_wake_deadlines.
Woken(p, ready, t) ==
  /\ p.used /\ ~p.done /\ p.blocked
  /\ p.fd \in ready \/ (p.deadline # 0 /\ t >= p.deadline)

Poll(ready, t) ==
  /\ pc = "poll"
  /\ WaitEnds(ready, t)
  /\ procs' = [s \in Slots |-> IF Woken(procs[s], ready, t)
                               THEN Unblocked(procs[s])
                               ELSE procs[s]]
  /\ now' = t
  /\ revents' = ready
  /\ pc' = "step"
  /\ ran' = FALSE
  /\ UNCHANGED <<slot_gen, nprocs, limited, i, calls, issued>>

PollReturns ==
  \E ready \in SUBSET PollFds, t \in now .. MaxTime : Poll(ready, t)

\* sched_destroy frees every process still in the table.
Destroy ==
  /\ pc = "over"
  /\ procs' = [s \in Slots |-> IF procs[s].used
                               THEN [procs[s] EXCEPT !.frees = @ + 1]
                               ELSE procs[s]]
  /\ pc' = "freed"
  /\ UNCHANGED <<slot_gen, nprocs, limited, i, ran, calls, now, revents,
                 issued>>
-----------------------------------------------------------------------------
\* A handle a guest may hold: one that some spawn returned.
Handles == {issued[n] : n \in DOMAIN issued}

Call ==
  \/ Spawn \/ SpawnFails \/ IoCompletes \/ SleepCompletes
  \/ \E h \in Handles : \/ Kill(h) \/ WaitBad(h) \/ WaitReaps(h)
                        \/ WaitParks(h)
  \/ \E f \in Fds : IoParks(f)
  \/ \E until \in 1 .. MaxTime : SleepParks(until)

Slice == Stop \/ Yield \/ OverBudget \/ HitLimit \/ Reschedule

Next ==
  \/ AddRoot \/ Start
  \/ BeginSlice \/ Call \/ Tick \/ Slice
  \/ EndRound \/ PollReturns \/ Destroy

Spec == Init /\ [][Next]_vars

(***************************************************************************)
(* The host calls sched_run once its roots are in, its thread never stops  *)
(* between two steps, and a slice ends after at most a quantum.            *)
(* A poll returns when it need not wait or when it has a timeout; one that *)
(* waits on fds alone may wait for ever.                                   *)
(***************************************************************************)
PollTimesOut == (ran \/ Deadlines # {}) /\ PollReturns

Fairness ==
  /\ WF_vars(Start)
  /\ WF_vars(BeginSlice \/ Call \/ Slice \/ EndRound)
  /\ WF_vars(Slice)
  /\ WF_vars(PollTimesOut)

FairSpec == Spec /\ Fairness
-----------------------------------------------------------------------------
(* Properties.                                                             *)

\* The fields of the table, its cursor and the clock keep their types.
TypeOK ==
  /\ procs \in [Slots -> Proc]
  /\ slot_gen \in [Slots -> Nat]
  /\ nprocs \in 0 .. MaxProc
  /\ limited \in BOOLEAN
  /\ pc \in {"boot", "step", "slice", "tail", "poll", "over", "freed"}
  /\ i \in 0 .. MaxProc
  /\ ran \in BOOLEAN
  /\ calls \in Nat
  /\ now \in Nat
  /\ revents \subseteq Fds
  /\ issued \in Seq(Nat)

\* A live process parked in wait() awaits a slot that still holds a child of
\* its own: neither a kill, an orphan's reap nor the reuse of a slot leaves
\* wait_slot dangling (do_wait, the wake loop of sched_step).
WaitsOnOwnChild ==
  \A s \in Slots :
    Live(s) /\ procs[s].blocked /\ procs[s].wait >= 0 =>
      /\ procs[procs[s].wait].used
      /\ procs[procs[s].wait].parent = procs[s].handle

\* When nothing ran in a round, some live process is parked on an fd or on a
\* deadline, so poll_blocked has something to block on: processes never wait
\* on each other in a circle, which would turn sched_run into a busy loop.
IdleRoundHasWakeup ==
  pc = "poll" /\ ~ran => PollFds # {} \/ Deadlines # {}

\* A handle never resolves to a process other than the one it was issued for,
\* however often its slot is reaped and reused (PROC_HANDLE, slot_gen).
HandleNamesOneProcess ==
  \A n \in DOMAIN issued :
    LET s == proc_from_handle(issued[n])
    IN  s # -1 => procs[s].id = n

\* The CPU of a process is freed at most once by zombify, reap and destroy.
FreedOnce == \A s \in Slots : procs[s].frees <= 1

\* A run that ends because every process exited has retired every slot but
\* the first root's.
AllRetired ==
  pc \in {"over", "freed"} /\ ~limited =>
    \A s \in Slots \ {0} : ~procs[s].used

\* A finished child is kept, status and slot, until the wait of its parent
\* collects it, as long as that parent lives.
StatusKeptForParent ==
  [][\A c \in Slots \ {0} :
       LET par == proc_from_handle(procs[c].parent) IN
       /\ Finished(c) /\ par # -1 /\ Live(par)
       /\ procs'[c].id # procs[c].id
       => pc = "slice" /\ i = par]_vars

\* The first cause of death stands: a kill or a limit that comes after a
\* process finished does not rewrite the status a wait will read.
CauseOfDeathStands ==
  [][\A s \in Slots :
       Finished(s) /\ procs'[s].id = procs[s].id =>
         procs'[s].done /\ procs'[s].rc = procs[s].rc]_vars

\* A process parked in wait() is resumed by the end of the awaited child, by
\* nothing else: no stale fd or deadline of an earlier park wakes it.
WaiterWokenByChild ==
  [][\A s \in Slots :
       /\ Live(s) /\ procs[s].blocked /\ procs[s].wait >= 0
       /\ ~procs'[s].blocked
       => ~Live(procs[s].wait)]_vars

\* Every runnable process gets a slice, whatever the others do.
RunnableRuns ==
  \A s \in Slots :
    Runnable(s) ~> \/ pc = "slice" /\ i = s
                   \/ ~Runnable(s)
                   \/ pc = "freed" \/ limited

\* A parked process is resumed: a waiting parent once its child has finished,
\* a sleeper once its deadline has passed, however busy the others.
ParkedResumes ==
  \A s \in Slots :
    /\ Live(s) /\ procs[s].blocked
    /\ \/ procs[s].wait >= 0 /\ ~Live(procs[s].wait)
       \/ procs[s].call = "sleep" /\ now >= procs[s].deadline
    ~> ~Live(s) \/ ~procs[s].blocked \/ limited

\* sys_read parks a process so that the call is executed again "when the fd is
\* ready (the scheduler waits on park_fd)": nothing but its fd resumes it.
IoWokenByItsFd ==
  [][\A s \in Slots :
       /\ Live(s) /\ procs[s].blocked /\ procs[s].call = "io"
       /\ ~procs'[s].blocked
       => procs[s].fd \in revents']_vars

\* The table as the holders of handles see it.
Table == INSTANCE ProcTable WITH
           handles <- [s \in Slots |-> IF procs[s].used THEN procs[s].handle ELSE 0],
           gens <- slot_gen

\* Whatever the scheduler and its processes do, they use the table as ProcTable
\* promises: a slot takes a handle of its current generation only while it is
\* free, and moves on to the next generation exactly when it gives it up.
TableSpec == Table!Spec
=============================================================================
