------------------------------ MODULE Threads ------------------------------
(***************************************************************************)
(* libc/threads.c: cooperative C11 threads over coroutines.  One host      *)
(* thread runs everything; main is the only scheduler context and drives   *)
(* the run queue while it is blocked or yields.  A step is what the        *)
(* running thread does between two library calls, or one pass of a wait    *)
(* loop after it was resumed.  One mutex, one condition variable and one   *)
(* once_flag stand for any; calls that only report an error, and those     *)
(* that do not touch the scheduler (thread-specific storage), are left out.*)
(*                                                                         *)
(* Programs keep the C11 rules: only the holder unlocks or waits, a plain  *)
(* mutex is not locked twice, a thread is joined or detached once.         *)
(***************************************************************************)
EXTENDS Naturals, Sequences, Functions

CONSTANTS
  Main,        \* thread 0, on the host stack
  Spawned,     \* the threads thrd_create can make
  Nobody,      \* NULL
  MaxDepth     \* bound on recursive locking

ASSUME ThreadsAssumption ==
  /\ Main \notin Spawned /\ Nobody \notin Spawned \cup {Main}
  /\ MaxDepth \in Nat \ {0}

Threads == Spawned \cup {Main}

VARIABLES
  state,       \* struct thrd.state, "none" before creation, "freed" after reap
  detached,    \* threads with t->detached
  cur,         \* the thread on the CPU
  rq,          \* the run queue
  join_waiters,\* struct thrd.join_waiters
  mtx,         \* the mutex
  cnd,         \* the condition variable's waiters
  once,        \* the once_flag
  at,          \* the wait loop a thread is in, "user" outside of the library
  target,      \* whom a thread in thrd_join waits for
  depth,       \* cnd_wait's local: the recursion depth to restore
  held,        \* how often the program has locked the mutex, by thread
  passed,      \* a thread has returned from call_once
  over         \* "no", "exit" or "abort"

vars == <<state, detached, cur, rq, join_waiters, mtx, cnd, once, at, target,
          depth, held, passed, over>>

lists == <<join_waiters, cnd>>
sched == <<state, cur, rq>>
prog == <<at, target, depth, held, passed, over>>

Init ==
  /\ state = [t \in Threads |-> IF t = Main THEN "running" ELSE "none"]
  /\ detached = {}
  /\ cur = Main
  /\ rq = <<>>
  /\ join_waiters = [t \in Threads |-> <<>>]
  /\ \E r \in BOOLEAN :
       mtx = [recursive |-> r, locked |-> FALSE, count |-> 0, owner |-> Nobody,
              waiters |-> <<>>]
  /\ cnd = <<>>
  /\ once = [state |-> 0, owner |-> Nobody, waiters |-> <<>>]
  /\ at = [t \in Threads |-> "user"]
  /\ target = [t \in Threads |-> Nobody]
  /\ depth = [t \in Threads |-> 0]
  /\ held = [t \in Threads |-> 0]
  /\ passed = FALSE
  /\ over = "no"

Runs(t) == over = "no" /\ cur = t /\ state[t] = "running"
User(t) == Runs(t) /\ at[t] = "user"

\* A list without main, which is on a list at most once.
NoMain(ws) ==
  IF Main \in Range(ws)
  THEN LET k == CHOOSE i \in DOMAIN ws : ws[i] = Main
       IN  SubSeq(ws, 1, k - 1) \o SubSeq(ws, k + 1, Len(ws))
  ELSE ws

\* Mutant of Queued: the run queue is a stack.
MutQueued(ws) == NoMain(ws) \o rq

\* rq_push of each thread of ws but main, which has no place in the queue.
Queued(ws) == rq \o NoMain(ws)

\* ready() of each thread of a list, in its order.
Readied(st, ws) == [t \in Threads |-> IF t \in Range(ws) THEN "ready" ELSE st[t]]

\* wq_pop: the thread a list gives up, if there is one, and what is left.
Popped(ws) == IF ws = <<>> THEN <<>> ELSE <<Head(ws)>>
Rest(ws) == IF ws = <<>> THEN <<>> ELSE Tail(ws)

Wakes(ws) ==
  /\ state' = Readied(state, ws)
  /\ rq' = Queued(ws)
  /\ UNCHANGED cur

\* block_current: the thread parks and main, or main's pump, has the CPU.
Blocks(t, ws, place) ==
  /\ state' = [Readied(state, ws) EXCEPT ![t] = "blocked"]
  /\ rq' = Queued(ws)
  /\ cur' = Main
  /\ at' = [at EXCEPT ![t] = place]
-----------------------------------------------------------------------------
(* The scheduler.                                                          *)

\* Mutant of RunHead: the pop forgets the threads behind the head.
MutRunHead ==
  /\ rq # <<>>
  /\ state' = [state EXCEPT ![Head(rq)] = "running"]
  /\ cur' = Head(rq)
  /\ rq' = <<>>
  /\ UNCHANGED <<detached, mtx, once, lists, prog>>

\* run(): the head of the queue gets the CPU.
RunHead ==
  /\ rq # <<>>
  /\ state' = [state EXCEPT ![Head(rq)] = "running"]
  /\ cur' = Head(rq)
  /\ rq' = Tail(rq)
  /\ UNCHANGED <<detached, mtx, once, lists, prog>>

\* block_current in main: drive the queue while main's wait is not met.
Pump == over = "no" /\ cur = Main /\ state[Main] = "blocked" /\ RunHead

MainResumes ==
  /\ over = "no" /\ cur = Main /\ state[Main] = "ready"
  /\ state' = [state EXCEPT ![Main] = "running"]
  /\ UNCHANGED <<cur, rq, detached, mtx, once, lists, prog>>

\* Main is blocked and nothing can run it.
Abort ==
  /\ over = "no" /\ cur = Main /\ state[Main] = "blocked"
  /\ rq = <<>>
  /\ over' = "abort"
  /\ UNCHANGED <<sched, detached, mtx, once, lists, at, target, depth, held, passed>>

thrd_yield(t) ==
  /\ User(t)
  /\ IF t = Main THEN RunHead
     ELSE /\ state' = [state EXCEPT ![t] = "ready"]
          /\ rq' = Queued(<<t>>)
          /\ cur' = Main
          /\ UNCHANGED <<detached, mtx, once, lists, prog>>
-----------------------------------------------------------------------------
(* Threads.                                                                *)

thrd_create(t, u) ==
  /\ User(t)
  /\ state[u] = "none"
  /\ state' = [state EXCEPT ![u] = "ready"]
  /\ rq' = Queued(<<u>>)
  /\ UNCHANGED <<cur, detached, mtx, once, lists, prog>>

\* The end of run(): wake the joiners and reap the thread if it is detached.
Finishes(t) ==
  /\ state' = [Readied(state, join_waiters[t])
                EXCEPT ![t] = IF t \in detached THEN "freed" ELSE "done"]
  /\ rq' = Queued(join_waiters[t])
  /\ join_waiters' = [join_waiters EXCEPT ![t] = <<>>]

\* thrd_exit, or a return from the thread's function.
thrd_exit(t) ==
  /\ User(t)
  /\ IF t = Main
     THEN over' = "exit" /\ UNCHANGED <<sched, join_waiters>>
     ELSE Finishes(t) /\ cur' = Main /\ UNCHANGED over
  /\ UNCHANGED <<detached, mtx, cnd, once, at, target, depth, held, passed>>

\* A thread nobody has joined or detached yet.
Joinable(u) ==
  /\ u # Main /\ u \notin detached
  /\ state[u] \notin {"none", "freed"}
  /\ \A t \in Threads : target[t] # u

\* thrd_join, and again after a wakeup: reap the thread if it is done.
Joins(t, u) ==
  /\ IF state[u] = "done"
     THEN /\ state' = [state EXCEPT ![u] = "freed"]
          /\ at' = [at EXCEPT ![t] = "user"]
          /\ target' = [target EXCEPT ![t] = Nobody]
          /\ UNCHANGED <<cur, rq, join_waiters>>
     ELSE /\ Blocks(t, <<>>, "join")
          /\ join_waiters' = [join_waiters EXCEPT ![u] = Append(@, t)]
          /\ target' = [target EXCEPT ![t] = u]
  /\ UNCHANGED <<detached, mtx, cnd, once, depth, held, passed, over>>

thrd_join(t, u) == User(t) /\ u # t /\ Joinable(u) /\ Joins(t, u)
RetryJoin(t) == Runs(t) /\ at[t] = "join" /\ Joins(t, target[t])

thrd_detach(t, u) ==
  /\ User(t)
  /\ Joinable(u)
  /\ detached' = detached \cup {u}
  /\ state' = IF state[u] = "done" THEN [state EXCEPT ![u] = "freed"] ELSE state
  /\ UNCHANGED <<cur, rq, mtx, once, lists, prog>>
-----------------------------------------------------------------------------
(* The mutex.                                                              *)

\* A thread finds the mutex taken and parks on it.
Contends(t) ==
  /\ mtx.locked
  /\ mtx' = [mtx EXCEPT !.waiters = Append(@, t)]
  /\ Blocks(t, <<>>, "mtx")
  /\ UNCHANGED <<detached, once, lists, target, depth, held, passed, over>>

Takes(t, n) ==
  /\ ~mtx.locked
  /\ mtx' = [mtx EXCEPT !.locked = TRUE, !.owner = t, !.count = n]

Reenters(t) ==
  /\ mtx.locked /\ mtx.owner = t /\ mtx.recursive
  /\ mtx.count < MaxDepth
  /\ mtx' = [mtx EXCEPT !.count = @ + 1]

Locked(t) ==
  /\ held' = [held EXCEPT ![t] = @ + 1]
  /\ UNCHANGED <<sched, detached, once, lists, at, target, depth, passed, over>>

mtx_lock(t) ==
  /\ User(t)
  /\ \/ (Reenters(t) \/ Takes(t, 1)) /\ Locked(t)
     \/ held[t] = 0 /\ Contends(t)

\* Mutant of RetryLock: the woken waiter does not look at the lock again.
MutRetryLock(t) ==
  /\ Runs(t)
  /\ at[t] \in {"mtx", "cnd"}
  /\ mtx' = [mtx EXCEPT !.locked = TRUE, !.owner = t,
                        !.count = IF depth[t] > 0 THEN depth[t] ELSE 1]
  /\ at' = [at EXCEPT ![t] = "user"]
  /\ depth' = [depth EXCEPT ![t] = 0]
  /\ held' = [held EXCEPT ![t] = IF depth[t] > 0 THEN @ ELSE 1]
  /\ UNCHANGED <<sched, detached, once, lists, target, passed, over>>

\* The loops of mtx_lock and cnd_wait, after a wakeup.
RetryLock(t) ==
  /\ Runs(t)
  /\ at[t] \in {"mtx", "cnd"}
  /\ \/ Contends(t)
     \/ /\ Takes(t, IF depth[t] > 0 THEN depth[t] ELSE 1)
        /\ at' = [at EXCEPT ![t] = "user"]
        /\ depth' = [depth EXCEPT ![t] = 0]
        /\ held' = [held EXCEPT ![t] = IF depth[t] > 0 THEN @ ELSE 1]
        /\ UNCHANGED <<sched, detached, once, lists, target, passed, over>>

\* mtx_trylock, and mtx_timedlock, which is the same call: neither waits.
mtx_trylock(t) == User(t) /\ (Reenters(t) \/ Takes(t, 1)) /\ Locked(t)

\* Mutant of Released: the waiter is left on the list it was woken from.
MutReleased == [mtx EXCEPT !.locked = FALSE, !.owner = Nobody, !.count = 0]

Released == [mtx EXCEPT !.locked = FALSE, !.owner = Nobody, !.count = 0,
                        !.waiters = Rest(@)]

\* Mutant of mtx_unlock: nobody is woken.
Mut_mtx_unlock(t) ==
  /\ User(t)
  /\ held[t] > 0
  /\ held' = [held EXCEPT ![t] = @ - 1]
  /\ IF mtx.recursive /\ mtx.count > 1
     THEN mtx' = [mtx EXCEPT !.count = @ - 1]
     ELSE mtx' = [mtx EXCEPT !.locked = FALSE, !.owner = Nobody, !.count = 0]
  /\ UNCHANGED <<sched, detached, once, lists, at, target, depth, passed,
                 over>>

mtx_unlock(t) ==
  /\ User(t)
  /\ held[t] > 0
  /\ held' = [held EXCEPT ![t] = @ - 1]
  /\ IF mtx.recursive /\ mtx.count > 1
     THEN mtx' = [mtx EXCEPT !.count = @ - 1] /\ UNCHANGED sched
     ELSE mtx' = Released /\ Wakes(Popped(mtx.waiters))
  /\ UNCHANGED <<detached, once, lists, at, target, depth, passed, over>>
-----------------------------------------------------------------------------
(* The condition variable.                                                 *)

\* Mutant of cnd_wait: the depth of a recursive mutex is forgotten.
Mut_cnd_wait(t) ==
  /\ User(t)
  /\ held[t] > 0
  /\ depth' = [depth EXCEPT ![t] = 1]
  /\ mtx' = Released
  /\ cnd' = Append(cnd, t)
  /\ Blocks(t, Popped(mtx.waiters), "cnd")
  /\ UNCHANGED <<detached, once, join_waiters, target, held, passed, over>>

\* cnd_wait and cnd_timedwait, up to the wakeup; RetryLock is the rest.
cnd_wait(t) ==
  /\ User(t)
  /\ held[t] > 0
  /\ depth' = [depth EXCEPT ![t] = mtx.count]
  /\ mtx' = Released
  /\ cnd' = Append(cnd, t)
  /\ Blocks(t, Popped(mtx.waiters), "cnd")
  /\ UNCHANGED <<detached, once, join_waiters, target, held, passed, over>>

Notifies(t, ws) ==
  /\ User(t)
  /\ Wakes(ws)
  /\ cnd' = SubSeq(cnd, Len(ws) + 1, Len(cnd))
  /\ UNCHANGED <<detached, mtx, once, join_waiters, prog>>

cnd_signal(t) == Notifies(t, Popped(cnd))
cnd_broadcast(t) == Notifies(t, cnd)
-----------------------------------------------------------------------------
(* call_once.                                                              *)

AwaitOnce(t) ==
  /\ once.state = 1
  /\ once' = [once EXCEPT !.waiters = Append(@, t)]
  /\ Blocks(t, <<>>, "once")
  /\ UNCHANGED <<detached, mtx, lists, target, depth, held, passed, over>>

PassOnce(t) ==
  /\ once.state = 2
  /\ passed' = TRUE
  /\ at' = [at EXCEPT ![t] = "user"]
  /\ UNCHANGED <<sched, detached, mtx, once, lists, target, depth, held,
                 over>>

\* The caller finds the flag unused and enters the function.
EnterOnce(t) ==
  /\ once.state = 0
  /\ once' = [once EXCEPT !.state = 1, !.owner = t]
  /\ UNCHANGED <<sched, detached, mtx, lists, prog>>

call_once(t) == User(t) /\ (EnterOnce(t) \/ AwaitOnce(t) \/ PassOnce(t))
RetryOnce(t) == Runs(t) /\ at[t] = "once" /\ (AwaitOnce(t) \/ PassOnce(t))

\* The function returns: the flag is done and everybody waiting is readied.
LeaveOnce(t) ==
  /\ User(t)
  /\ once.state = 1 /\ once.owner = t
  /\ once' = [once EXCEPT !.state = 2, !.waiters = <<>>]
  /\ Wakes(once.waiters)
  /\ passed' = TRUE
  /\ UNCHANGED <<detached, mtx, lists, at, target, depth, held, over>>
-----------------------------------------------------------------------------
Library == \/ Pump \/ MainResumes \/ Abort
           \/ \E t \in Threads : RetryJoin(t) \/ RetryLock(t) \/ RetryOnce(t)

Program ==
  \E t \in Threads :
    \/ thrd_yield(t) \/ thrd_exit(t)
    \/ \E u \in Spawned : thrd_create(t, u) \/ thrd_join(t, u) \/ thrd_detach(t, u)
    \/ mtx_lock(t) \/ mtx_trylock(t) \/ mtx_unlock(t)
    \/ cnd_wait(t) \/ cnd_signal(t) \/ cnd_broadcast(t)
    \/ call_once(t) \/ LeaveOnce(t)

\* The process has ended; nothing else stops the threads.
Ended == over # "no" /\ UNCHANGED vars

Next == Library \/ Program \/ Ended

Spec == Init /\ [][Next]_vars

(***************************************************************************)
(* The host thread always runs; a thread in user code yields sooner or     *)
(* later, as threads.h asks of every program.                              *)
(***************************************************************************)
Fairness == WF_vars(Library) /\ WF_vars(\E t \in Threads : thrd_yield(t))

FairSpec == Spec /\ Fairness
-----------------------------------------------------------------------------
WaitLists == {mtx.waiters, cnd, once.waiters} \cup Range(join_waiters)
Once(t, q) == \E i \in DOMAIN q : \A j \in DOMAIN q : q[j] = t <=> j = i

\* A thread is on exactly one list while it is parked or queued and on none
\* otherwise, so the one qnext link it has is enough: a blocked thread is on
\* one wait list, once, and a ready one (but main) once on the run queue.  A
\* thread parked in thrd_join waits for one that still runs, and whose memory
\* is not freed under it.
OneList ==
  \A t \in Threads :
    /\ IF state[t] = "ready" /\ t # Main THEN Once(t, rq) ELSE t \notin Range(rq)
    /\ IF state[t] = "blocked"
       THEN \E q \in WaitLists : Once(t, q) /\ \A r \in WaitLists \ {q} : t \notin Range(r)
       ELSE \A q \in WaitLists : t \notin Range(q)
    /\ at[t] = "join" /\ state[t] = "blocked" =>
         state[target[t]] \in {"ready", "running", "blocked"}

\* What the program believes to hold it holds, as deeply as it locked it: two
\* threads are never both past mtx_lock, and a wait on the condition variable
\* gives the recursive depth back (mtx_lock, cnd_wait).  Nobody gets past
\* call_once before the function has returned.
HeldIsOwned ==
  /\ \A t \in Threads :
       held[t] > 0 /\ at[t] = "user" =>
         mtx.locked /\ mtx.owner = t /\ mtx.count = held[t]
  /\ passed => once.state = 2

\* A free mutex never has only sleepers: whoever unlocked it has readied one
\* of them, and that one has yet to look (mtx_unlock, cnd_wait).
NoLostWakeup ==
  ~mtx.locked /\ mtx.waiters # <<>> =>
    \E t \in Threads : state[t] \in {"ready", "running"} /\ at[t] \in {"mtx", "cnd"}

\* The deadlock abort of block_current strikes only when no thread could run.
AbortIsDeadlock ==
  over = "abort" => \A t \in Threads : state[t] \in {"none", "blocked", "done", "freed"}

\* A ready thread gets the CPU: the queue is first in, first out.
ReadyRuns ==
  \A t \in Spawned : state[t] = "ready" ~> state[t] # "ready" \/ over # "no"

\* The mutex and its condition variable implement the abstract monitor.
M == INSTANCE Monitor WITH holder <- mtx.owner, depth <- mtx.count, saved <- depth,
                           waitset <- Range(cnd)

\* mtx_lock, mtx_unlock, cnd_wait and their siblings implement the monitor: one
\* holder at a time, a wait that gives the whole depth up and gets it back, and
\* nobody released from a wait without a signal or broadcast.
MonitorSpec == M!Spec
=============================================================================
