---------------------------- MODULE SchedProofs ----------------------------
(***************************************************************************)
(* Theorems about Sched, for every number of slots, processes, calls, fds  *)
(* and clock ticks.                                                        *)
(***************************************************************************)
EXTENDS Sched, TLAPS

USE SchedAssumption

LEMMA HandleType ==
  ASSUME NEW s \in Slots, NEW g \in Nat
  PROVE  PROC_HANDLE(s, g) \in Nat
BY DEF PROC_HANDLE, Slots

LEMMA NoProcType == NoProc \in Proc
BY Zenon DEF NoProc, Proc, Causes, PendingCalls

LEMMA NewProcType ==
  ASSUME TypeOK, NEW s \in Slots, NEW par \in Nat
  PROVE  NewProc(s, par) \in Proc
<1> DEFINE h == PROC_HANDLE(s, slot_gen[s])
           n == Len(issued) + 1
<1>1. h \in Nat /\ n \in Nat
  BY HandleType DEF TypeOK
<1> HIDE DEF h, n
<1>2. [NoProc EXCEPT !.used = TRUE, !.id = n, !.handle = h, !.parent = par]
        \in Proc
  BY Zenon, <1>1 DEF NoProc, Proc, Causes, PendingCalls
<1> QED BY Zenon, <1>2 DEF NewProc, h, n

\* The updates of a process record keep its type.
LEMMA UpdateTypes ==
  ASSUME NEW p \in Proc
  PROVE  /\ CallDone(p) \in Proc
         /\ [CallDone(p) EXCEPT !.wait = -1] \in Proc
         /\ Unblocked(p) \in Proc
         /\ Blocked(p) \in Proc
         /\ FreeResources(p) \in Proc
         /\ [p EXCEPT !.frees = @ + 1] \in Proc
         /\ \A c \in Causes : Ended(p, c) \in Proc
<1>1. CallDone(p) \in Proc /\ Unblocked(p) \in Proc
  BY ZenonT(30) DEF Proc, CallDone, Unblocked, PendingCalls
<1>2. [CallDone(p) EXCEPT !.wait = -1] \in Proc
  BY <1>1 DEF Proc
<1>3. Blocked(p) \in Proc
  BY Zenon DEF Proc, Blocked
<1>4. [p EXCEPT !.frees = @ + 1] \in Proc
  BY DEF Proc
<1>5. FreeResources(p) \in Proc
  <2>1. ASSUME NEW n \in Nat
        PROVE  [p EXCEPT !.zombie = TRUE, !.frees = n] \in Proc
    BY Zenon DEF Proc
  <2>2. p.frees + 1 \in Nat
    BY DEF Proc
  <2> QED BY Zenon, <2>1, <2>2 DEF FreeResources
<1>6. ASSUME NEW c \in Causes PROVE Ended(p, c) \in Proc
  BY Zenon DEF Proc, Ended
<1> QED BY Zenon, <1>1, <1>2, <1>3, <1>4, <1>5, <1>6

LEMMA ParkedType ==
  ASSUME NEW p \in Proc, NEW op \in PendingCalls, NEW arg \in Nat,
         NEW fd \in Fds \cup {-1}, NEW dl \in Nat
  PROVE  /\ Parked(p, op, arg, fd, dl) \in Proc
         /\ \A w \in Slots :
              [Parked(p, op, arg, fd, dl) EXCEPT !.wait = w] \in Proc
<1>1. Parked(p, op, arg, fd, dl) \in Proc
  BY Zenon DEF Proc, Parked
<1>2. ASSUME NEW q \in Proc, NEW w \in Slots PROVE [q EXCEPT !.wait = w] \in Proc
  BY Zenon DEF Proc
<1> QED BY Zenon, <1>1, <1>2

\* What proc_from_handle returns: a slot below nprocs that holds a process
\* with that handle, or -1.
LEMMA FromHandle ==
  ASSUME TypeOK, NEW h \in Nat
  PROVE  \/ proc_from_handle(h) = -1
         \/ /\ proc_from_handle(h) \in Slots
            /\ procs[proc_from_handle(h)].used
            /\ procs[proc_from_handle(h)].handle = h
BY DEF proc_from_handle, TypeOK, Slots

LEMMA ChildSlot ==
  ASSUME TypeOK, NEW h \in Nat, i \in Slots
  PROVE  \/ Child(h) = -1
         \/ /\ Child(h) \in Slots
            /\ procs[Child(h)].used
            /\ procs[Child(h)].handle = h
            /\ procs[Child(h)].parent = procs[i].handle
BY Zenon, FromHandle DEF Child

(***************************************************************************)
(* Types.  A slice is always that of a slot of the table, so TypeOK is     *)
(* proved together with the cursor's range.                                *)
(***************************************************************************)
CursorOK == pc \in {"slice", "tail"} => i \in Slots

TInv == TypeOK /\ CursorOK

LEMMA BuildTypes ==
  ASSUME TypeOK, NEW s \in Slots, NEW par \in Nat, Build(s, par)
  PROVE  /\ procs' \in [Slots -> Proc]
         /\ nprocs' \in 0 .. MaxProc
         /\ issued' \in Seq(Nat)
<1>1. NewProc(s, par) \in Proc
  BY Zenon, NewProcType
<1>2. NewProc(s, par).handle \in Nat
  BY Zenon, <1>1 DEF Proc
<1>3. procs' \in [Slots -> Proc]
  BY Zenon, <1>1 DEF Build, Becomes, TypeOK
<1>4. nprocs' \in 0 .. MaxProc
  BY DEF Build, TypeOK, Slots
<1>5. issued' \in Seq(Nat)
  BY <1>2 DEF Build, TypeOK
<1> QED BY Zenon, <1>3, <1>4, <1>5

LEMMA TypeStep == TInv /\ [Next]_vars => TInv'
<1> SUFFICES ASSUME TInv, [Next]_vars PROVE TInv'
  BY Zenon
<1> USE DEF TInv
<1>a. \A s \in Slots : procs[s] \in Proc
  BY Zenon DEF TypeOK
<1>b. \A s \in Slots, p \in Proc : Becomes(s, p) => procs' \in [Slots -> Proc]
  BY DEF TypeOK, Becomes
<1>c. "none" \in Causes /\ "fault" \in Causes /\ "budget" \in Causes
      /\ "limit" \in Causes /\ "killed" \in Causes
  BY Zenon DEF Causes
<1>1. CASE AddRoot
  BY <1>1, BuildTypes DEF AddRoot, Build, TypeOK, CursorOK
<1>2. CASE Start
  <2>r. ran' \in BOOLEAN
    BY Zenon, <1>2 DEF Start
  <2>2. /\ pc' = "step" /\ i' = 0
        /\ UNCHANGED <<procs, slot_gen, nprocs, limited, calls, now, revents, issued>>
    BY Zenon, <1>2 DEF Start
  <2> QED BY <2>2, <2>r DEF TypeOK, CursorOK
<1>3. CASE BeginSlice
  BY <1>3 DEF BeginSlice, TypeOK, CursorOK, Slots
<1>4. CASE Call
  <2>0. i \in Slots
    BY Zenon, <1>4 DEF Call, Spawn, SpawnFails, IoCompletes, SleepCompletes, Kill, WaitBad,
       WaitReaps, WaitParks, WaitsFor, IoParks, SleepParks, InCall,
       CursorOK
  <2>00. /\ procs[i] \in Proc /\ procs[i].handle \in Nat
         /\ procs[i].gdeadline \in Nat
    BY Zenon, <2>0, <1>a DEF Proc
  <2>1. CASE Spawn
    BY SMTT(30), <2>00, <2>1, BuildTypes DEF Spawn, Build, CallReturns, TypeOK, CursorOK
  <2>2. CASE SpawnFails
    BY <2>2 DEF SpawnFails, Reject, CallReturns, TypeOK, CursorOK, Slots
  <2>3. CASE IoCompletes
    <3>1. procs' \in [Slots -> Proc]
      BY Zenon, <1>b, <2>0, <2>00, <2>3, UpdateTypes DEF IoCompletes
    <3> QED BY <2>3, <3>1 DEF IoCompletes, CallReturns, TypeOK, CursorOK
  <2>4. CASE SleepCompletes
    <3>1. procs' \in [Slots -> Proc]
      BY Zenon, <1>b, <2>0, <2>00, <2>4, UpdateTypes DEF SleepCompletes
    <3> QED BY <2>4, <3>1 DEF SleepCompletes, CallReturns, TypeOK, CursorOK
  <2>5. ASSUME NEW h \in Handles PROVE h \in Nat
    BY DEF Handles, TypeOK
  <2>6. ASSUME NEW h \in Handles, Kill(h) PROVE TInv'
    <3>1. Child(h) \in Slots
      BY Zenon, <2>0, <2>5, <2>6, ChildSlot DEF Kill
    <3>2. procs' \in [Slots -> Proc]
      BY Zenon, <1>a, <1>b, <1>c, <2>6, <3>1, UpdateTypes DEF Kill, TypeOK
    <3> QED BY <2>6, <3>2 DEF Kill, CallReturns, TypeOK, CursorOK
  <2>7. ASSUME NEW h \in Handles, WaitBad(h) PROVE TInv'
    <3>1. procs' \in [Slots -> Proc]
      BY Zenon, <1>b, <2>0, <2>00, <2>7, UpdateTypes DEF WaitBad
    <3> QED BY <2>7, <3>1 DEF WaitBad, CallReturns, TypeOK, CursorOK
  <2>8. ASSUME NEW h \in Handles, WaitReaps(h) PROVE TInv'
    <3>1. Child(h) \in Slots
      BY Zenon, <2>0, <2>5, <2>8, ChildSlot DEF WaitReaps
    <3>2. slot_gen' \in [Slots -> Nat]
      BY SMTT(30), <2>8, <3>1 DEF WaitReaps, TypeOK
    <3>3. ASSUME NEW q \in Proc
          PROVE  [procs EXCEPT ![Child(h)] = NoProc, ![i] = q] \in [Slots -> Proc]
      BY Zenon, NoProcType DEF TypeOK
    <3>4. procs' \in [Slots -> Proc]
      BY Zenon, <2>00, <2>8, <3>3, UpdateTypes DEF WaitReaps
    <3>5. /\ UNCHANGED <<nprocs, limited, now, revents, issued, pc, i, ran>>
          /\ calls' = calls + 1
      BY Zenon, <2>8 DEF WaitReaps, CallReturns
    <3> QED BY <3>2, <3>4, <3>5 DEF TypeOK, CursorOK
  <2>9. ASSUME NEW h \in Handles, WaitParks(h) PROVE TInv'
    <3>1. Child(h) \in Slots
      BY Zenon, <2>0, <2>5, <2>9, ChildSlot DEF WaitParks
    <3>2. procs' \in [Slots -> Proc]
      BY Zenon, <1>b, <2>0, <2>00, <2>5, <2>9, <3>1, ParkedType
      DEF WaitParks, Parks, PendingCalls
    <3> QED BY Zenon, <2>0, <2>9, <3>2 DEF WaitParks, Parks, TypeOK, CursorOK
  <2>11. ASSUME NEW f \in Fds, IoParks(f) PROVE TInv'
    <3>1. procs' \in [Slots -> Proc]
      BY Zenon, <1>b, <2>0, <2>00, <2>11, ParkedType DEF IoParks, Parks, PendingCalls
    <3> QED BY Zenon, <2>0, <2>11, <3>1 DEF IoParks, Parks, TypeOK, CursorOK
  <2>12. ASSUME NEW until \in 1 .. MaxTime, SleepParks(until) PROVE TInv'
    <3>0. until \in Nat
      OBVIOUS
    <3>1. procs' \in [Slots -> Proc]
      BY Zenon, <1>b, <2>0, <2>00, <2>12, <3>0, ParkedType DEF SleepParks, Parks, PendingCalls
    <3> QED BY Zenon, <2>0, <2>12, <3>1 DEF SleepParks, Parks, TypeOK, CursorOK
  <2> QED
    BY Zenon, <1>4, <2>1, <2>2, <2>3, <2>4, <2>6, <2>7, <2>8, <2>9, <2>11, <2>12
    DEF Call
<1>5. CASE Tick
  BY <1>5 DEF Tick, TypeOK, CursorOK
<1>6. CASE Slice
  <2>0. i \in Slots
    BY Zenon, <1>6 DEF Slice, Stop, Yield, OverBudget, HitLimit, Reschedule, CursorOK
  <2>00. procs[i] \in Proc
    BY Zenon, <2>0, <1>a
  <2>1. ASSUME NEW q \in Proc, SliceOver(q), limited' \in BOOLEAN PROVE TInv'
    <3>1. procs' \in [Slots -> Proc]
      BY Zenon, <1>b, <2>0, <2>1 DEF SliceOver
    <3> QED BY <2>0, <2>1, <3>1 DEF SliceOver, TypeOK, CursorOK, Slots
  <2>2. CASE Stop
    BY Zenon, <1>c, <2>00, <2>1, <2>2, UpdateTypes DEF Stop, TypeOK
  <2>3. CASE Yield
    BY Zenon, <2>3 DEF Yield, TypeOK, CursorOK
  <2>4. CASE OverBudget
    BY Zenon, <1>c, <2>00, <2>1, <2>4, UpdateTypes DEF OverBudget, TypeOK
  <2>5. CASE HitLimit
    <3>1. procs' \in [Slots -> Proc]
      BY Zenon, <1>b, <1>c, <2>0, <2>00, <2>5, UpdateTypes DEF HitLimit
    <3> QED BY Zenon, <2>5, <3>1 DEF HitLimit, TypeOK, CursorOK
  <2>6. CASE Reschedule
    BY Zenon, <2>00, <2>1, <2>6, UpdateTypes DEF Reschedule, TypeOK
  <2> QED BY Zenon, <1>6, <2>2, <2>3, <2>4, <2>5, <2>6 DEF Slice
<1>7. CASE EndRound
  <2>1. ASSUME NEW s \in Slots PROVE Kept(s) \in Proc
    <3>1. Zombified(s) \in Proc
      BY Zenon, <1>a, UpdateTypes DEF Zombified
    <3> QED BY Zenon, <3>1, UpdateTypes DEF Kept
  <2>2. slot_gen' \in [Slots -> Nat]
    BY <1>7 DEF EndRound, TypeOK
  <2>3. procs' \in [Slots -> Proc]
    BY Zenon, <1>7, <2>1, NoProcType DEF EndRound
  <2> QED BY <1>7, <2>2, <2>3 DEF EndRound, TypeOK, CursorOK
<1>8. CASE PollReturns
  <2> PICK ready \in SUBSET PollFds, t \in now .. MaxTime : Poll(ready, t)
    BY Zenon, <1>8 DEF PollReturns
  <2>1. ready \subseteq Fds /\ t \in Nat
    BY <1>a DEF PollFds, IoParked, TypeOK, Proc
  <2>2. procs' \in [Slots -> Proc]
    BY Zenon, <1>a, UpdateTypes DEF Poll
  <2>r. ran' \in BOOLEAN
    BY Zenon DEF Poll
  <2>3. /\ pc' = "step" /\ now' \in Nat
        /\ revents' \subseteq Fds
        /\ UNCHANGED <<slot_gen, nprocs, limited, i, calls, issued>>
    BY Zenon, <2>1 DEF Poll
  <2> QED BY Zenon, <2>2, <2>r, <2>3 DEF TypeOK, CursorOK
<1>9. CASE Destroy
  <2>1. procs' \in [Slots -> Proc]
    BY Zenon, <1>a, <1>9, UpdateTypes DEF Destroy
  <2> QED BY Zenon, <1>9, <2>1 DEF Destroy, TypeOK, CursorOK
<1>10. CASE UNCHANGED vars
  BY Zenon, <1>10 DEF vars, TypeOK, CursorOK
<1> QED
  BY Zenon, <1>1, <1>2, <1>3, <1>4, <1>5, <1>6, <1>7, <1>8, <1>9, <1>10 DEF Next

LEMMA InitTypes == Init => TInv
<1>1. <<>> \in Seq(Nat)
  OBVIOUS
<1>2. Init => limited \in BOOLEAN /\ ran \in BOOLEAN
  BY Zenon DEF Init
<1> QED BY <1>1, <1>2, NoProcType DEF Init, TInv, TypeOK, CursorOK

\* Type correctness of the scheduler's state.
THEOREM TypeCorrect == Spec => []TypeOK
BY InitTypes, TypeStep, PTL DEF Spec, TInv
-----------------------------------------------------------------------------
(***************************************************************************)
(* Identity.  What a step may do to a slot: put a new process into a free  *)
(* one, free one whose process has finished, or update the process there   *)
(* without touching its identity or a cause of death already recorded.     *)
(***************************************************************************)
Endures(p, q) ==
  /\ q.used = p.used /\ q.id = p.id /\ q.handle = p.handle /\ q.parent = p.parent
  /\ p.done => q.done /\ q.rc = p.rc

Endured(s) == Endures(procs[s], procs'[s]) /\ slot_gen'[s] = slot_gen[s]

\* Only the parent's wait or, for an orphan, the end of a round reaps.
Reaped(s) ==
  /\ Finished(s) /\ procs'[s] = NoProc /\ slot_gen'[s] = slot_gen[s] + 1
  /\ Orphan(s) \/ (pc = "slice" /\ procs[s].parent = procs[i].handle)

Born(s, par) ==
  /\ ~procs[s].used
  /\ procs'[s] = NewProc(s, par)
  /\ slot_gen' = slot_gen
  /\ nprocs' = IF s < nprocs THEN nprocs ELSE s + 1
  /\ issued' = Append(issued, PROC_HANDLE(s, slot_gen[s]))
  /\ \A t \in Slots \ {s} : procs'[t] = procs[t]

\* No step but a birth extends the table's history.
Aged ==
  /\ issued' = issued
  /\ nprocs' \in nprocs .. MaxProc
  /\ \A s \in Slots : Endured(s) \/ Reaped(s)

Slotted ==
  /\ \A s \in Slots :
       procs[s].used => /\ s < nprocs
                        /\ procs[s].handle = PROC_HANDLE(s, slot_gen[s])
                        /\ procs[s].id \in 1 .. Len(issued)
                        /\ procs[s].parent % 256 # s + 1
  /\ pc \in {"slice", "tail"} => Live(i) /\ ~procs[i].blocked

\* The low byte of a handle is its slot plus one.
LEMMA HandleSlot ==
  ASSUME NEW s \in Slots, NEW g \in Nat
  PROVE  PROC_HANDLE(s, g) % 256 = s + 1
<1> DEFINE r == g % GenMod
<1>1. r \in Nat
  OBVIOUS
<1> HIDE DEF r
<1>2. s + 1 \in 1 .. 254
  BY DEF Slots
<1>3. ((s + 1) + 256 * r) % 256 = s + 1
  BY <1>1, <1>2
<1> QED BY Zenon, <1>3 DEF PROC_HANDLE, r

\* So two slots never hold the same handle, and a handle in use is found.
LEMMA SlotOfHandle ==
  ASSUME TInv, Slotted, NEW s \in Slots, procs[s].used
  PROVE  /\ procs[s].handle % 256 = s + 1
         /\ procs[s].handle \in Nat
         /\ proc_from_handle(procs[s].handle) = s
<1>0. procs[s].handle = PROC_HANDLE(s, slot_gen[s]) /\ slot_gen[s] \in Nat
  BY DEF Slotted, TInv, TypeOK
<1>1. procs[s].handle % 256 = s + 1 /\ procs[s].handle \in Nat
  BY <1>0, HandleSlot, HandleType
<1>2. (procs[s].handle % 256) - 1 = s
  BY <1>1 DEF Slots
<1>3. s \in 0 .. nprocs - 1
  BY DEF Slotted, Slots, TInv, TypeOK
<1> QED BY <1>1, <1>2, <1>3 DEF proc_from_handle

LEMMA UpdatesEndure ==
  ASSUME NEW p \in Proc
  PROVE  /\ Endures(p, p)
         /\ Endures(p, CallDone(p))
         /\ Endures(p, [CallDone(p) EXCEPT !.wait = -1])
         /\ Endures(p, Unblocked(p))
         /\ Endures(p, Blocked(p))
         /\ Endures(p, FreeResources(p))
         /\ Endures(p, [p EXCEPT !.frees = @ + 1])
         /\ \A c \in Causes : ~p.done => Endures(p, Ended(p, c))
BY Zenon DEF Endures, Proc, CallDone, Unblocked, Blocked, FreeResources, Ended

LEMMA ParkedEndures ==
  ASSUME NEW p \in Proc, NEW op, NEW arg, NEW fd, NEW dl
  PROVE  /\ Endures(p, Parked(p, op, arg, fd, dl))
         /\ \A w : Endures(p, [Parked(p, op, arg, fd, dl) EXCEPT !.wait = w])
BY Zenon DEF Endures, Proc, Parked

\* The caller is not its own child: what it kills or reaps is another slot.
LEMMA ChildIsOther ==
  ASSUME TInv, Slotted, NEW h \in Nat, pc = "slice", Child(h) # -1
  PROVE  /\ Child(h) \in Slots \ {i}
         /\ procs[Child(h)].used
         /\ procs[Child(h)].handle = h
         /\ procs[Child(h)].parent = procs[i].handle
<1>1. i \in Slots /\ procs[i].used
  BY Zenon DEF TInv, CursorOK, Slotted, Live
<1>2. /\ Child(h) \in Slots
      /\ procs[Child(h)].used
      /\ procs[Child(h)].handle = h
      /\ procs[Child(h)].parent = procs[i].handle
  BY Zenon, <1>1, ChildSlot DEF TInv
<1>3. procs[Child(h)].parent % 256 = i + 1
  BY <1>1, <1>2, SlotOfHandle
<1> QED BY <1>2, <1>3 DEF Slotted

LEMMA BuildIsBirth ==
  ASSUME TInv, NEW s \in Slots, NEW par \in Nat, Build(s, par)
  PROVE  Born(s, par)
<1>1. NewProc(s, par).handle = PROC_HANDLE(s, slot_gen[s])
  BY Zenon DEF NewProc, NoProc
<1> QED BY Zenon, <1>1 DEF Build, FreeSlot, Becomes, Born, TInv, TypeOK

\* A step that replaces one process by an update of it.
LEMMA UpdateAges ==
  ASSUME TInv, NEW s \in Slots, NEW q, Endures(procs[s], q), Becomes(s, q),
         UNCHANGED <<slot_gen, nprocs, issued>>
  PROVE  Aged
<1>1. ASSUME NEW t \in Slots PROVE Endured(t)
  <2>1. CASE t = s
    BY Zenon, <2>1 DEF Endured, Becomes, TInv, TypeOK
  <2>2. CASE t # s
    <3>1. procs[t] \in Proc /\ procs'[t] = procs[t]
      BY Zenon, <2>2 DEF Becomes, TInv, TypeOK
    <3> QED BY Zenon, <3>1, UpdatesEndure DEF Endured
  <2> QED BY Zenon, <2>1, <2>2
<1> QED BY <1>1 DEF Aged, TInv, TypeOK

\* Every step is a birth or leaves every process its identity or reaps it.
LEMMA StepKinds ==
  ASSUME TInv, Slotted, [Next]_vars
  PROVE  \/ \E s \in Slots, par \in Nat :
              /\ Born(s, par)
              /\ \/ pc = "boot" /\ par = 0 /\ pc' = "boot"
                 \/ pc = "slice" /\ par = procs[i].handle /\ pc' = "slice" /\ i' = i
         \/ Aged
<1>a. \A s \in Slots : procs[s] \in Proc
  BY Zenon DEF TInv, TypeOK
<1>b. "none" \in Causes /\ "fault" \in Causes /\ "budget" \in Causes
      /\ "limit" \in Causes /\ "killed" \in Causes
  BY Zenon DEF Causes
<1>c. ASSUME UNCHANGED <<procs, slot_gen, issued>>, nprocs' \in nprocs .. MaxProc
      PROVE  Aged
  BY Zenon, <1>a, <1>c, UpdatesEndure DEF Aged, Endured
<1>d. ASSUME UNCHANGED <<procs, slot_gen, issued, nprocs>>
      PROVE  Aged
  BY <1>c, <1>d DEF TInv, TypeOK
<1>1. CASE AddRoot
  <2>1. PICK s \in Slots : Build(s, 0)
    BY Zenon, <1>1 DEF AddRoot
  <2> QED BY Zenon, <1>1, <2>1, BuildIsBirth DEF AddRoot
<1>2. CASE Start \/ BeginSlice \/ Tick \/ UNCHANGED vars
  BY Zenon, <1>2, <1>d DEF Start, BeginSlice, Tick, vars
<1>3. CASE Call
  <2>0. pc = "slice"
    BY Zenon, <1>3 DEF Call, Spawn, SpawnFails, IoCompletes, SleepCompletes, Kill, WaitBad,
       WaitReaps, WaitParks, WaitsFor, IoParks, SleepParks, InCall
  <2>00. i \in Slots /\ procs[i] \in Proc /\ procs[i].handle \in Nat
    BY Zenon, <1>a, <2>0 DEF TInv, CursorOK, Proc
  <2>h. \A h \in Handles : h \in Nat
    BY DEF Handles, TInv, TypeOK
  <2>1. CASE Spawn
    <3>1. PICK s \in Slots : Build(s, procs[i].handle)
      BY Zenon, <2>1 DEF Spawn
    <3> QED BY Zenon, <2>0, <2>00, <2>1, <3>1, BuildIsBirth DEF Spawn, CallReturns
  <2>2. CASE SpawnFails
    <3>1. nprocs' \in nprocs .. MaxProc
      BY <2>2 DEF SpawnFails, Reject, Slots, TInv, TypeOK
    <3> QED BY Zenon, <1>c, <2>2, <3>1 DEF SpawnFails, Reject
  <2>3. CASE IoCompletes
    BY Zenon, <2>00, <2>3, UpdateAges, UpdatesEndure DEF IoCompletes
  <2>4. CASE SleepCompletes
    BY Zenon, <2>00, <2>4, UpdateAges, UpdatesEndure DEF SleepCompletes
  <2>5. ASSUME NEW h \in Handles, Kill(h) PROVE Aged
    <3>1. Child(h) \in Slots
      BY Zenon, <2>0, <2>5, <2>h, ChildIsOther DEF Kill
    <3>2. CASE procs[Child(h)].done
      BY Zenon, <1>d, <2>5, <3>2 DEF Kill
    <3>3. CASE ~procs[Child(h)].done
      <4>1. Endures(procs[Child(h)], Ended(procs[Child(h)], "killed"))
        BY Zenon, <1>a, <1>b, <3>1, <3>3, UpdatesEndure
      <4> QED BY Zenon, <2>5, <3>1, <3>3, <4>1, UpdateAges DEF Kill
    <3> QED BY Zenon, <3>2, <3>3
  <2>6. ASSUME NEW h \in Handles, WaitBad(h) PROVE Aged
    BY Zenon, <2>00, <2>6, UpdateAges, UpdatesEndure DEF WaitBad
  <2>7. ASSUME NEW h \in Handles, WaitReaps(h) PROVE Aged
    <3> DEFINE c == Child(h)
               q == [CallDone(procs[i]) EXCEPT !.wait = -1]
    <3>1. /\ c \in Slots \ {i} /\ Finished(c)
          /\ procs[c].parent = procs[i].handle
          /\ procs' = [procs EXCEPT ![c] = NoProc, ![i] = q]
          /\ slot_gen' = [slot_gen EXCEPT ![c] = @ + 1]
          /\ UNCHANGED <<nprocs, issued>>
      BY Zenon, <2>0, <2>7, <2>h, ChildIsOther DEF WaitReaps, Finished
    <3>2. Endures(procs[i], q)
      BY Zenon, <2>00, UpdatesEndure
    <3> HIDE DEF c, q
    <3>3. Reaped(c)
      BY <2>0, <3>1 DEF Reaped, TInv, TypeOK
    <3>4. Endured(i)
      BY <2>00, <3>1, <3>2 DEF Endured, TInv, TypeOK
    <3>5. ASSUME NEW t \in Slots \ {c, i} PROVE Endured(t)
      BY Zenon, <1>a, <3>1, UpdatesEndure DEF Endured, TInv, TypeOK
    <3>6. nprocs' \in nprocs .. MaxProc
      BY <3>1 DEF TInv, TypeOK
    <3> QED BY Zenon, <3>1, <3>3, <3>4, <3>5, <3>6 DEF Aged
  <2>8. ASSUME NEW h \in Handles, WaitParks(h) PROVE Aged
    BY Zenon, <2>00, <2>8, UpdateAges, ParkedEndures DEF WaitParks, Parks
  <2>9. ASSUME NEW f \in Fds, IoParks(f) PROVE Aged
    BY Zenon, <2>00, <2>9, UpdateAges, ParkedEndures DEF IoParks, Parks
  <2>10. ASSUME NEW until \in 1 .. MaxTime, SleepParks(until) PROVE Aged
    BY Zenon, <2>00, <2>10, UpdateAges, ParkedEndures DEF SleepParks, Parks
  <2> QED
    BY Zenon, <1>3, <2>1, <2>2, <2>3, <2>4, <2>5, <2>6, <2>7, <2>8, <2>9, <2>10 DEF Call
<1>4. CASE Slice
  <2>0. pc \in {"slice", "tail"}
    BY Zenon, <1>4 DEF Slice, Stop, Yield, OverBudget, HitLimit, Reschedule
  <2>00. i \in Slots /\ procs[i] \in Proc /\ ~procs[i].done
    BY Zenon, <1>a, <2>0 DEF TInv, CursorOK, Slotted, Live
  <2>1. CASE Stop
    BY Zenon, <1>b, <2>00, <2>1, UpdateAges, UpdatesEndure DEF Stop, SliceOver
  <2>2. CASE Yield
    BY Zenon, <1>d, <2>2 DEF Yield
  <2>3. CASE OverBudget
    BY Zenon, <1>b, <2>00, <2>3, UpdateAges, UpdatesEndure DEF OverBudget, SliceOver
  <2>4. CASE HitLimit
    BY Zenon, <1>b, <2>00, <2>4, UpdateAges, UpdatesEndure DEF HitLimit
  <2>5. CASE Reschedule
    BY Zenon, <2>00, <2>5, UpdateAges, UpdatesEndure DEF Reschedule, SliceOver
  <2> QED BY Zenon, <1>4, <2>1, <2>2, <2>3, <2>4, <2>5 DEF Slice
<1>5. CASE EndRound
  <2>1. ASSUME NEW s \in Slots PROVE Endured(s) \/ Reaped(s)
    <3>1. CASE Orphan(s)
      BY Zenon, <1>5, <3>1 DEF EndRound, Orphan, Reaped
    <3>2. CASE ~Orphan(s)
      <4>1. procs'[s] = Kept(s) /\ slot_gen'[s] = slot_gen[s]
        BY Zenon, <1>5, <3>2 DEF EndRound
      <4>2. Zombified(s) \in Proc /\ Endures(procs[s], Zombified(s))
        BY Zenon, <1>a, UpdateTypes, UpdatesEndure DEF Zombified
      <4>3. Endures(Zombified(s), Kept(s))
        BY Zenon, <4>2, UpdatesEndure DEF Kept
      <4> QED BY <1>a, <4>1, <4>2, <4>3 DEF Endures, Endured
    <3> QED BY Zenon, <3>1, <3>2
  <2> QED BY <1>5, <2>1 DEF EndRound, Aged, TInv, TypeOK
<1>6. CASE PollReturns
  <2>1. ASSUME NEW s \in Slots PROVE Endured(s)
    BY Zenon, <1>6, <1>a, UpdatesEndure DEF PollReturns, Poll, Endured
  <2> QED BY <1>6, <2>1 DEF PollReturns, Poll, Aged, TInv, TypeOK
<1>7. CASE Destroy
  <2>1. ASSUME NEW s \in Slots PROVE Endured(s)
    BY Zenon, <1>7, <1>a, UpdatesEndure DEF Destroy, Endured
  <2> QED BY SMTT(30), <1>7, <2>1 DEF Destroy, Aged, TInv, TypeOK
<1> QED BY Zenon, <1>1, <1>2, <1>3, <1>4, <1>5, <1>6, <1>7 DEF Next

LEMMA SlottedStep == TInv /\ Slotted /\ [Next]_vars => Slotted'
<1> SUFFICES ASSUME TInv, Slotted, [Next]_vars PROVE Slotted'
  BY Zenon
<1>t. TInv'
  BY Zenon, TypeStep
<1>n. /\ nprocs \in Nat /\ nprocs' \in Nat /\ MaxProc \in Nat
      /\ Len(issued) \in Nat
      /\ \A s \in Slots : s \in Nat
  BY <1>t DEF TInv, TypeOK, Slots
<1>1. ASSUME NEW s \in Slots, procs'[s].used
      PROVE  /\ s < nprocs'
             /\ procs'[s].handle = PROC_HANDLE(s, slot_gen'[s])
             /\ procs'[s].id \in 1 .. Len(issued')
             /\ procs'[s].parent % 256 # s + 1
  <2>1. CASE Aged
    <3>1. Endured(s)
      BY <1>1, <2>1 DEF Aged, Reaped, NoProc
    <3>2. nprocs' >= nprocs /\ issued' = issued
      BY <1>n, <2>1 DEF Aged
    <3> QED BY SMTT(30), <1>1, <1>n, <3>1, <3>2 DEF Endured, Endures, Slotted
  <2>2. ASSUME NEW b \in Slots, NEW par \in Nat, Born(b, par),
               \/ par = 0
               \/ pc = "slice" /\ par = procs[i].handle
        PROVE  /\ s < nprocs'
               /\ procs'[s].handle = PROC_HANDLE(s, slot_gen'[s])
               /\ procs'[s].id \in 1 .. Len(issued')
               /\ procs'[s].parent % 256 # s + 1
    <3>1. Len(issued') = Len(issued) + 1
      <4>1. PROC_HANDLE(b, slot_gen[b]) \in Nat
        BY Zenon, HandleType DEF TInv, TypeOK
      <4> QED BY <2>2, <4>1 DEF Born, TInv, TypeOK
    <3>2. nprocs' >= nprocs /\ b < nprocs'
      BY <1>n, <2>2 DEF Born
    <3>3. CASE s = b
      <4>1. /\ procs'[s].handle = PROC_HANDLE(s, slot_gen[s])
            /\ procs'[s].id = Len(issued) + 1
            /\ procs'[s].parent = par
        BY ZenonT(40), <2>2, <3>3 DEF Born, NewProc, NoProc
      <4>2. par % 256 # s + 1
        <5>1. CASE par = 0
          BY <1>n, <5>1
        <5>2. CASE pc = "slice" /\ par = procs[i].handle
          <6>1. i \in Slots /\ procs[i].used
            BY Zenon, <5>2 DEF TInv, CursorOK, Slotted, Live
          <6>2. i # s
            BY Zenon, <2>2, <3>3, <6>1 DEF Born
          <6> QED BY <5>2, <6>1, <6>2, <1>n, SlotOfHandle
        <5> QED BY Zenon, <2>2, <5>1, <5>2
      <4> QED BY <1>n, <2>2, <3>1, <3>2, <3>3, <4>1, <4>2 DEF Born
    <3>4. CASE s # b
      <4>1. procs'[s] = procs[s] /\ slot_gen' = slot_gen
        BY Zenon, <2>2, <3>4 DEF Born
      <4> QED BY <1>1, <1>n, <3>1, <3>2, <4>1 DEF Slotted
    <3> QED BY Zenon, <3>3, <3>4
  <2> QED BY SMTT(30), <2>1, <2>2, StepKinds
<1>2. ASSUME pc' \in {"slice", "tail"} PROVE Live(i)' /\ ~procs'[i'].blocked
  <2>i. pc \in {"slice", "tail"} => i \in Slots /\ procs[i] \in Proc
                                    /\ Live(i) /\ ~procs[i].blocked
    BY Zenon DEF TInv, TypeOK, CursorOK, Slotted
  <2>1. CASE BeginSlice
    <3>1. PICK s \in i .. nprocs - 1 : Runnable(s) /\ i' = s
      BY Zenon, <2>1 DEF BeginSlice
    <3> QED BY Zenon, <2>1, <3>1 DEF BeginSlice, Runnable, Live
  <2>2. CASE Tick \/ UNCHANGED vars \/ Yield
    BY Zenon, <1>2, <2>2, <2>i DEF Tick, vars, Yield, Live
  <2>3. CASE Call
    <3>0. pc = "slice"
      BY Zenon, <2>3 DEF Call, Spawn, SpawnFails, IoCompletes, SleepCompletes, Kill, WaitBad,
         WaitReaps, WaitParks, WaitsFor, IoParks, SleepParks, InCall
    <3>i. i \in Slots /\ procs[i] \in Proc /\ Live(i) /\ ~procs[i].blocked
      BY Zenon, <2>i, <3>0
    <3>h. \A h \in Handles : h \in Nat
      BY DEF Handles, TInv, TypeOK
    <3>u. \A q : Becomes(i, q) => procs'[i] = q
      BY Zenon, <3>i DEF Becomes, TInv, TypeOK
    <3>1. CASE Spawn
      <4>1. PICK s \in Slots : Build(s, procs[i].handle)
        BY <3>1 DEF Spawn
      <4>2. s # i
        BY Zenon, <4>1, <3>i DEF Build, FreeSlot, Live
      <4>3. procs'[i] = procs[i] /\ i' = i
        BY Zenon, <3>1, <3>i, <4>1, <4>2 DEF Spawn, CallReturns, Build, Becomes, TInv, TypeOK
      <4> QED BY Zenon, <3>i, <4>3 DEF Live
    <3>2. CASE SpawnFails
      BY Zenon, <3>2, <3>i DEF SpawnFails, Reject, CallReturns, Live
    <3>3. CASE IoCompletes \/ SleepCompletes
      <4>1. procs'[i] = CallDone(procs[i]) /\ i' = i
        BY Zenon, <3>3, <3>u DEF IoCompletes, SleepCompletes, CallReturns
      <4> QED BY SMTT(30), <3>i, <4>1 DEF Live, CallDone, Proc
    <3>4. ASSUME NEW h \in Handles, Kill(h) PROVE Live(i)' /\ ~procs'[i'].blocked
      <4>1. Child(h) \in Slots \ {i}
        BY Zenon, <3>0, <3>4, <3>h, ChildIsOther DEF Kill
      <4>2. /\ i' = i
            /\ \/ procs' = procs
               \/ procs' = [procs EXCEPT ![Child(h)] = Ended(procs[Child(h)], "killed")]
        BY Zenon, <3>4 DEF Kill, CallReturns, Becomes
      <4>3. procs'[i] = procs[i]
        BY Zenon, <3>i, <4>1, <4>2 DEF TInv, TypeOK
      <4> QED BY Zenon, <3>i, <4>2, <4>3 DEF Live
    <3>5. ASSUME NEW h \in Handles, WaitBad(h) PROVE Live(i)' /\ ~procs'[i'].blocked
      <4>1. procs'[i] = CallDone(procs[i]) /\ i' = i
        BY Zenon, <3>5, <3>u DEF WaitBad, CallReturns
      <4> QED BY <3>i, <4>1 DEF Live, CallDone, Proc
    <3>6. ASSUME NEW h \in Handles, WaitReaps(h) PROVE Live(i)' /\ ~procs'[i'].blocked
      <4> DEFINE q == [CallDone(procs[i]) EXCEPT !.wait = -1]
      <4>1. i' = i /\ procs' = [procs EXCEPT ![Child(h)] = NoProc, ![i] = q]
        BY Zenon, <3>6 DEF WaitReaps, CallReturns
      <4>2. q.used = procs[i].used /\ q.done = procs[i].done
            /\ q.blocked = procs[i].blocked
        BY Zenon, <3>i DEF CallDone, Proc
      <4> HIDE DEF q
      <4>3. procs'[i] = q
        BY Zenon, <3>i, <4>1 DEF TInv, TypeOK
      <4> QED BY Zenon, <3>i, <4>1, <4>2, <4>3 DEF Live
    <3>7. ASSUME NEW op, NEW arg, NEW fd, NEW dl
          PROVE  /\ Parks(Parked(procs[i], op, arg, fd, dl))
                      => Live(i)' /\ ~procs'[i'].blocked
                 /\ \A w : Parks([Parked(procs[i], op, arg, fd, dl) EXCEPT !.wait = w])
                             => Live(i)' /\ ~procs'[i'].blocked
      <4>1. ASSUME NEW q, Parks(q), q.used, ~q.done, ~q.blocked
            PROVE  Live(i)' /\ ~procs'[i'].blocked
        BY <3>u, <4>1 DEF Parks, Live
      <4>2. /\ Parked(procs[i], op, arg, fd, dl).used
            /\ ~Parked(procs[i], op, arg, fd, dl).done
            /\ ~Parked(procs[i], op, arg, fd, dl).blocked
        BY Zenon, <3>i DEF Parked, Proc, Live
      <4>3. ASSUME NEW w
            PROVE  /\ [Parked(procs[i], op, arg, fd, dl) EXCEPT !.wait = w].used
                   /\ ~[Parked(procs[i], op, arg, fd, dl) EXCEPT !.wait = w].done
                   /\ ~[Parked(procs[i], op, arg, fd, dl) EXCEPT !.wait = w].blocked
        BY Zenon, <3>i DEF Parked, Proc, Live
      <4> QED BY Zenon, <4>1, <4>2, <4>3
    <3>8. ASSUME NEW h \in Handles, WaitParks(h) PROVE Live(i)' /\ ~procs'[i'].blocked
      BY Zenon, <3>7, <3>8 DEF WaitParks
    <3>9. ASSUME NEW f \in Fds, IoParks(f) PROVE Live(i)' /\ ~procs'[i'].blocked
      BY Zenon, <3>7, <3>9 DEF IoParks
    <3>10. ASSUME NEW until \in 1 .. MaxTime, SleepParks(until)
           PROVE  Live(i)' /\ ~procs'[i'].blocked
      BY Zenon, <3>7, <3>10 DEF SleepParks
    <3> QED
      BY Zenon, <2>3, <3>1, <3>2, <3>3, <3>4, <3>5, <3>6, <3>8, <3>9, <3>10 DEF Call
  <2>4. CASE AddRoot \/ Start \/ Stop \/ OverBudget \/ HitLimit \/ Reschedule
             \/ EndRound \/ PollReturns \/ Destroy
    BY Zenon, <1>2, <2>4 DEF AddRoot, Start, Stop, OverBudget, HitLimit, Reschedule,
       SliceOver, EndRound, PollReturns, Poll, Destroy
  <2> QED BY Zenon, <2>1, <2>2, <2>3, <2>4 DEF Next, Slice
<1> QED BY Zenon, <1>1, <1>2 DEF Slotted

SInv == TInv /\ Slotted

LEMMA SInvariant == Spec => []SInv
<1>1. Init => SInv
  <2> SUFFICES ASSUME Init PROVE SInv
    BY Zenon
  <2>1. TInv
    BY Zenon, InitTypes
  <2>2. Slotted
    BY Zenon DEF Init, Slotted, NoProc
  <2> QED BY Zenon, <2>1, <2>2 DEF SInv
<1>2. SInv /\ [Next]_vars => SInv'
  BY Zenon, TypeStep, SlottedStep DEF SInv
<1> QED BY <1>1, <1>2, PTL DEF Spec

\* Kills, limits and budgets that come late do not rewrite a recorded status
\* (do_kill, proc_slice).
THEOREM DeathIsFinal == Spec => CauseOfDeathStands
<1> DEFINE A == \A s \in Slots :
                  Finished(s) /\ procs'[s].id = procs[s].id =>
                    procs'[s].done /\ procs'[s].rc = procs[s].rc
<1>1. SInv /\ [Next]_vars => A
  <2> SUFFICES ASSUME SInv, [Next]_vars, NEW s \in Slots, Finished(s),
                      procs'[s].id = procs[s].id
               PROVE  procs'[s].done /\ procs'[s].rc = procs[s].rc
    BY Zenon
  <2>1. procs[s].id # 0
    BY DEF SInv, Slotted, Finished
  <2>2. CASE Aged
    <3>1. ~Reaped(s)
      BY SMTT(30), <2>1 DEF Reaped, NoProc
    <3> QED BY Zenon, <2>2, <3>1 DEF Aged, Endured, Endures, Finished
  <2>3. ASSUME NEW b \in Slots, NEW par, Born(b, par) PROVE procs'[s] = procs[s]
    BY Zenon, <2>3 DEF Born, Finished
  <2> QED BY Zenon, <2>2, <2>3, StepKinds DEF SInv, Finished
<1> QED BY <1>1, SInvariant, PTL DEF Spec, CauseOfDeathStands

\* A status is kept for a living parent until its own wait collects it
\* (the orphan rule of sched_step, do_wait).
THEOREM StatusKept == Spec => StatusKeptForParent
<1> DEFINE A == \A c \in Slots \ {0} :
                  LET par == proc_from_handle(procs[c].parent) IN
                  /\ Finished(c) /\ par # -1 /\ Live(par)
                  /\ procs'[c].id # procs[c].id
                  => pc = "slice" /\ i = par
<1>1. SInv /\ [Next]_vars => A
  <2> SUFFICES ASSUME SInv, [Next]_vars, NEW c \in Slots, Finished(c),
                      proc_from_handle(procs[c].parent) # -1,
                      Live(proc_from_handle(procs[c].parent)),
                      procs'[c].id # procs[c].id
               PROVE  pc = "slice" /\ i = proc_from_handle(procs[c].parent)
    BY Zenon
  <2>1. CASE Aged
    <3>1. Reaped(c)
      BY Zenon, <2>1 DEF Aged, Endured, Endures
    <3>2. ~Orphan(c)
      BY Zenon DEF Orphan, Live
    <3>3. pc = "slice" /\ procs[c].parent = procs[i].handle
      BY Zenon, <3>1, <3>2 DEF Reaped
    <3>4. i \in Slots /\ procs[i].used
      BY Zenon, <3>3 DEF SInv, TInv, CursorOK, Slotted, Live
    <3> QED BY SMTT(30), <3>3, <3>4, SlotOfHandle DEF SInv
  <2>2. ASSUME NEW b \in Slots, NEW par, Born(b, par) PROVE procs'[c] = procs[c]
    BY Zenon, <2>2 DEF Born, Finished
  <2> QED BY Zenon, <2>1, <2>2, StepKinds DEF SInv
<1> QED BY <1>1, SInvariant, PTL DEF Spec, StatusKeptForParent

-----------------------------------------------------------------------------
(***************************************************************************)
(* Waiting.  While wait_slot is set, the pending call of the process is the *)
(* wait on that very child; and a park is either that, or one on an fd or   *)
(* a deadline.                                                              *)
(***************************************************************************)
LEMMA TableTypes ==
  ASSUME SInv
  PROVE  procs \in [Slots -> Proc] /\ slot_gen \in [Slots -> Nat] /\ \A h \in Handles : h \in Nat
<1>1. procs \in [Slots -> Proc] /\ slot_gen \in [Slots -> Nat] /\ issued \in Seq(Nat)
  BY Zenon DEF SInv, TInv, TypeOK
<1>2. \A h \in Handles : h \in Nat
  BY <1>1 DEF Handles
<1> QED BY Zenon, <1>1, <1>2

LEMMA WaitOrNone ==
  ASSUME NEW w \in Slots \cup {-1}
  PROVE  /\ w >= 0 <=> ~(w < 0)
         /\ w # -1 <=> w >= 0
         /\ w >= 0 => w \in Slots
BY DEF Slots

LEMMA EmptyIsFree == ~NoProc.used
BY Zenon DEF NoProc

\* Reaping moves the slot's generation on.
LEMMA NoneReaped ==
  ASSUME SInv, slot_gen' = slot_gen, NEW w \in Slots
  PROVE  ~Reaped(w)
<1>1. slot_gen[w] \in Nat
  BY Zenon, TableTypes
<1>2. slot_gen[w] # slot_gen[w] + 1
  BY <1>1
<1> QED BY Zenon, <1>2 DEF Reaped

ParkedOn(w, fd, dl) == IF w >= 0 THEN fd = -1 /\ dl = 0 ELSE fd # -1 \/ dl # 0

Waiting(s) ==
  /\ procs[s].wait >= 0 =>
       /\ procs[procs[s].wait].used
       /\ procs[procs[s].wait].parent = procs[s].handle
       /\ procs[procs[s].wait].handle = procs[s].arg
       /\ procs[s].call = "wait"
  /\ procs[s].gpark => ParkedOn(procs[s].wait, procs[s].gfd, procs[s].gdeadline)
  /\ procs[s].blocked => ParkedOn(procs[s].wait, procs[s].fd, procs[s].deadline)

WInv == \A s \in Slots : Live(s) => Waiting(s)

\* An update that leaves a process' parks alone, except that it may end them.
SamePark(p, q) ==
  /\ q.wait = p.wait /\ q.call = p.call /\ q.arg = p.arg
  /\ q.gpark => p.gpark /\ q.gfd = p.gfd /\ q.gdeadline = p.gdeadline
  /\ q.blocked => p.blocked /\ q.fd = p.fd /\ q.deadline = p.deadline

LEMMA UpdatesKeepPark ==
  ASSUME NEW p \in Proc
  PROVE  /\ SamePark(p, p)
         /\ SamePark(p, Unblocked(p))
         /\ SamePark(p, FreeResources(p))
         /\ SamePark(p, [p EXCEPT !.frees = @ + 1])
         /\ \A c \in Causes : SamePark(p, Ended(p, c))
BY SMTT(30) DEF SamePark, Proc, Unblocked, FreeResources, Ended

\* The awaited child stays in its slot while its parent lives, unless that
\* parent's own wait reaps it.
LEMMA ChildStays ==
  ASSUME SInv, [Next]_vars, NEW s \in Slots, Live(s), Waiting(s),
         procs[s].wait >= 0, ~Reaped(procs[s].wait) \/ pc # "slice" \/ i # s
  PROVE  /\ procs'[procs[s].wait].used
         /\ procs'[procs[s].wait].parent = procs[s].handle
         /\ procs'[procs[s].wait].handle = procs[s].arg
<1> DEFINE w == procs[s].wait
<1>1. /\ w \in Slots /\ procs[w].used
      /\ procs[w].parent = procs[s].handle /\ procs[w].handle = procs[s].arg
  BY SMTT(30) DEF Waiting, SInv, TInv, TypeOK, Proc
<1> HIDE DEF w
<1>2. CASE Aged
  <2>1. ~Orphan(w)
    <3>1. proc_from_handle(procs[s].handle) = s
      BY SlotOfHandle DEF SInv, Live
    <3>2. s # -1
      BY DEF Slots
    <3> QED BY Zenon, <1>1, <3>1, <3>2 DEF Orphan, Live
  <2>2. ASSUME pc = "slice", procs[w].parent = procs[i].handle PROVE i = s
    <3>1. i \in Slots /\ procs[i].used
      BY Zenon, <2>2 DEF SInv, TInv, CursorOK, Slotted, Live
    <3>2. proc_from_handle(procs[i].handle) = i /\ proc_from_handle(procs[s].handle) = s
      BY <3>1, SlotOfHandle DEF SInv, Live
    <3> QED BY Zenon, <1>1, <2>2, <3>2
  <2>3. ~Reaped(w)
    BY Zenon, <2>1, <2>2 DEF Reaped, w
  <2>4. Endured(w)
    BY Zenon, <1>1, <1>2, <2>3 DEF Aged
  <2> QED BY ZenonT(30), <1>1, <2>4 DEF Endured, Endures, w
<1>3. ASSUME NEW b \in Slots, NEW par, Born(b, par) PROVE procs'[w] = procs[w]
  BY <1>1, <1>3 DEF Born
<1> QED BY Zenon, <1>1, <1>2, <1>3, StepKinds DEF SInv, w

\* A recorded park is taken up at the end of the slice it ended.
ParkPending ==
  \A s \in Slots : Live(s) /\ procs[s].gpark => pc = "tail" /\ i = s

LEMMA ParkPendingStep == SInv /\ ParkPending /\ [Next]_vars => ParkPending'
<1> SUFFICES ASSUME SInv, ParkPending, [Next]_vars, NEW s \in Slots,
                    procs'[s].used, ~procs'[s].done, procs'[s].gpark
             PROVE  pc' = "tail" /\ i' = s
  BY Zenon DEF ParkPending, Live
<1>a. \A t \in Slots : procs[t] \in Proc
  BY Zenon DEF SInv, TInv, TypeOK
\* Whoever had no park pending before the step was put there by it.
<1>b. ASSUME Endures(procs[s], procs'[s]), SamePark(procs[s], procs'[s])
      PROVE  pc = "tail" /\ i = s
  BY Zenon, <1>a, <1>b DEF Endures, SamePark, ParkPending, Live, Proc
<1>c. ASSUME procs' = procs PROVE pc = "tail" /\ i = s
  BY Zenon, <1>a, <1>b, <1>c, UpdatesEndure, UpdatesKeepPark
<1>i. pc \in {"slice", "tail"} => i \in Slots /\ procs[i] \in Proc
  BY Zenon, <1>a DEF SInv, TInv, CursorOK
<1>u. ASSUME NEW t \in Slots, NEW q, Becomes(t, q), s # t PROVE pc = "tail" /\ i = s
  BY Zenon, <1>a, <1>b, <1>u, UpdatesEndure, UpdatesKeepPark
  DEF Becomes, SInv, TInv, TypeOK
<1>v. ASSUME NEW b \in Slots, NEW par, Build(b, par) PROVE pc = "tail" /\ i = s
  <2>1. ~NewProc(b, par).gpark
    BY Zenon DEF NewProc, NoProc
  <2>2. s # b
    BY Zenon, <1>v, <2>1 DEF Build, Becomes, SInv, TInv, TypeOK
  <2> QED BY Zenon, <1>u, <1>v, <2>2 DEF Build
<1>1. CASE AddRoot
  BY Zenon, <1>1, <1>v DEF AddRoot
<1>2. CASE Start \/ BeginSlice \/ Tick \/ Yield \/ UNCHANGED vars
  BY Zenon, <1>2, <1>c DEF Start, BeginSlice, Tick, Yield, vars
<1>3. CASE Spawn
  BY Zenon, <1>3, <1>v DEF Spawn, InCall
<1>4. CASE SpawnFails
  BY Zenon, <1>4, <1>c DEF SpawnFails, Reject, InCall
<1>5. ASSUME pc = "slice", Becomes(i, CallDone(procs[i])) PROVE FALSE
  <2>1. CallDone(procs[i]).gpark = procs[i].gpark /\ CallDone(procs[i]).used = procs[i].used
        /\ CallDone(procs[i]).done = procs[i].done
    BY Zenon, <1>5, <1>i DEF CallDone, Proc
  <2>2. CASE s = i
    <3>1. procs'[s] = CallDone(procs[i])
      BY Zenon, <1>5, <1>i, <2>2 DEF Becomes, SInv, TInv, TypeOK
    <3> QED BY Zenon, <1>5, <2>1, <2>2, <3>1 DEF ParkPending, Live
  <2> QED BY Zenon, <1>5, <1>i, <1>u, <2>2
<1>6. CASE IoCompletes \/ SleepCompletes \/ \E h \in Handles : WaitBad(h)
  BY Zenon, <1>5, <1>6 DEF IoCompletes, SleepCompletes, WaitBad, WaitsFor, InCall
<1>7. ASSUME NEW h \in Handles, Kill(h) PROVE FALSE
  <2>1. h \in Nat
    BY Zenon, TableTypes
  <2>2. pc = "slice" /\ Child(h) \in Slots
    BY Zenon, <1>7, <2>1, ChildIsOther DEF Kill, InCall, SInv
  <2>3. CASE procs' = procs
    BY Zenon, <1>c, <2>2, <2>3
  <2>4. CASE Becomes(Child(h), Ended(procs[Child(h)], "killed"))
    <3>1. Ended(procs[Child(h)], "killed").done
      BY <1>a, <2>2 DEF Ended, Proc
    <3>2. s # Child(h)
      BY Zenon, <2>2, <2>4, <3>1 DEF Becomes, SInv, TInv, TypeOK
    <3> QED BY Zenon, <1>u, <2>2, <2>4, <3>2
  <2> QED BY Zenon, <1>7, <2>3, <2>4 DEF Kill
<1>8. ASSUME NEW h \in Handles, WaitReaps(h) PROVE FALSE
  <2> DEFINE q == [CallDone(procs[i]) EXCEPT !.wait = -1]
  <2>0. pc = "slice"
    BY Zenon, <1>8 DEF WaitReaps, WaitsFor, InCall
  <2>1. procs' = [procs EXCEPT ![Child(h)] = NoProc, ![i] = q]
    BY Zenon, <1>8 DEF WaitReaps
  <2>2. q.gpark = procs[i].gpark /\ q.used = procs[i].used /\ q.done = procs[i].done
    BY Zenon, <1>i, <2>0 DEF CallDone, Proc
  <2> HIDE DEF q
  <2>3. (procs'[s] = q /\ s = i) \/ procs'[s] = NoProc \/ procs'[s] = procs[s]
    BY Zenon, <1>i, <2>0, <2>1 DEF SInv, TInv, TypeOK
  <2>4. pc # "tail"
    BY Zenon, <2>0
  <2> QED BY Zenon, <2>2, <2>3, <2>4, EmptyIsFree DEF ParkPending, Live
<1>9. ASSUME NEW q, Parks(q), pc = "slice" PROVE pc' = "tail" /\ i' = s
  BY Zenon, <1>9, <1>i, <1>u DEF Parks
<1>10. CASE \/ \E h \in Handles : WaitParks(h)
            \/ \E f \in Fds : IoParks(f)
            \/ \E until \in 1 .. MaxTime : SleepParks(until)
  BY Zenon, <1>9, <1>10 DEF WaitParks, IoParks, SleepParks, WaitsFor, InCall
<1>11. CASE Stop \/ OverBudget \/ HitLimit
  <2>1. PICK c : Becomes(i, Ended(procs[i], c))
    BY Zenon, <1>11 DEF Stop, OverBudget, HitLimit, SliceOver
  <2>2. i \in Slots /\ procs[i] \in Proc
    BY Zenon, <1>11, <1>i DEF Stop, OverBudget, HitLimit
  <2>3. Ended(procs[i], c).done
    BY Zenon, <2>2 DEF Ended, Proc
  <2>4. s # i
    BY Zenon, <2>1, <2>2, <2>3 DEF Becomes, SInv, TInv, TypeOK
  <2> QED BY Zenon, <1>u, <2>1, <2>2, <2>4
<1>12. CASE Reschedule
  <2> DEFINE q == IF procs[i].gpark THEN Blocked(procs[i]) ELSE procs[i]
  <2>1. i \in Slots /\ procs[i] \in Proc /\ Becomes(i, q)
    BY Zenon, <1>12, <1>i DEF Reschedule, SliceOver
  <2>2. ~q.gpark
    BY Zenon, <2>1 DEF Blocked, Proc
  <2>3. s # i
    BY Zenon, <2>1, <2>2 DEF Becomes, SInv, TInv, TypeOK
  <2> QED BY Zenon, <1>u, <2>1, <2>3
<1>13. CASE EndRound
  <2>1. procs'[s] = Kept(s)
    BY Zenon, <1>13 DEF EndRound, NoProc
  <2>2. Zombified(s) \in Proc /\ Endures(procs[s], Zombified(s))
        /\ SamePark(procs[s], Zombified(s))
    BY Zenon, <1>a, UpdateTypes, UpdatesEndure, UpdatesKeepPark DEF Zombified
  <2>3. Endures(Zombified(s), Kept(s)) /\ SamePark(Zombified(s), Kept(s))
    BY Zenon, <2>2, UpdatesEndure, UpdatesKeepPark DEF Kept
  <2>4. Endures(procs[s], procs'[s]) /\ SamePark(procs[s], procs'[s])
    BY ZenonT(40), <2>1, <2>2, <2>3 DEF Endures, SamePark
  <2> QED BY Zenon, <1>13, <1>b, <2>4 DEF EndRound
<1>14. CASE PollReturns \/ Destroy
  <2>1. Endures(procs[s], procs'[s]) /\ SamePark(procs[s], procs'[s])
    BY ZenonT(40), <1>14, <1>a, UpdatesEndure, UpdatesKeepPark DEF PollReturns, Poll, Destroy
  <2> QED BY Zenon, <1>14, <1>b, <2>1 DEF PollReturns, Poll, Destroy
<1> QED
  BY Zenon, <1>1, <1>2, <1>3, <1>4, <1>6, <1>7, <1>8, <1>10, <1>11, <1>12, <1>13, <1>14
  DEF Next, Call, Slice

\* A process whose parks a step leaves alone goes on waiting rightly.
LEMMA QuietWaiting ==
  ASSUME SInv, [Next]_vars, NEW s \in Slots, Live(s), Waiting(s),
         SamePark(procs[s], procs'[s]), procs'[s].handle = procs[s].handle,
         procs[s].wait < 0 \/ ~Reaped(procs[s].wait) \/ pc # "slice" \/ i # s
  PROVE  Waiting(s)'
<1>1. procs[s].wait \in Slots \cup {-1}
  <2>1. procs[s] \in Proc
    BY Zenon, TableTypes
  <2> QED BY Zenon, <2>1 DEF Proc
<1>2. procs[s].wait >= 0 =>
         /\ procs'[procs[s].wait].used
         /\ procs'[procs[s].wait].parent = procs[s].handle
         /\ procs'[procs[s].wait].handle = procs[s].arg
  <2>1. procs[s].wait >= 0 => ~(procs[s].wait < 0)
    BY Zenon, <1>1, WaitOrNone
  <2> QED BY Zenon, <2>1, ChildStays
<1> QED BY ZenonT(30), <1>2 DEF Waiting, SamePark

\* A call that completes without a wait pending.
LEMMA CallDoneWaiting ==
  ASSUME SInv, NEW s \in Slots, Waiting(s), procs[s].call # "wait" \/ procs[s].wait < 0,
         procs'[s] = CallDone(procs[s])
  PROVE  Waiting(s)'
<1>1. procs[s] \in Proc
  BY Zenon, TableTypes
<1>2. procs[s].wait \in Slots \cup {-1}
  BY Zenon, <1>1 DEF Proc
<1>3. LET q == CallDone(procs[s]) IN
      /\ q.wait = procs[s].wait /\ q.gpark = procs[s].gpark /\ q.gfd = procs[s].gfd
      /\ q.gdeadline = procs[s].gdeadline /\ q.blocked = procs[s].blocked
      /\ q.fd = procs[s].fd /\ q.deadline = procs[s].deadline
  BY Zenon, <1>1 DEF CallDone, Proc
<1>4. ~(procs[s].wait >= 0)
  BY Zenon, <1>2, WaitOrNone DEF Waiting
<1> QED BY ZenonT(30), <1>3, <1>4 DEF Waiting

LEMMA NewWaiting ==
  ASSUME NEW s \in Slots, NEW par, procs'[s] = NewProc(s, par)
  PROVE  Waiting(s)'
<1>1. /\ NewProc(s, par).wait = -1 /\ ~NewProc(s, par).gpark
      /\ ~NewProc(s, par).blocked
  BY Zenon DEF NewProc, NoProc
<1> QED BY <1>1 DEF Waiting

LEMMA WaitStep == SInv /\ ParkPending /\ WInv /\ [Next]_vars => WInv'
<1> SUFFICES ASSUME SInv, ParkPending, WInv, [Next]_vars, NEW s \in Slots, Live(s)'
             PROVE  Waiting(s)'
  BY Zenon DEF WInv
<1>a. \A t \in Slots : procs[t] \in Proc
  BY Zenon DEF SInv, TInv, TypeOK
<1>b. "none" \in Causes /\ "fault" \in Causes /\ "budget" \in Causes
      /\ "limit" \in Causes /\ "killed" \in Causes
  BY Zenon DEF Causes
<1>l. procs'[s].used /\ ~procs'[s].done
  BY Zenon DEF Live
\* Away from births, a live process was alive before and keeps its handle.
<1>c. ASSUME Aged PROVE Live(s) /\ Waiting(s) /\ procs'[s].handle = procs[s].handle
  <2>1. Endured(s)
    BY Zenon, <1>c, <1>l, EmptyIsFree DEF Aged, Reaped
  <2>2. Live(s)
    BY Zenon, <1>l, <2>1 DEF Endured, Endures, Live
  <2> QED BY Zenon, <2>1, <2>2 DEF Endured, Endures, WInv
<1>d. ASSUME Aged, SamePark(procs[s], procs'[s]),
             pc # "slice" \/ i # s \/ \A w \in Slots : ~Reaped(w)
      PROVE  Waiting(s)'
  <2>1. procs[s].wait < 0 \/ procs[s].wait \in Slots
    BY <1>a DEF Proc
  <2> QED BY Zenon, <1>c, <1>d, <2>1, QuietWaiting
<1>e. ASSUME UNCHANGED <<procs, slot_gen, issued>>, nprocs' \in nprocs .. MaxProc
      PROVE  Waiting(s)'
  <2>1. Aged
    BY Zenon, <1>a, <1>e, UpdatesEndure DEF Aged, Endured
  <2>2. \A w \in Slots : ~Reaped(w)
    BY Zenon, <1>e, NoneReaped
  <2> QED BY Zenon, <1>a, <1>d, <1>e, <2>1, <2>2, UpdatesKeepPark
<1>f. ASSUME UNCHANGED <<procs, slot_gen, issued, nprocs>> PROVE Waiting(s)'
  BY SMTT(30), <1>e, <1>f DEF SInv, TInv, TypeOK
\* A step that replaces the process in slot t, and reaps nothing.
<1>u. ASSUME NEW t \in Slots, NEW q, Becomes(t, q), Endures(procs[t], q),
             UNCHANGED <<slot_gen, nprocs, issued>>,
             s = t => SamePark(procs[t], q)
      PROVE  Waiting(s)'
  <2>1. Aged
    BY Zenon, <1>u, UpdateAges DEF SInv
  <2>2. \A w \in Slots : ~Reaped(w)
    BY Zenon, <1>u, NoneReaped
  <2>3. SamePark(procs[s], procs'[s])
    BY Zenon, <1>a, <1>u, UpdatesKeepPark DEF Becomes, SInv, TInv, TypeOK
  <2> QED BY Zenon, <1>d, <2>1, <2>2, <2>3
<1>v. ASSUME NEW b \in Slots, NEW par \in Nat, Build(b, par) PROVE Waiting(s)'
  <2>1. Born(b, par)
    BY Zenon, <1>v, BuildIsBirth DEF SInv
  <2>2. CASE s = b
    BY Zenon, <2>1, <2>2, NewWaiting DEF Born
  <2>3. CASE s # b
    <3>1. procs'[s] = procs[s]
      BY Zenon, <2>1, <2>3 DEF Born
    <3>2. \A w \in Slots : ~Reaped(w)
      BY Zenon, <2>1, NoneReaped DEF Born
    <3>3. procs[s].wait < 0 \/ procs[s].wait \in Slots
      BY <1>a DEF Proc
    <3>4. Live(s)
      BY Zenon, <1>l, <3>1 DEF Live
    <3>5. SamePark(procs[s], procs'[s])
      BY Zenon, <1>a, <3>1, UpdatesKeepPark
    <3> QED BY Zenon, <3>1, <3>2, <3>3, <3>4, <3>5, QuietWaiting DEF WInv
  <2> QED BY Zenon, <2>2, <2>3
<1>1. CASE AddRoot
  BY Zenon, <1>1, <1>v DEF AddRoot
<1>2. CASE Start \/ BeginSlice \/ Tick \/ Yield \/ UNCHANGED vars
  BY Zenon, <1>2, <1>f DEF Start, BeginSlice, Tick, Yield, vars
<1>3. CASE Call
  <2>0. pc = "slice"
    BY Zenon, <1>3 DEF Call, Spawn, SpawnFails, IoCompletes, SleepCompletes, Kill, WaitBad,
       WaitReaps, WaitParks, WaitsFor, IoParks, SleepParks, InCall
  <2>i. /\ i \in Slots /\ procs[i] \in Proc /\ procs[i].handle \in Nat
        /\ Live(i) /\ Waiting(i)
    BY Zenon, <1>a, <2>0 DEF SInv, TInv, CursorOK, Slotted, WInv, Proc
  <2>h. \A h \in Handles : h \in Nat
    BY Zenon, TableTypes
  <2>u. \A q : Becomes(i, q) => procs'[i] = q
    BY <2>i DEF Becomes, SInv, TInv, TypeOK
  \* A call completes.
  <2>c. ASSUME Becomes(i, CallDone(procs[i])), UNCHANGED <<slot_gen, nprocs, issued>>,
               procs[i].call # "wait" \/ procs[i].wait < 0
        PROVE  Waiting(s)'
    <3>1. CASE s = i
      BY <2>c, <2>i, <2>u, <3>1, CallDoneWaiting
    <3>2. CASE s # i
      BY Zenon, <1>u, <2>c, <2>i, <3>2, UpdatesEndure
    <3> QED BY SMTT(30), <3>1, <3>2
  <2>1. CASE Spawn
    BY <1>v, <2>1, <2>i DEF Spawn
  <2>2. CASE SpawnFails
    <3>1. nprocs' \in nprocs .. MaxProc
      BY SMTT(30), <2>2 DEF SpawnFails, Reject, Slots, SInv, TInv, TypeOK
    <3> QED BY <1>e, <2>2, <3>1 DEF SpawnFails, Reject
  <2>3. CASE IoCompletes
    BY <2>3, <2>c DEF IoCompletes, InCall
  <2>4. CASE SleepCompletes
    BY <2>4, <2>c DEF SleepCompletes, InCall
  <2>5. ASSUME NEW h \in Handles, Kill(h) PROVE Waiting(s)'
    <3>1. Child(h) \in Slots
      BY <2>0, <2>5, <2>h, ChildIsOther DEF Kill, SInv
    <3>2. CASE procs[Child(h)].done
      BY SMTT(30), <1>f, <2>5, <3>2 DEF Kill
    <3>3. CASE ~procs[Child(h)].done
      <4>1. /\ Endures(procs[Child(h)], Ended(procs[Child(h)], "killed"))
            /\ SamePark(procs[Child(h)], Ended(procs[Child(h)], "killed"))
        BY ZenonT(40), <1>a, <1>b, <3>1, <3>3, UpdatesEndure, UpdatesKeepPark
      <4> QED BY <1>u, <2>5, <3>1, <3>3, <4>1 DEF Kill
    <3> QED BY SMTT(30), <3>2, <3>3
  <2>6. ASSUME NEW h \in Handles, WaitBad(h) PROVE Waiting(s)'
    <3>1. ASSUME procs[i].call = "wait", procs[i].wait >= 0 PROVE FALSE
      <4> DEFINE w == procs[i].wait
      <4>0. w \in Slots
        BY SMTT(30), <2>i, <3>1 DEF Proc
      <4>1. /\ procs[w].used /\ procs[w].parent = procs[i].handle
            /\ procs[w].handle = procs[i].arg
        BY Zenon, <2>i, <3>1 DEF Waiting
      <4>2. h = procs[i].arg
        BY Zenon, <2>6, <3>1 DEF WaitBad, WaitsFor, InCall
      <4>3. proc_from_handle(h) = w
        BY <4>0, <4>1, <4>2, SlotOfHandle DEF SInv
      <4>4. w # -1
        BY <4>0 DEF Slots
      <4>5. Child(h) = w
        BY Zenon, <4>1, <4>3, <4>4 DEF Child
      <4> QED BY Zenon, <2>6, <4>4, <4>5 DEF WaitBad
    <3>2. procs[i].call # "wait" \/ procs[i].wait < 0
      BY <2>i, <3>1 DEF Proc, Slots
    <3> QED BY Zenon, <2>6, <2>c, <3>2 DEF WaitBad
  <2>7. ASSUME NEW h \in Handles, WaitReaps(h) PROVE Waiting(s)'
    <3> DEFINE c == Child(h)
               q == [CallDone(procs[i]) EXCEPT !.wait = -1]
    <3>1. c \in Slots \ {i}
      BY <2>0, <2>7, <2>h, ChildIsOther DEF WaitReaps, SInv
    <3>2. /\ procs' = [procs EXCEPT ![c] = NoProc, ![i] = q]
          /\ UNCHANGED <<nprocs, issued>>
      BY <2>7 DEF WaitReaps
    <3>3. /\ q.wait = -1 /\ q.gpark = procs[i].gpark /\ q.blocked = procs[i].blocked
      BY SMTT(30), <2>i DEF CallDone, Proc
    <3>4. ~procs[i].blocked
      BY SMTT(30), <2>0 DEF SInv, Slotted
    <3>g. ~procs[i].gpark
      BY <2>0, <2>i DEF ParkPending
    <3>5. CASE s = i
      <4>1. procs'[s] = q
        BY SMTT(30), <3>2, <3>5 DEF SInv, TInv, TypeOK
      <4> QED BY SMTT(30), <3>3, <3>4, <3>5, <3>g, <4>1 DEF Waiting
    <3>6. CASE s # i
      <4>1. s # c
        BY <1>l, <3>1, <3>2, <3>6 DEF SInv, TInv, TypeOK, NoProc
      <4>2. procs'[s] = procs[s]
        BY <3>2, <3>6, <4>1 DEF SInv, TInv, TypeOK
      <4>3. SamePark(procs[s], procs'[s]) /\ Live(s)
        BY Zenon, <1>a, <1>l, <4>2, UpdatesKeepPark DEF Live
      <4> QED BY <3>6, <4>2, <4>3, QuietWaiting DEF WInv
    <3> QED BY <3>5, <3>6
  \* A call parks: everyone else is left alone.
  <2>p. ASSUME NEW q, Parks(q), Endures(procs[i], q), s # i PROVE Waiting(s)'
    BY <1>u, <2>i, <2>p DEF Parks
  <2>8. ASSUME NEW h \in Handles, WaitParks(h) PROVE Waiting(s)'
    <3> DEFINE c == Child(h)
               q == [Parked(procs[i], "wait", h, -1, 0) EXCEPT !.wait = c]
    <3>1. /\ c \in Slots \ {i} /\ procs[c].used /\ procs[c].handle = h
          /\ procs[c].parent = procs[i].handle
      BY <2>0, <2>8, <2>h, ChildIsOther DEF WaitParks, SInv
    <3>2. Parks(q) /\ Endures(procs[i], q)
      BY Zenon, <2>8, <2>i, ParkedEndures DEF WaitParks
    <3>3. /\ q.wait = c /\ q.arg = h /\ q.call = "wait" /\ q.gfd = -1
          /\ q.gdeadline = 0 /\ q.blocked = procs[i].blocked
          /\ q.handle = procs[i].handle
      BY SMTT(30), <2>i DEF Parked, Proc
    <3>4. ~procs[i].blocked
      BY <2>0 DEF SInv, Slotted
    <3>5. CASE s = i
      <4> HIDE DEF c, q
      <4>1. procs'[s] = q /\ procs'[c] = procs[c]
        BY SMTT(30), <2>i, <3>1, <3>2, <3>5 DEF Parks, Becomes, SInv, TInv, TypeOK
      <4>2. c >= 0
        BY SMTT(30), <3>1 DEF Slots
      <4> QED BY ZenonT(60), <3>1, <3>3, <3>4, <4>1, <4>2 DEF Waiting, ParkedOn
    <3> QED BY <2>p, <3>2, <3>5
  \* A park on an fd or a deadline, with no wait pending.
  <2>q. ASSUME NEW op, NEW arg, NEW fd, NEW dl, fd # -1 \/ dl # 0,
               procs[i].call # "wait", Parks(Parked(procs[i], op, arg, fd, dl))
        PROVE  Waiting(s)'
    <3> DEFINE q == Parked(procs[i], op, arg, fd, dl)
    <3>1. Endures(procs[i], q)
      BY <2>i, ParkedEndures
    <3>2. /\ q.wait = procs[i].wait /\ q.gfd = fd /\ q.gdeadline = dl
          /\ q.blocked = procs[i].blocked
      BY SMTT(30), <2>i DEF Parked, Proc
    <3>3. procs[i].wait = -1 /\ ~procs[i].blocked
      <4>1. ~procs[i].blocked
        BY Zenon, <2>0 DEF SInv, Slotted
      <4>2. ~(procs[i].wait >= 0)
        BY Zenon, <2>i, <2>q DEF Waiting
      <4>3. procs[i].wait \in Slots \cup {-1}
        BY <2>i DEF Proc
      <4> QED BY <4>1, <4>2, <4>3 DEF Slots
    <3>4. CASE s = i
      <4> HIDE DEF q
      <4>1. procs'[s] = q
        BY Zenon, <2>q, <2>u, <3>4 DEF Parks, q
      <4>2. ~(q.wait >= 0)
        BY Zenon, <3>2, <3>3, WaitOrNone
      <4> QED BY Zenon, <2>q, <3>2, <3>3, <4>1, <4>2 DEF Waiting, ParkedOn
    <3> QED BY <2>p, <2>q, <3>1, <3>4
  <2>9. ASSUME NEW f \in Fds, IoParks(f) PROVE Waiting(s)'
    <3>1. f # -1
      BY SMTT(30)
    <3> QED BY <2>9, <2>q, <3>1 DEF IoParks, InCall
  <2>10. ASSUME NEW until \in 1 .. MaxTime, SleepParks(until) PROVE Waiting(s)'
    <3>1. until # 0
      OBVIOUS
    <3> QED BY <2>10, <2>q, <3>1 DEF SleepParks, InCall
  <2> QED
    BY SMTT(30), <1>3, <2>1, <2>2, <2>3, <2>4, <2>5, <2>6, <2>7, <2>8, <2>9, <2>10 DEF Call
<1>4. CASE Stop \/ OverBudget \/ HitLimit
  <2>1. i \in Slots /\ procs[i] \in Proc /\ ~procs[i].done
    <3>1. pc \in {"slice", "tail"}
      BY Zenon, <1>4 DEF Stop, OverBudget, HitLimit
    <3> QED BY Zenon, <1>a, <3>1 DEF SInv, TInv, CursorOK, Slotted, Live
  <2>2. \E c \in Causes : Becomes(i, Ended(procs[i], c))
    BY Zenon, <1>4, <1>b DEF Stop, OverBudget, HitLimit, SliceOver
  <2>3. UNCHANGED <<slot_gen, nprocs, issued>>
    BY <1>4 DEF Stop, OverBudget, HitLimit, SliceOver
  <2> QED BY Zenon, <1>u, <2>1, <2>2, <2>3, UpdatesEndure, UpdatesKeepPark
<1>5. CASE Reschedule
  <2>1. i \in Slots /\ procs[i] \in Proc /\ Waiting(i)
    BY <1>a, <1>5 DEF Reschedule, SInv, TInv, CursorOK, Slotted, WInv
  <2>2. UNCHANGED <<slot_gen, nprocs, issued>>
    BY <1>5 DEF Reschedule, SliceOver
  <2>3. CASE ~procs[i].gpark
    BY Zenon, <1>5, <1>u, <2>1, <2>2, <2>3, UpdatesEndure, UpdatesKeepPark
    DEF Reschedule, SliceOver
  <2>4. CASE procs[i].gpark
    <3> DEFINE q == Blocked(procs[i])
    <3>1. Becomes(i, q) /\ Endures(procs[i], q)
      BY ZenonT(40), <1>5, <2>1, <2>4, UpdatesEndure DEF Reschedule, SliceOver
    <3>2. CASE s # i
      BY SMTT(30), <1>u, <2>1, <2>2, <3>1, <3>2
    <3>3. CASE s = i
      <4>1. /\ q.wait = procs[i].wait /\ q.arg = procs[i].arg /\ q.call = procs[i].call
            /\ ~q.gpark /\ q.fd = procs[i].gfd /\ q.deadline = procs[i].gdeadline
            /\ q.handle = procs[i].handle
        BY <2>1 DEF Blocked, Proc
      <4> HIDE DEF q
      <4>2. procs'[s] = q
        BY SMTT(30), <2>1, <3>1, <3>3 DEF Becomes, SInv, TInv, TypeOK
      <4>3. Live(i)
        <5>1. pc = "tail"
          BY Zenon, <1>5 DEF Reschedule
        <5> QED BY <5>1 DEF SInv, Slotted
      <4>4. procs[i].wait >= 0 =>
              /\ procs'[procs[i].wait].used
              /\ procs'[procs[i].wait].parent = procs[i].handle
              /\ procs'[procs[i].wait].handle = procs[i].arg
        <5>1. pc # "slice"
          BY Zenon, <1>5 DEF Reschedule
        <5> QED BY Zenon, <2>1, <4>3, <5>1, ChildStays
      <4> QED BY Zenon, <2>1, <2>4, <3>3, <4>1, <4>2, <4>4 DEF Waiting
    <3> QED BY <3>2, <3>3
  <2> QED BY SMTT(30), <2>3, <2>4
<1>6. CASE EndRound
  <2>1. ~Orphan(s)
    BY <1>6, <1>l DEF EndRound, NoProc
  <2>2. procs'[s] = Kept(s)
    BY SMTT(30), <1>6, <2>1 DEF EndRound
  <2>3. SamePark(procs[s], procs'[s])
    <3>1. Zombified(s) \in Proc /\ SamePark(procs[s], Zombified(s))
      BY Zenon, <1>a, UpdateTypes, UpdatesKeepPark DEF Zombified
    <3>2. SamePark(Zombified(s), Kept(s))
      BY Zenon, <3>1, UpdatesKeepPark DEF Kept
    <3> QED BY ZenonT(40), <2>2, <3>1, <3>2 DEF SamePark
  <2>4. Aged
    BY SMTT(30), <1>6, StepKinds DEF EndRound, SInv
  <2> QED BY SMTT(30), <1>6, <1>d, <2>3, <2>4 DEF EndRound
<1>7. CASE PollReturns
  <2>1. Aged /\ pc # "slice"
    BY <1>7, StepKinds DEF PollReturns, Poll, SInv
  <2>2. SamePark(procs[s], procs'[s])
    BY Zenon, <1>7, <1>a, UpdatesKeepPark DEF PollReturns, Poll
  <2> QED BY SMTT(30), <1>d, <2>1, <2>2
<1>8. CASE Destroy
  <2>1. Aged /\ pc # "slice"
    BY <1>8, StepKinds DEF Destroy, SInv
  <2>2. SamePark(procs[s], procs'[s])
    <3>1. procs'[s] \in {procs[s], [procs[s] EXCEPT !.frees = @ + 1]}
      BY SMTT(30), <1>8 DEF Destroy
    <3> QED BY Zenon, <3>1, <1>a, UpdatesKeepPark
  <2> QED BY <1>d, <2>1, <2>2
<1> QED BY Zenon, <1>1, <1>2, <1>3, <1>4, <1>5, <1>6, <1>7, <1>8 DEF Next, Slice

PInv == SInv /\ ParkPending /\ WInv

LEMMA PInvariant == Spec => []PInv
<1>1. Init => ParkPending /\ WInv
  BY Zenon, EmptyIsFree DEF Init, ParkPending, WInv, Live
<1>2. PInv /\ [Next]_vars => PInv'
  BY TypeStep, SlottedStep, ParkPendingStep, WaitStep DEF SInv, PInv
<1>3. Init => PInv
  <2> SUFFICES ASSUME Init PROVE SInv
    BY <1>1 DEF PInv
  <2>1. Slotted
    BY DEF Init, Slotted, NoProc
  <2> QED BY <2>1, InitTypes DEF SInv
<1> QED BY <1>2, <1>3, PTL DEF Spec

\* A parked wait() always awaits a child of its own that is still in its slot
\* (do_wait, the wake loop of sched_step).
THEOREM WaitSlotStands == Spec => []WaitsOnOwnChild
<1>1. PInv => WaitsOnOwnChild
  BY DEF PInv, WInv, Waiting, WaitsOnOwnChild
<1> QED BY <1>1, PInvariant, PTL

\* Only the end of the awaited child resumes a parked wait() (poll_blocked
\* never does, since such a park has neither fd nor deadline).
THEOREM ChildWakesWaiter == Spec => WaiterWokenByChild
<1> DEFINE A == \A s \in Slots :
                  /\ Live(s) /\ procs[s].blocked /\ procs[s].wait >= 0
                  /\ ~procs'[s].blocked
                  => ~Live(procs[s].wait)
<1>1. PInv /\ [Next]_vars => A
  <2> SUFFICES ASSUME PInv, [Next]_vars, NEW s \in Slots, Live(s),
                      procs[s].blocked, procs[s].wait >= 0, ~procs'[s].blocked
               PROVE  ~Live(procs[s].wait)
    OBVIOUS
  <2>a. /\ \A t \in Slots : procs[t] \in Proc
        /\ pc \in {"slice", "tail"} => i \in Slots /\ i # s
    BY DEF PInv, SInv, TInv, TypeOK, CursorOK, Slotted
  <2>b. procs'[s] # procs[s]
    OBVIOUS
  <2>u. ASSUME NEW t \in Slots, NEW q, Becomes(t, q) PROVE t = s
    BY SMTT(30), <2>b, <2>u DEF Becomes, PInv, SInv, TInv, TypeOK
  <2>v. ASSUME NEW b \in Slots, NEW par, Build(b, par) PROVE FALSE
    BY <2>u, <2>v DEF Build, FreeSlot, Live
  <2>1. CASE AddRoot \/ Spawn
    BY SMTT(30), <2>1, <2>v DEF AddRoot, Spawn
  <2>2. CASE Start \/ BeginSlice \/ Tick \/ Yield \/ SpawnFails \/ UNCHANGED vars
    BY ZenonT(40), <2>2, <2>b DEF Start, BeginSlice, Tick, Yield, SpawnFails, Reject, vars
  <2>3. CASE IoCompletes \/ SleepCompletes \/ \E h \in Handles : WaitBad(h)
    BY Zenon, <2>3, <2>a, <2>u DEF IoCompletes, SleepCompletes, WaitBad, WaitsFor, InCall
  <2>4. ASSUME NEW h \in Handles, Kill(h) PROVE FALSE
    <3>1. h \in Nat
      BY SMTT(30) DEF Handles, PInv, SInv, TInv, TypeOK
    <3>2. Child(h) \in Slots
      BY <2>4, <3>1, ChildIsOther DEF Kill, InCall, PInv, SInv
    <3>3. Ended(procs[Child(h)], "killed").blocked = procs[Child(h)].blocked
      BY SMTT(30), <2>a, <3>2 DEF Ended, Proc
    <3>4. Becomes(Child(h), Ended(procs[Child(h)], "killed"))
      BY Zenon, <2>4, <2>b DEF Kill
    <3>5. Child(h) = s
      BY <2>u, <3>2, <3>4
    <3> QED BY SMTT(30), <3>3, <3>4, <3>5 DEF Becomes, PInv, SInv, TInv, TypeOK
  <2>5. ASSUME NEW h \in Handles, WaitReaps(h) PROVE FALSE
    <3> DEFINE q == [CallDone(procs[i]) EXCEPT !.wait = -1]
    <3>1. /\ pc = "slice" /\ procs[Child(h)].done
          /\ procs' = [procs EXCEPT ![Child(h)] = NoProc, ![i] = q]
      BY <2>5 DEF WaitReaps, WaitsFor, InCall
    <3> HIDE DEF q
    <3>2. s = Child(h)
      BY <2>a, <2>b, <3>1 DEF PInv, SInv, TInv, TypeOK
    <3> QED BY <3>1, <3>2 DEF Live
  <2>6. CASE \/ \E h \in Handles : WaitParks(h)
             \/ \E f \in Fds : IoParks(f)
             \/ \E until \in 1 .. MaxTime : SleepParks(until)
    BY ZenonT(40), <2>6, <2>a, <2>u DEF WaitParks, IoParks, SleepParks, Parks, WaitsFor, InCall
  <2>7. CASE Stop \/ OverBudget \/ HitLimit \/ Reschedule
    BY ZenonT(40), <2>7, <2>a, <2>u DEF Stop, OverBudget, HitLimit, Reschedule, SliceOver
  <2>8. CASE EndRound
    <3>1. procs'[s] = Kept(s)
      BY Zenon, <2>8 DEF EndRound, Orphan, Finished, Live
    <3>2. Zombified(s) = procs[s]
      BY SMTT(30) DEF Zombified, Finished, Live
    <3> QED BY <2>b, <3>1, <3>2 DEF Kept, WaitOver
  <2>9. CASE PollReturns
    <3>1. PICK ready \in SUBSET PollFds, t \in now .. MaxTime : Poll(ready, t)
      BY SMTT(30), <2>9 DEF PollReturns
    <3>2. procs[s].fd = -1 /\ procs[s].deadline = 0
      BY Zenon DEF PInv, WInv, Waiting, ParkedOn
    <3>3. ~Woken(procs[s], ready, t)
      BY <3>2 DEF Woken, PollFds
    <3> QED BY Zenon, <2>b, <3>1, <3>3 DEF Poll
  <2>10. CASE Destroy
    <3>1. [procs[s] EXCEPT !.frees = @ + 1].blocked = procs[s].blocked
      BY Zenon, <2>a DEF Proc
    <3> QED BY <2>10, <3>1 DEF Destroy
  <2> QED
    BY SMTT(30), <2>1, <2>2, <2>3, <2>4, <2>5, <2>6, <2>7, <2>8, <2>9, <2>10 DEF Next, Call, Slice
<1> QED BY <1>1, PInvariant, PTL DEF Spec, WaiterWokenByChild
=============================================================================
