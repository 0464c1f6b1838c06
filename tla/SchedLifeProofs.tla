-------------------------- MODULE SchedLifeProofs --------------------------
(***************************************************************************)
(* Theorems about Sched over whole lives of processes: what a handle names *)
(* after its slot was reused, why an idle round always has something to    *)
(* wait for, and that a finished run has freed everything once.            *)
(***************************************************************************)
EXTENDS SchedProofs

USE SchedAssumption

\* No slot is reused so often that its generation wraps round in the handle.
NoWrap == MaxBirths <= GenMod

(***************************************************************************)
(* Handles.  The n-th handle issued is that of some slot and generation;   *)
(* the generation is over, or the slot still holds the n-th process.       *)
(***************************************************************************)
Packed(t, g) == (t + 1) + 256 * g

IssuedBy(n, t, g) ==
  /\ issued[n] = Packed(t, g)
  /\ \/ g < slot_gen[t]
     \/ g = slot_gen[t] /\ procs[t].used /\ procs[t].id = n

History ==
  /\ Len(issued) <= MaxBirths
  /\ \A s \in Slots : /\ slot_gen[s] <= Len(issued)
                      /\ procs[s].used => slot_gen[s] < Len(issued)
                      /\ procs[s].used => issued[procs[s].id] = procs[s].handle
                      /\ procs[s].used /\ procs[s].parent # 0 =>
                           \E n \in 1 .. procs[s].id - 1 : issued[n] = procs[s].parent
  /\ \A n \in 1 .. Len(issued) : \E t \in Slots, g \in Nat : IssuedBy(n, t, g)

LEMMA SmallMod ==
  ASSUME NEW a \in Nat, NEW m \in Nat \ {0}, a < m
  PROVE  a % m = a
OBVIOUS

LEMMA HandlePacked ==
  ASSUME NoWrap, NEW t \in Slots, NEW g \in Nat, g < MaxBirths
  PROVE  PROC_HANDLE(t, g) = Packed(t, g)
<1>1. GenMod \in Nat \ {0} /\ g < GenMod
  BY DEF NoWrap
<1>2. g % GenMod = g
  BY Zenon, <1>1, SmallMod
<1> QED BY <1>2 DEF PROC_HANDLE, Packed

LEMMA PackedInjective ==
  ASSUME NEW t \in Slots, NEW u \in Slots, NEW g \in Nat, NEW k \in Nat,
         Packed(t, g) = Packed(u, k)
  PROVE  t = u /\ g = k
<1>1. t \in 0 .. 253 /\ u \in 0 .. 253
  BY DEF Slots
<1>2. (t + 1) + 256 * g = (u + 1) + 256 * k
  BY DEF Packed
<1> QED BY <1>1, <1>2

LEMMA HistoryStep == NoWrap /\ SInv /\ History /\ [Next]_vars => History'
<1> SUFFICES ASSUME NoWrap, SInv, History, [Next]_vars PROVE History'
  BY Zenon
<1>n. /\ Len(issued) \in Nat /\ issued \in Seq(Nat)
      /\ \A s \in Slots : slot_gen[s] \in Nat /\ procs[s] \in Proc
      /\ \A s \in Slots : procs[s].used => procs[s].id \in 1 .. Len(issued)
  BY DEF SInv, TInv, TypeOK, Slotted
<1>h. \A s \in Slots :
        /\ slot_gen[s] <= Len(issued)
        /\ procs[s].used => issued[procs[s].id] = procs[s].handle
        /\ procs[s].used /\ procs[s].parent # 0 =>
             \E n \in 1 .. procs[s].id - 1 : issued[n] = procs[s].parent
  BY Zenon DEF History
<1>1. CASE Aged
  <2>0. issued' = issued
    BY Zenon, <1>1 DEF Aged
  <2>1. ASSUME NEW s \in Slots
        PROVE  /\ slot_gen'[s] <= Len(issued')
               /\ procs'[s].used => slot_gen'[s] < Len(issued')
               /\ procs'[s].used => issued'[procs'[s].id] = procs'[s].handle
               /\ procs'[s].used /\ procs'[s].parent # 0 =>
                    \E n \in 1 .. procs'[s].id - 1 : issued'[n] = procs'[s].parent
    <3>1. CASE Endured(s)
      BY SMTT(30), <2>0, <3>1 DEF History, Endured, Endures
    <3>2. CASE Reaped(s)
      <4>1. ~procs'[s].used
        BY SMTT(30), <3>2 DEF Reaped, NoProc
      <4>2. slot_gen[s] < Len(issued) /\ slot_gen'[s] = slot_gen[s] + 1
        BY Zenon, <3>2 DEF Reaped, Finished, History
      <4> QED BY SMTT(30), <1>n, <2>0, <4>1, <4>2
    <3> QED BY Zenon, <1>1, <3>1, <3>2 DEF Aged
  <2>2. ASSUME NEW n \in 1 .. Len(issued)
        PROVE  \E t \in Slots, g \in Nat : IssuedBy(n, t, g)'
    <3>1. PICK t \in Slots, g \in Nat : IssuedBy(n, t, g)
      BY Zenon DEF History
    <3>2. CASE Endured(t)
      BY SMTT(30), <2>0, <3>1, <3>2 DEF IssuedBy, Endured, Endures
    <3>3. CASE Reaped(t)
      <4>1. g < slot_gen'[t]
        BY SMTT(30), <1>n, <3>1, <3>3 DEF IssuedBy, Reaped
      <4> QED BY Zenon, <2>0, <3>1, <4>1 DEF IssuedBy
    <3> QED BY Zenon, <1>1, <3>2, <3>3 DEF Aged
  <2> QED BY Zenon, <2>0, <2>1, <2>2 DEF History
<1>2. ASSUME NEW b \in Slots, NEW par \in Nat, Born(b, par),
             \/ par = 0
             \/ pc = "slice" /\ par = procs[i].handle,
             Len(issued) < MaxBirths
      PROVE  History'
  <2> DEFINE h == PROC_HANDLE(b, slot_gen[b])
             L == Len(issued) + 1
  <2>1. h = Packed(b, slot_gen[b]) /\ h \in Nat
    <3>1. slot_gen[b] < MaxBirths
      BY <1>2, <1>h, <1>n
    <3> QED BY Zenon, <1>n, <3>1, HandlePacked, HandleType
  <2>2. /\ Len(issued') = L /\ issued'[L] = h
        /\ \A n \in 1 .. Len(issued) : issued'[n] = issued[n]
    BY SMTT(30), <1>2, <1>n, <2>1 DEF Born
  <2>3. /\ slot_gen' = slot_gen
        /\ \A t \in Slots \ {b} : procs'[t] = procs[t]
        /\ ~procs[b].used
    BY Zenon, <1>2 DEF Born
  <2>4. /\ procs'[b].used /\ procs'[b].id = L /\ procs'[b].handle = h
        /\ procs'[b].parent = par
    BY SMTT(30), <1>2 DEF Born, NewProc, NoProc
  <2> HIDE DEF h
  <2>5. ASSUME NEW s \in Slots
        PROVE  /\ slot_gen'[s] <= Len(issued')
               /\ procs'[s].used => slot_gen'[s] < Len(issued')
               /\ procs'[s].used => issued'[procs'[s].id] = procs'[s].handle
               /\ procs'[s].used /\ procs'[s].parent # 0 =>
                    \E n \in 1 .. procs'[s].id - 1 : issued'[n] = procs'[s].parent
    <3>1. slot_gen'[s] <= Len(issued) /\ slot_gen'[s] < Len(issued')
      BY <1>n, <2>2, <2>3 DEF History
    <3>2. CASE s = b
      <4>1. ASSUME par # 0 PROVE \E n \in 1 .. Len(issued) : issued'[n] = par
        <5>1. i \in Slots /\ procs[i].used /\ par = procs[i].handle
          BY Zenon, <1>2, <4>1 DEF SInv, TInv, CursorOK, Slotted, Live
        <5>2. procs[i].id \in 1 .. Len(issued) /\ issued[procs[i].id] = par
          BY Zenon, <1>h, <1>n, <5>1
        <5> QED BY Zenon, <2>2, <5>2
      <4>2. procs'[s].id - 1 = Len(issued)
        BY SMTT(30), <1>n, <2>4, <3>2
      <4>3. procs'[s].parent # 0 =>
              \E n \in 1 .. procs'[s].id - 1 : issued'[n] = procs'[s].parent
        BY Zenon, <2>4, <3>2, <4>1, <4>2
      <4>4. issued'[procs'[s].id] = procs'[s].handle
        BY Zenon, <2>2, <2>4, <3>2
      <4>5. slot_gen'[s] <= Len(issued')
        BY SMTT(30), <1>n, <2>2, <2>3, <3>1
      <4> QED BY Zenon, <3>1, <4>3, <4>4, <4>5
    <3>3. CASE s # b
      <4>1. procs'[s] = procs[s]
        BY Zenon, <2>3, <3>3
      <4>2. ASSUME procs[s].used
            PROVE  issued'[procs[s].id] = procs[s].handle
        BY Zenon, <1>h, <1>n, <2>2, <4>2
      <4>3. ASSUME procs[s].used, procs[s].parent # 0
            PROVE  \E n \in 1 .. procs[s].id - 1 : issued'[n] = procs[s].parent
        <5>1. PICK n \in 1 .. procs[s].id - 1 : issued[n] = procs[s].parent
          BY Zenon, <1>h, <4>3
        <5>2. n \in 1 .. Len(issued)
          BY <1>n, <4>3
        <5> QED BY Zenon, <2>2, <5>1, <5>2
      <4>4. procs[s].used /\ procs[s].parent # 0 =>
              \E n \in 1 .. procs'[s].id - 1 : issued'[n] = procs'[s].parent
        BY SMTT(30), <4>1, <4>3
      <4>5. slot_gen'[s] <= Len(issued')
        BY <1>n, <2>2, <2>3, <3>1
      <4> QED BY SMTT(30), <3>1, <4>1, <4>2, <4>4, <4>5
    <3> QED BY Zenon, <3>2, <3>3
  <2>6. ASSUME NEW n \in 1 .. L PROVE \E t \in Slots, g \in Nat : IssuedBy(n, t, g)'
    <3>1. CASE n = L
      BY SMTT(30), <1>n, <2>1, <2>2, <2>3, <2>4, <3>1 DEF IssuedBy
    <3>2. CASE n # L
      <4>1. n \in 1 .. Len(issued)
        BY SMTT(30), <1>n, <3>2
      <4>2. PICK t \in Slots, g \in Nat : IssuedBy(n, t, g)
        BY Zenon, <4>1 DEF History
      <4>3. issued'[n] = Packed(t, g)
        BY SMTT(30), <2>2, <4>1, <4>2 DEF IssuedBy
      <4>4. CASE g < slot_gen[t]
        BY Zenon, <2>3, <4>3, <4>4 DEF IssuedBy
      <4>5. CASE g = slot_gen[t] /\ procs[t].used /\ procs[t].id = n
        <5>1. procs'[t] = procs[t]
          BY Zenon, <2>3, <4>5
        <5>2. slot_gen'[t] = slot_gen[t]
          BY Zenon, <2>3
        <5> QED BY Zenon, <4>3, <4>5, <5>1, <5>2 DEF IssuedBy
      <4> QED BY Zenon, <4>2, <4>4, <4>5 DEF IssuedBy
    <3> QED BY Zenon, <3>1, <3>2
  <2> QED BY SMTT(30), <1>2, <1>n, <2>2, <2>5, <2>6 DEF History
<1>3. ASSUME NEW b \in Slots, NEW par, Born(b, par) PROVE Len(issued) < MaxBirths
  <2>1. Len(issued') # Len(issued)
    <3>1. PROC_HANDLE(b, slot_gen[b]) \in Nat
      BY Zenon, <1>n, HandleType
    <3> QED BY <1>3, <1>n, <3>1 DEF Born
  <2>2. AddRoot \/ Spawn \/ issued' = issued
    BY Zenon DEF Next, Call, Slice, Start, BeginSlice, Tick, vars, SpawnFails, Reject,
       IoCompletes, SleepCompletes, Kill, WaitBad, WaitReaps, WaitParks, IoParks,
       SleepParks, Parks, Stop, Yield, OverBudget, HitLimit, Reschedule, SliceOver,
       EndRound, PollReturns, Poll, Destroy
  <2> QED BY Zenon, <2>1, <2>2 DEF AddRoot, Spawn, Build
<1> QED BY <1>1, <1>2, <1>3, StepKinds DEF SInv

LEMMA HistoryInvariant == NoWrap => (Spec => [](PInv /\ History))
<1> SUFFICES ASSUME NoWrap PROVE Spec => [](PInv /\ History)
  BY Zenon
<1>1. Init => PInv /\ History
  <2> SUFFICES ASSUME Init PROVE PInv /\ History
    BY Zenon
  <2>1. TInv
    BY Zenon, InitTypes
  <2>2. Slotted /\ ParkPending /\ WInv
    BY Zenon DEF Init, NoProc, Slotted, ParkPending, WInv, Live
  <2>3. Len(issued) = 0
    BY Zenon DEF Init
  <2>4. History
    BY <2>3 DEF Init, NoProc, History
  <2> QED BY Zenon, <2>1, <2>2, <2>4 DEF PInv, SInv
<1>2. PInv /\ History /\ [Next]_vars => (PInv /\ History)'
  BY SMTT(30), TypeStep, SlottedStep, ParkPendingStep, WaitStep, HistoryStep DEF SInv, PInv
<1> QED BY <1>1, <1>2, PTL DEF Spec

\* What History says of a handle that resolves.
LEMMA HandleResolves ==
  ASSUME NoWrap, SInv, History, NEW n \in 1 .. Len(issued), NEW s \in Slots,
         procs[s].used, procs[s].handle = issued[n]
  PROVE  procs[s].id = n
<1>1. PICK t \in Slots, g \in Nat : IssuedBy(n, t, g)
  BY Zenon DEF History
<1>2. slot_gen[s] \in Nat /\ slot_gen[t] \in Nat /\ Len(issued) \in Nat
  BY DEF SInv, TInv, TypeOK
<1>3. slot_gen[s] < MaxBirths
  BY SMTT(30), <1>2 DEF History
<1>4. Packed(t, g) = Packed(s, slot_gen[s])
  BY SMTT(30), <1>1, <1>2, <1>3, HandlePacked DEF SInv, Slotted, IssuedBy
<1>5. t = s /\ g = slot_gen[s]
  BY <1>2, <1>4, PackedInjective
<1> QED BY SMTT(30), <1>1, <1>2, <1>5 DEF IssuedBy

\* As long as generations do not wrap, a handle kept past its process' death
\* never resolves to another process (PROC_HANDLE, proc_from_handle).
THEOREM HandleNamesOne == NoWrap => (Spec => []HandleNamesOneProcess)
<1> SUFFICES ASSUME NoWrap PROVE Spec => []HandleNamesOneProcess
  BY Zenon
<1>1. PInv /\ History => HandleNamesOneProcess
  <2> SUFFICES ASSUME PInv, History, NEW n \in DOMAIN issued,
                      proc_from_handle(issued[n]) # -1
               PROVE  procs[proc_from_handle(issued[n])].id = n
    BY Zenon DEF HandleNamesOneProcess
  <2>1. n \in 1 .. Len(issued) /\ issued[n] \in Nat
    BY DEF PInv, SInv, TInv, TypeOK
  <2>2. /\ proc_from_handle(issued[n]) \in Slots
        /\ procs[proc_from_handle(issued[n])].used
        /\ procs[proc_from_handle(issued[n])].handle = issued[n]
    BY Zenon, <2>1, FromHandle DEF PInv, SInv, TInv
  <2> QED BY <2>1, <2>2, HandleResolves DEF PInv
<1> QED BY <1>1, HistoryInvariant, PTL

\* A parent is older than its child.
LEMMA ParentOlder ==
  ASSUME NoWrap, SInv, History, NEW p \in Slots, NEW c \in Slots,
         procs[p].used, procs[c].used, procs[c].parent = procs[p].handle
  PROVE  procs[p].id < procs[c].id
<1>1. procs[p].handle \in Nat /\ procs[p].handle # 0
  <2>1. procs[p].handle % 256 = p + 1 /\ procs[p].handle \in Nat
    BY SlotOfHandle DEF SInv
  <2> QED BY <2>1 DEF Slots
<1>2. PICK n \in 1 .. procs[c].id - 1 : issued[n] = procs[c].parent
  BY Zenon, <1>1 DEF History
<1>3. procs[c].id \in 1 .. Len(issued) /\ Len(issued) \in Nat
  BY DEF SInv, TInv, TypeOK, Slotted
<1>4. n \in 1 .. Len(issued) /\ n < procs[c].id
  BY <1>2, <1>3
<1>5. procs[p].id = n
  BY <1>2, <1>4, HandleResolves
<1> QED BY Zenon, <1>4, <1>5
-----------------------------------------------------------------------------
(***************************************************************************)
(* Idle rounds.  When nothing has run since the last poll, every waiter    *)
(* still has a live child, because the end of the round before woke the    *)
(* others and nobody could finish since.                                   *)
(***************************************************************************)
Idle == pc = "poll" \/ (pc = "step" /\ ~ran)

RoundInv ==
  /\ pc = "boot" => \A s \in Slots : ~procs[s].blocked
  /\ Idle => i = 0
  /\ Idle => \A s \in Slots :
               Live(s) /\ procs[s].blocked /\ procs[s].wait >= 0 => Live(procs[s].wait)
  /\ pc = "poll" /\ ~ran => \A s \in Slots : Live(s) => procs[s].blocked
  /\ pc = "poll" => \E s \in Slots : Live(s)

\* Steps after which the host thread is neither booting nor idle.
LEMMA BusySteps ==
  ASSUME SInv, [Next]_vars,
         ~(AddRoot \/ Start \/ EndRound \/ PollReturns \/ UNCHANGED vars)
  PROVE  pc' # "boot" /\ ~Idle'
<1>i. ran' = TRUE => ran'
  BY Zenon
<1>1. CASE BeginSlice \/ Tick \/ Yield \/ HitLimit \/ Destroy
  BY Zenon, <1>1 DEF BeginSlice, Tick, Yield, HitLimit, Destroy, Idle
<1>2. CASE Call
  BY Zenon, <1>2 DEF Call, Spawn, SpawnFails, IoCompletes, SleepCompletes, Kill, WaitBad,
     WaitReaps, WaitParks, WaitsFor, IoParks, SleepParks, InCall, CallReturns, Parks,
     Idle
<1>3. CASE Stop \/ OverBudget \/ Reschedule
  BY Zenon, <1>3, <1>i DEF Stop, OverBudget, Reschedule, SliceOver, Idle
<1> QED BY Zenon, <1>1, <1>2, <1>3 DEF Next, Slice

LEMMA RoundStep == SInv /\ RoundInv /\ [Next]_vars => RoundInv'
<1> SUFFICES ASSUME SInv, RoundInv, [Next]_vars PROVE RoundInv'
  BY Zenon
<1>a. \A s \in Slots : procs[s] \in Proc
  BY Zenon DEF SInv, TInv, TypeOK
<1>u. \A p \in Proc : /\ Unblocked(p).used = p.used /\ Unblocked(p).done = p.done
                      /\ Unblocked(p).wait = p.wait /\ ~Unblocked(p).blocked
  BY Zenon DEF Unblocked, Proc
<1>1. CASE AddRoot
  <2>1. PICK b \in Slots : Build(b, 0)
    BY Zenon, <1>1 DEF AddRoot
  <2>2. ~NewProc(b, 0).blocked
    BY Zenon DEF NewProc, NoProc
  <2>3. ASSUME NEW s \in Slots PROVE ~procs'[s].blocked
    BY Zenon, <1>1, <2>1, <2>2 DEF AddRoot, RoundInv, Build, Becomes, SInv, TInv, TypeOK
  <2> QED BY Zenon, <1>1, <2>3 DEF AddRoot, RoundInv, Idle
<1>2. CASE Start
  BY Zenon, <1>2 DEF Start, RoundInv, Idle
<1>3. CASE EndRound
  <2>1. ASSUME NEW s \in Slots, Live(s)
        PROVE  /\ procs'[s].used /\ ~procs'[s].done
               /\ procs'[s].wait = procs[s].wait
               /\ procs'[s].blocked => procs[s].blocked /\ ~WaitOver(s)
               /\ procs[s].blocked /\ ~WaitOver(s) => procs'[s].blocked
    <3>1. procs'[s] = Kept(s)
      BY Zenon, <1>3, <2>1 DEF EndRound, Orphan, Finished, Live
    <3>2. Zombified(s) = procs[s]
      BY Zenon, <2>1 DEF Zombified, Finished, Live
    <3>3. CASE WaitOver(s)
      BY SMTT(30), <1>a, <1>u, <2>1, <3>1, <3>2, <3>3 DEF Kept, Live
    <3>4. CASE ~WaitOver(s)
      BY SMTT(30), <2>1, <3>1, <3>2, <3>4 DEF Kept, Live
    <3> QED BY Zenon, <3>3, <3>4
  <2>2. ASSUME NEW s \in Slots, Live(s)' PROVE Live(s)
    <3>1. Aged
      BY Zenon, <1>3, StepKinds DEF EndRound, SInv
    <3>2. Endured(s)
      <4>1. ~NoProc.used /\ procs'[s].used
        BY Zenon, <2>2 DEF NoProc, Live
      <4> QED BY Zenon, <3>1, <4>1 DEF Aged, Reaped
    <3> QED BY SMTT(30), <1>a, <2>2, <3>2 DEF Endured, Endures, Live, Proc
  <2>3. ASSUME NEW s \in Slots, Live(s)', procs'[s].blocked, procs'[s].wait >= 0
        PROVE  procs'[procs'[s].wait].used /\ ~procs'[procs'[s].wait].done
    <3>1. Live(s) /\ procs[s].blocked /\ procs[s].wait >= 0 /\ ~WaitOver(s)
      BY Zenon, <1>a, <2>1, <2>2, <2>3 DEF Proc
    <3>2. procs[s].wait \in Slots /\ Live(procs[s].wait)
      BY <1>a, <3>1 DEF WaitOver, Proc, Slots
    <3> QED BY Zenon, <2>1, <3>1, <3>2 DEF Live
  <2>4. ASSUME ~ran', NEW s \in Slots, Live(s)' PROVE procs'[s].blocked
    <3>1. Idle /\ i = 0 /\ Live(s)
      BY Zenon, <1>3, <2>2, <2>4 DEF EndRound, Idle, RoundInv
    <3>2. s \in i .. nprocs - 1
      BY <3>1 DEF SInv, Slotted, TInv, TypeOK, Slots, Live
    <3>3. procs[s].blocked
      BY Zenon, <1>3, <3>1, <3>2 DEF EndRound, Runnable
    <3>4. ~WaitOver(s)
      BY Zenon, <3>1, <3>3 DEF RoundInv, WaitOver
    <3> QED BY Zenon, <2>1, <3>1, <3>3, <3>4
  <2>5. pc' = "poll" => \E s \in Slots : Live(s)'
    BY Zenon, <1>3, <2>1 DEF EndRound, Live
  <2>6. pc' # "boot" /\ i' = 0
    BY Zenon, <1>3 DEF EndRound
  <2>7. Idle' => \A s \in Slots :
          Live(s)' /\ procs'[s].blocked /\ procs'[s].wait >= 0
          => procs'[procs'[s].wait].used /\ ~procs'[procs'[s].wait].done
    BY Zenon, <2>3
  <2> QED BY SMTT(30), <2>4, <2>5, <2>6, <2>7 DEF RoundInv, Live
<1>4. CASE PollReturns
  <2>1. ASSUME NEW s \in Slots
        PROVE  /\ procs'[s].used = procs[s].used /\ procs'[s].done = procs[s].done
               /\ procs'[s].wait = procs[s].wait
               /\ procs'[s].blocked => procs[s].blocked
    BY <1>4, <1>a, <1>u DEF PollReturns, Poll
  <2>2. pc = "poll" /\ pc' = "step" /\ i' = i
    BY Zenon, <1>4 DEF PollReturns, Poll
  <2>3. ASSUME NEW s \in Slots, Live(s)', procs'[s].blocked, procs'[s].wait >= 0
        PROVE  procs'[procs'[s].wait].used /\ ~procs'[procs'[s].wait].done
    <3>1. Live(procs[s].wait) /\ procs[s].wait \in Slots
      BY SMTT(30), <1>a, <2>1, <2>2, <2>3 DEF RoundInv, Idle, Live, Proc, Slots
    <3> QED BY SMTT(30), <2>1, <3>1 DEF Live
  <2>4. Idle' => \A s \in Slots :
          Live(s)' /\ procs'[s].blocked /\ procs'[s].wait >= 0
          => procs'[procs'[s].wait].used /\ ~procs'[procs'[s].wait].done
    BY <2>3
  <2>5. i = 0
    BY Zenon, <2>2 DEF RoundInv, Idle
  <2> QED BY Zenon, <2>2, <2>4, <2>5 DEF RoundInv, Live
<1>5. CASE UNCHANGED vars
  <2>1. procs' = procs /\ pc' = pc /\ i' = i /\ ran' = ran
    BY Zenon, <1>5 DEF vars
  <2> QED BY ZenonT(60), <2>1 DEF RoundInv, Idle, Live
<1>6. CASE ~(AddRoot \/ Start \/ EndRound \/ PollReturns \/ UNCHANGED vars)
  <2>1. pc' # "boot" /\ ~Idle'
    BY Zenon, <1>6, BusySteps
  <2> QED BY Zenon, <2>1 DEF RoundInv, Idle
<1> QED BY <1>1, <1>2, <1>3, <1>4, <1>5, <1>6

LEMMA RoundInvariant == NoWrap => (Spec => [](PInv /\ History /\ RoundInv))
<1> SUFFICES ASSUME NoWrap PROVE Spec => [](PInv /\ History /\ RoundInv)
  BY Zenon
<1>1. Init => RoundInv
  BY DEF Init, NoProc, RoundInv, Idle
<1>2. PInv /\ RoundInv /\ [Next]_vars => RoundInv'
  BY Zenon, RoundStep DEF PInv
<1> QED BY <1>1, <1>2, HistoryInvariant, PTL DEF Spec

LOCAL INSTANCE WellFoundedInduction

\* Among the live processes one is the youngest.
LEMMA YoungestLive ==
  ASSUME SInv, History, NEW l \in Slots, Live(l)
  PROVE  \E s \in Slots : Live(s) /\ \A t \in Slots : Live(t) => procs[t].id <= procs[s].id
<1> DEFINE Age(s) == MaxBirths - procs[s].id
           Ages == {Age(s) : s \in {u \in Slots : Live(u)}}
<1>1. ASSUME NEW s \in Slots, Live(s) PROVE procs[s].id \in Nat /\ Age(s) \in Nat
  <2>1. procs[s].id \in 1 .. Len(issued) /\ Len(issued) \in Nat
    BY <1>1 DEF SInv, TInv, TypeOK, Slotted, Live
  <2>2. Len(issued) <= MaxBirths
    BY Zenon DEF History
  <2> QED BY SMTT(30), <2>1, <2>2
<1>2. Ages \subseteq Nat /\ Ages # {}
  BY <1>1
<1>3. PICK m \in Ages : \A y \in Ages : ~(<<y, m>> \in OpToRel(<, Nat))
  <2> HIDE DEF Ages
  <2> QED BY Zenon, <1>2, NatLessThanWellFounded, WFMin
<1>4. PICK s \in Slots : Live(s) /\ m = Age(s)
  BY Zenon, <1>3
<1>5. ASSUME NEW t \in Slots, Live(t) PROVE procs[t].id <= procs[s].id
  <2>1. Age(t) \in Ages /\ Age(t) \in Nat /\ m \in Nat
    BY Zenon, <1>1, <1>4, <1>5
  <2>2. ~(<<Age(t), m>> \in OpToRel(<, Nat))
    BY Zenon, <1>3, <2>1
  <2>3. ~(Age(t) < m)
    BY Zenon, <2>1, <2>2 DEF OpToRel
  <2> QED BY SMTT(30), <1>1, <1>4, <1>5, <2>3
<1> QED BY Zenon, <1>4, <1>5

\* As long as generations do not wrap, a round in which nothing ran ends with
\* an fd or a deadline to wait for: waits follow the tree of processes down,
\* so the youngest live process waits for something else (sched_step,
\* poll_blocked).
THEOREM IdleHasWakeup == NoWrap => (Spec => []IdleRoundHasWakeup)
<1> SUFFICES ASSUME NoWrap PROVE Spec => []IdleRoundHasWakeup
  OBVIOUS
<1>1. PInv /\ History /\ RoundInv => IdleRoundHasWakeup
  <2> SUFFICES ASSUME PInv, History, RoundInv, pc = "poll", ~ran
               PROVE  PollFds # {} \/ Deadlines # {}
    BY Zenon DEF IdleRoundHasWakeup
  <2>1. PICK l \in Slots : Live(l)
    BY Zenon DEF RoundInv
  <2>2. PICK s \in Slots : Live(s) /\ \A t \in Slots : Live(t) => procs[t].id <= procs[s].id
    BY Zenon, <2>1, YoungestLive DEF PInv
  <2>3. procs[s].blocked /\ Waiting(s)
    BY Zenon, <2>2 DEF RoundInv, PInv, WInv
  <2>4. procs[s] \in Proc
    BY SMTT(30) DEF PInv, SInv, TInv, TypeOK
  <2>5. CASE procs[s].wait >= 0
    <3> DEFINE c == procs[s].wait
    <3>1. c \in Slots /\ Live(c)
      BY SMTT(30), <2>2, <2>3, <2>4, <2>5 DEF RoundInv, Idle, Proc, Slots
    <3>2. procs[c].parent = procs[s].handle
      BY Zenon, <2>3, <2>5 DEF Waiting
    <3>3. procs[s].id < procs[c].id
      BY SMTT(30), <2>2, <3>1, <3>2, ParentOlder DEF PInv, Live
    <3>4. procs[c].id <= procs[s].id
      BY Zenon, <2>2, <3>1
    <3>5. procs[c].id \in Nat /\ procs[s].id \in Nat
      BY SMTT(30), <3>1 DEF PInv, SInv, TInv, TypeOK, Proc
    <3> QED BY SMTT(30), <3>3, <3>4, <3>5
  <2>6. CASE ~(procs[s].wait >= 0)
    <3>1. procs[s].fd # -1 \/ procs[s].deadline # 0
      BY SMTT(30), <2>3, <2>6 DEF Waiting, ParkedOn
    <3>2. s \in IoParked
      BY Zenon, <2>2, <2>3 DEF IoParked
    <3> QED BY SMTT(30), <3>1, <3>2 DEF PollFds, Deadlines
  <2> QED BY Zenon, <2>5, <2>6
<1> QED BY <1>1, RoundInvariant, PTL
-----------------------------------------------------------------------------
(***************************************************************************)
(* Freeing.  Until sched_destroy the zombie flag counts the frees; a run   *)
(* that was not cut short by the limit has no zombie left to free again.   *)
(***************************************************************************)
Counted(p) ==
  /\ p.zombie => p.used /\ p.frees = 1
  /\ ~p.zombie => p.frees = 0

FreeInv ==
  /\ pc # "freed" => \A s \in Slots : Counted(procs[s])
  /\ ~procs[0].zombie
  /\ limited => Limit
  /\ pc = "freed" /\ ~limited => FreedOnce
  /\ AllRetired

LEMMA UpdatesCount ==
  ASSUME NEW p \in Proc, Counted(p)
  PROVE  /\ \A c \in Causes : /\ Counted(Ended(p, c))
                              /\ Ended(p, c).zombie => p.zombie
         /\ Counted(CallDone(p)) /\ (CallDone(p).zombie => p.zombie)
         /\ Counted([CallDone(p) EXCEPT !.wait = -1])
         /\ [CallDone(p) EXCEPT !.wait = -1].zombie => p.zombie
         /\ Counted(Unblocked(p)) /\ (Unblocked(p).zombie => p.zombie)
         /\ Counted(Blocked(p)) /\ (Blocked(p).zombie => p.zombie)
         /\ p.used => Counted(FreeResources(p))
         /\ Counted(NoProc) /\ ~NoProc.zombie
         /\ \A op \in PendingCalls, a \in Nat, fd \in Fds \cup {-1}, dl \in Nat :
              /\ Counted(Parked(p, op, a, fd, dl))
              /\ Parked(p, op, a, fd, dl).zombie => p.zombie
              /\ \A w \in Slots \cup {-1} :
                   /\ Counted([Parked(p, op, a, fd, dl) EXCEPT !.wait = w])
                   /\ [Parked(p, op, a, fd, dl) EXCEPT !.wait = w].zombie => p.zombie
BY SMTT(30) DEF Counted, Ended, CallDone, Unblocked, Blocked, FreeResources, NoProc, Parked, Proc

\* Every step but the end of a round and the end of the run.
LEMMA CountKept ==
  ASSUME SInv, FreeInv, [Next]_vars, pc # "freed", ~EndRound, ~Destroy
  PROVE  \A s \in Slots : Counted(procs'[s]) /\ (procs'[s].zombie => procs[s].zombie)
<1> DEFINE Good == \A s \in Slots : Counted(procs'[s]) /\ (procs'[s].zombie => procs[s].zombie)
<1> SUFFICES Good
  OBVIOUS
<1>a. \A s \in Slots : procs[s] \in Proc /\ Counted(procs[s])
  BY DEF SInv, TInv, TypeOK, FreeInv
<1>p. procs \in [Slots -> Proc]
  BY Zenon DEF SInv, TInv, TypeOK
<1>b. "none" \in Causes /\ "fault" \in Causes /\ "budget" \in Causes
      /\ "limit" \in Causes /\ "killed" \in Causes
  BY Zenon DEF Causes
<1>c. "wait" \in PendingCalls /\ "io" \in PendingCalls /\ "sleep" \in PendingCalls
  BY Zenon DEF PendingCalls
<1>0. CASE UNCHANGED procs
  BY SMTT(30), <1>0, <1>a
<1>1. ASSUME NEW x \in Slots, NEW q, Becomes(x, q), Counted(q), q.zombie => procs[x].zombie
      PROVE  Good
  BY SMTT(30), <1>1, <1>a, <1>p DEF Becomes
<1> HIDE DEF Good
<1>i. pc \in {"slice", "tail"} => i \in Slots
  BY Zenon DEF SInv, TInv, CursorOK
<1>2. ASSUME pc = "slice", Becomes(i, CallDone(procs[i])) PROVE Good
  BY ZenonT(40), <1>1, <1>2, <1>a, <1>i, UpdatesCount
<1>3. ASSUME NEW c \in Causes, pc \in {"slice", "tail"}, Becomes(i, Ended(procs[i], c)) PROVE Good
  <2> DEFINE q == Ended(procs[i], c)
  <2>1. i \in Slots /\ Counted(q) /\ (q.zombie => procs[i].zombie)
    BY Zenon, <1>3, <1>a, <1>i, UpdatesCount
  <2> HIDE DEF q
  <2>2. Becomes(i, q)
    BY Zenon, <1>3 DEF q
  <2> QED BY Zenon, <1>1, <2>1, <2>2
<1>4. ASSUME NEW s \in Slots, NEW par \in Nat, Build(s, par) PROVE Good
  <2>1. Counted(NewProc(s, par)) /\ ~NewProc(s, par).zombie
    BY Zenon DEF NewProc, NoProc, Counted
  <2> QED BY <1>1, <1>4, <2>1 DEF Build
<1>5. CASE AddRoot
  BY SMTT(30), <1>4, <1>5 DEF AddRoot
<1>6. CASE Call
  <2>1. CASE Spawn
    <3>1. procs[i].handle \in Nat
      BY SMTT(30), <2>1, <1>a, <1>i DEF Spawn, InCall, Proc
    <3> QED BY SMTT(30), <1>4, <2>1, <3>1 DEF Spawn
  <2>2. CASE SpawnFails
    BY SMTT(30), <1>0, <2>2 DEF SpawnFails, Reject
  <2>3. CASE IoCompletes \/ SleepCompletes
    BY SMTT(30), <1>2, <2>3 DEF IoCompletes, SleepCompletes, InCall
  <2>4. ASSUME NEW h \in Handles, Kill(h) \/ WaitBad(h) \/ WaitReaps(h) \/ WaitParks(h)
        PROVE  Good
    <3>0. pc = "slice"
      BY Zenon, <2>4 DEF Kill, WaitBad, WaitReaps, WaitParks, WaitsFor, InCall
    <3>1. h \in Nat /\ pc = "slice" /\ i \in Slots
      BY SMTT(30), <1>i, <3>0 DEF Handles, SInv, TInv, TypeOK
    <3>2. Child(h) = -1 \/ Child(h) \in Slots
      BY Zenon, <3>1, ChildSlot DEF SInv, TInv
    <3>3. CASE Kill(h)
      <4>1. CASE procs[Child(h)].done
        BY Zenon, <1>0, <3>3, <4>1 DEF Kill
      <4>2. CASE ~procs[Child(h)].done
        <5>1. Child(h) \in Slots /\ Becomes(Child(h), Ended(procs[Child(h)], "killed"))
          BY <3>2, <3>3, <4>2 DEF Kill
        <5> DEFINE q == Ended(procs[Child(h)], "killed")
        <5>2. Counted(q) /\ (q.zombie => procs[Child(h)].zombie)
          BY Zenon, <1>a, <1>b, <5>1, UpdatesCount
        <5> HIDE DEF q
        <5>3. Becomes(Child(h), q)
          BY Zenon, <5>1 DEF q
        <5> QED BY SMTT(30), <1>1, <5>1, <5>2, <5>3
      <4> QED BY SMTT(30), <4>1, <4>2
    <3>4. CASE WaitBad(h)
      BY SMTT(30), <1>2, <3>1, <3>4 DEF WaitBad
    <3>5. CASE WaitReaps(h)
      <4> DEFINE q == [CallDone(procs[i]) EXCEPT !.wait = -1]
      <4>1. procs' = [procs EXCEPT ![Child(h)] = NoProc, ![i] = q]
        BY Zenon, <3>5 DEF WaitReaps
      <4>2. Counted(q) /\ (q.zombie => procs[i].zombie) /\ Counted(NoProc) /\ ~NoProc.zombie
        BY Zenon, <1>a, <3>1, UpdatesCount
      <4> HIDE DEF q
      <4> QED BY Zenon, <1>a, <1>p, <3>1, <3>2, <4>1, <4>2 DEF Good
    <3>6. CASE WaitParks(h)
      <4> DEFINE q == [Parked(procs[i], "wait", h, -1, 0) EXCEPT !.wait = Child(h)]
      <4>1. Becomes(i, q)
        BY Zenon, <3>6 DEF WaitParks, Parks
      <4>2. Counted(q) /\ (q.zombie => procs[i].zombie)
        BY Zenon, <1>a, <1>c, <3>1, <3>2, UpdatesCount
      <4> HIDE DEF q
      <4> QED BY SMTT(30), <1>1, <3>1, <4>1, <4>2
    <3> QED BY SMTT(30), <2>4, <3>3, <3>4, <3>5, <3>6
  <2>5. ASSUME NEW f \in Fds, IoParks(f) PROVE Good
    <3> DEFINE q == Parked(procs[i], "io", f, f, procs[i].gdeadline)
    <3>1. Becomes(i, q) /\ i \in Slots
      BY Zenon, <2>5, <1>i DEF IoParks, Parks, InCall
    <3>2. f \in Nat /\ procs[i].gdeadline \in Nat
      BY Zenon, <1>a, <3>1 DEF Proc
    <3>3. Counted(q) /\ (q.zombie => procs[i].zombie)
      BY ZenonT(30), <1>a, <1>c, <3>1, <3>2, UpdatesCount
    <3> HIDE DEF q
    <3> QED BY Zenon, <1>1, <3>1, <3>3
  <2>6. ASSUME NEW until \in 1 .. MaxTime, SleepParks(until) PROVE Good
    <3> DEFINE q == Parked(procs[i], "sleep", until, -1, until)
    <3>1. Becomes(i, q) /\ i \in Slots
      BY SMTT(30), <2>6, <1>i DEF SleepParks, Parks, InCall
    <3>u. until \in Nat
      OBVIOUS
    <3>2. Counted(q) /\ (q.zombie => procs[i].zombie)
      BY Zenon, <1>a, <1>c, <3>1, <3>u, UpdatesCount
    <3> HIDE DEF q
    <3> QED BY Zenon, <1>1, <3>1, <3>2
  <2> QED BY SMTT(30), <1>6, <2>1, <2>2, <2>3, <2>4, <2>5, <2>6 DEF Call
<1>7. CASE Start \/ BeginSlice \/ Tick \/ Yield
  BY SMTT(30), <1>0, <1>7 DEF Start, BeginSlice, Tick, Yield
<1>8. CASE Stop \/ OverBudget \/ HitLimit
  BY SMTT(30), <1>3, <1>8, <1>b DEF Stop, OverBudget, HitLimit, SliceOver
<1>9. CASE Reschedule
  <2>1. i \in Slots
    BY Zenon, <1>9, <1>i DEF Reschedule
  <2>2. CASE procs[i].gpark
    <3>1. Becomes(i, Blocked(procs[i]))
      BY <1>9, <2>2 DEF Reschedule, SliceOver
    <3> QED BY ZenonT(40), <1>1, <1>a, <2>1, <3>1, UpdatesCount
  <2>3. CASE ~procs[i].gpark
    <3>1. Becomes(i, procs[i])
      BY <1>9, <2>3 DEF Reschedule, SliceOver
    <3> QED BY <1>1, <1>a, <2>1, <3>1
  <2> QED BY Zenon, <2>2, <2>3
<1>10. CASE PollReturns
  <2>1. PICK ready, t : Poll(ready, t)
    BY Zenon, <1>10 DEF PollReturns
  <2>2. ASSUME NEW s \in Slots PROVE procs'[s] = Unblocked(procs[s]) \/ procs'[s] = procs[s]
    BY Zenon, <2>1 DEF Poll
  <2>3. ASSUME NEW s \in Slots
        PROVE  Counted(procs'[s]) /\ (procs'[s].zombie => procs[s].zombie)
    <3>1. CASE procs'[s] = procs[s]
      BY Zenon, <1>a, <3>1
    <3>2. CASE procs'[s] = Unblocked(procs[s])
      <4>1. Counted(Unblocked(procs[s])) /\ (Unblocked(procs[s]).zombie => procs[s].zombie)
        BY Zenon, <1>a, UpdatesCount
      <4> QED BY <3>2, <4>1
    <3> QED BY <2>2, <3>1, <3>2
  <2> QED BY <2>3 DEF Good
<1>11. CASE UNCHANGED vars
  BY Zenon, <1>0, <1>11 DEF vars
<1> QED BY ZenonT(30), <1>5, <1>6, <1>7, <1>8, <1>9, <1>10, <1>11 DEF Next, Slice

\* The bookkeeping that ends the last round reaps every finished process: its
\* parent, if it still has one, is finished too.
LEMMA LastRoundReaps ==
  ASSUME SInv, \A s \in Slots : ~Live(s), NEW c \in Slots \ {0}, procs[c].used
  PROVE  Orphan(c)
<1>1. Finished(c) /\ c # 0
  BY Zenon DEF Finished, Live
<1>2. procs[c].parent \in Nat
  BY DEF SInv, TInv, TypeOK, Proc
<1> DEFINE par == proc_from_handle(procs[c].parent)
<1>3. par = -1 \/ (par \in Slots /\ procs[par].used)
  BY <1>2, FromHandle DEF SInv, TInv
<1>4. par = -1 \/ procs[par].done
  BY Zenon, <1>3 DEF Live
<1> QED BY Zenon, <1>1, <1>4 DEF Orphan

LEMMA FreeStep == SInv /\ FreeInv /\ [Next]_vars => FreeInv'
<1> SUFFICES ASSUME SInv, FreeInv, [Next]_vars PROVE FreeInv'
  OBVIOUS
<1>a. \A s \in Slots : procs[s] \in Proc
  BY DEF SInv, TInv, TypeOK
<1>z. 0 \in Slots
  BY SMTT(30) DEF Slots
<1>1. CASE EndRound
  <2>0. pc = "step" /\ pc' # "freed" /\ limited' = limited
    BY Zenon, <1>1 DEF EndRound
  <2>1. ASSUME NEW s \in Slots PROVE Counted(procs'[s])
    <3>1. Counted(NoProc)
      BY Zenon DEF NoProc, Counted
    <3>2. Counted(procs[s])
      BY <2>0 DEF FreeInv
    <3>3. Counted(Zombified(s)) /\ Zombified(s) \in Proc
      BY Zenon, <1>a, <3>2, UpdatesCount, UpdateTypes DEF Zombified, Finished
    <3>4. Counted(Kept(s))
      BY Zenon, <3>3, UpdatesCount DEF Kept
    <3> QED BY Zenon, <1>1, <3>1, <3>4 DEF EndRound
  <2>2. ~procs'[0].zombie
    <3>1. procs'[0] = Kept(0) /\ Zombified(0) = procs[0]
      BY <1>1, <1>z DEF EndRound, Orphan, Zombified
    <3>2. ~procs[0].zombie /\ procs[0] \in Proc
      BY Zenon, <1>a, <1>z DEF FreeInv
    <3> QED BY SMTT(30), <3>1, <3>2 DEF Kept, Unblocked, Proc
  <2>3. ASSUME pc' = "over", NEW c \in Slots \ {0} PROVE ~procs'[c].used
    <3>1. \A s \in Slots : ~Live(s)
      BY Zenon, <1>1, <2>3 DEF EndRound
    <3>2. CASE procs[c].used
      <4>1. Orphan(c)
        BY Zenon, <3>1, <3>2, LastRoundReaps
      <4>2. procs' = [s \in Slots |-> IF Orphan(s) THEN NoProc ELSE Kept(s)]
        BY Zenon, <1>1 DEF EndRound
      <4>3. procs'[c] = NoProc
        BY Zenon, <4>1, <4>2
      <4>4. ~NoProc.used
        BY Zenon DEF NoProc
      <4> QED BY Zenon, <4>3, <4>4
    <3>3. CASE ~procs[c].used
      <4>1. procs'[c] = Kept(c) /\ Zombified(c) = procs[c]
        <5>1. ~Finished(c) /\ ~Orphan(c)
          BY Zenon, <3>3 DEF Finished, Orphan
        <5> QED BY Zenon, <1>1, <5>1 DEF EndRound, Zombified
      <4> QED BY SMTT(30), <1>a, <3>3, <4>1 DEF Kept, Unblocked, Proc
    <3> QED BY SMTT(30), <3>2, <3>3
  <2> QED BY Zenon, <2>0, <2>1, <2>2, <2>3 DEF FreeInv, AllRetired
<1>2. CASE Destroy
  <2>0. pc = "over" /\ pc' = "freed" /\ limited' = limited
    BY Zenon, <1>2 DEF Destroy
  <2>1. ASSUME NEW s \in Slots
        PROVE  /\ procs'[s].used = procs[s].used
               /\ procs'[s].zombie = procs[s].zombie
               /\ procs'[s].frees = procs[s].frees + (IF procs[s].used THEN 1 ELSE 0)
    BY SMTT(30), <1>2, <1>a DEF Destroy, Proc
  <2>2. ASSUME ~limited, NEW s \in Slots PROVE procs'[s].frees <= 1
    <3>1. Counted(procs[s])
      BY Zenon, <2>0 DEF FreeInv
    <3>2. CASE s = 0
      BY SMTT(30), <2>1, <3>1, <3>2 DEF FreeInv, Counted
    <3>3. CASE s # 0
      <4>1. ~procs[s].used
        BY SMTT(30), <2>0, <2>2, <3>3 DEF FreeInv, AllRetired
      <4> QED BY SMTT(30), <2>1, <3>1, <4>1 DEF Counted
    <3> QED BY <3>2, <3>3
  <2>3. ~procs'[0].zombie
    BY Zenon, <1>z, <2>1 DEF FreeInv
  <2>4. ASSUME ~limited, NEW s \in Slots \ {0} PROVE ~procs'[s].used
    BY Zenon, <2>0, <2>1, <2>4 DEF FreeInv, AllRetired
  <2> QED BY <2>0, <2>2, <2>3, <2>4 DEF FreeInv, FreedOnce, AllRetired
<1>3. CASE pc = "freed"
  <2>1. UNCHANGED vars
    BY ZenonT(60), <1>3 DEF Next, AddRoot, Start, BeginSlice, Call, Tick, Slice, Stop, Yield,
       OverBudget, HitLimit, Reschedule, EndRound, PollReturns, Poll, Destroy, Spawn,
       SpawnFails, IoCompletes, SleepCompletes, Kill, WaitBad, WaitReaps, WaitParks,
       WaitsFor, IoParks, SleepParks, InCall
  <2>2. procs' = procs /\ pc' = pc /\ limited' = limited
    BY Zenon, <2>1 DEF vars
  <2> QED BY Zenon, <2>2 DEF FreeInv, FreedOnce, AllRetired
<1>4. CASE ~EndRound /\ ~Destroy /\ pc # "freed"
  <2>1. \A s \in Slots : Counted(procs'[s]) /\ (procs'[s].zombie => procs[s].zombie)
    BY SMTT(30), <1>4, CountKept
  <2>2. pc' = "freed" => FALSE
    BY ZenonT(60), <1>4 DEF Next, AddRoot, Start, BeginSlice, Call, Tick, Slice, Stop, Yield,
       OverBudget, HitLimit, Reschedule, SliceOver, PollReturns, Poll, Spawn, Build,
       Reject, InCall, SpawnFails, IoCompletes, SleepCompletes, Kill, WaitBad, WaitReaps, WaitParks,
       IoParks, SleepParks, CallReturns, Parks, vars
  <2>3. CASE UNCHANGED vars
    <3>1. procs' = procs /\ pc' = pc /\ limited' = limited
      BY Zenon, <2>3 DEF vars
    <3> QED BY Zenon, <3>1 DEF FreeInv, FreedOnce, AllRetired
  <2>4. CASE HitLimit
    <3>1. limited' /\ Limit
      BY Zenon, <2>4 DEF HitLimit
    <3>2. ~procs'[0].zombie
      BY Zenon, <1>z, <2>1 DEF FreeInv
    <3> QED BY Zenon, <2>1, <2>2, <3>1, <3>2 DEF FreeInv, AllRetired
  <2>5. CASE Next /\ ~HitLimit
    <3>1. pc' # "over" /\ limited' = limited
      BY ZenonT(60), <1>4, <2>5 DEF Next, AddRoot, Start, BeginSlice, Call, Tick, Slice, Stop,
         Yield, OverBudget, Reschedule, SliceOver, PollReturns, Poll, Spawn, Build,
         Reject, SpawnFails, IoCompletes, SleepCompletes, Kill, WaitBad, WaitReaps,
         WaitParks, IoParks, SleepParks, CallReturns, Parks, InCall, WaitsFor
    <3> QED BY SMTT(30), <1>z, <2>1, <2>2, <3>1 DEF FreeInv, AllRetired
  <2> QED BY SMTT(30), <2>3, <2>4, <2>5
<1> QED BY SMTT(30), <1>1, <1>2, <1>3, <1>4

LEMMA FreeInvariant == Spec => [](SInv /\ FreeInv)
<1>1. Init => FreeInv
  <2> SUFFICES ASSUME Init PROVE FreeInv
    BY Zenon
  <2>1. ~NoProc.zombie /\ Counted(NoProc) /\ 0 \in Slots
    <3>1. ~NoProc.zombie
      BY Zenon DEF NoProc
    <3>2. Counted(NoProc)
      BY Zenon DEF NoProc, Counted
    <3> QED BY <3>1, <3>2 DEF Slots
  <2>2. pc = "boot" /\ limited = FALSE /\ \A s \in Slots : procs[s] = NoProc
    BY Zenon DEF Init
  <2> QED BY Zenon, <2>1, <2>2 DEF FreeInv, AllRetired
<1>2. SInv /\ FreeInv /\ [Next]_vars => FreeInv'
  BY FreeStep
<1> QED BY <1>1, <1>2, SInvariant, PTL DEF Spec

\* When the last process of an unlimited run has finished, every slot but the
\* first root's is back on the free list (sched_step's orphan loop).
THEOREM RunRetiresAll == Spec => []AllRetired
<1>1. SInv /\ FreeInv => AllRetired
  BY DEF FreeInv
<1> QED BY <1>1, FreeInvariant, PTL

\* Without an instruction limit no CPU is freed twice: zombify, reap and
\* sched_destroy between them free each one at most once.
THEOREM UnlimitedFreesOnce == ~Limit => (Spec => []FreedOnce)
<1> SUFFICES ASSUME ~Limit PROVE Spec => []FreedOnce
  BY Zenon
<1>1. SInv /\ FreeInv => FreedOnce
  <2> SUFFICES ASSUME FreeInv, NEW s \in Slots PROVE procs[s].frees <= 1
    BY Zenon DEF FreedOnce
  <2>1. CASE pc = "freed"
    BY SMTT(30), <2>1 DEF FreeInv, FreedOnce
  <2>2. CASE pc # "freed"
    BY SMTT(30), <2>2 DEF FreeInv, Counted
  <2> QED BY Zenon, <2>1, <2>2
<1> QED BY <1>1, FreeInvariant, PTL
-----------------------------------------------------------------------------
(***************************************************************************)
(* The table.  Every step of the scheduler is a birth or one that ages the *)
(* processes (StepKinds): an Add, or a Retire of the slots it reaped.      *)
(***************************************************************************)
TableOf(ps) == [s \in Slots |-> IF ps[s].used THEN ps[s].handle ELSE 0]

LEMMA TableInit == Init => Table!Init
<1>1. ~NoProc.used
  BY Zenon DEF NoProc
<1> SUFFICES ASSUME Init PROVE Table!Init
  BY Zenon
<1>2. slot_gen = [s \in Slots |-> 0] /\ \A s \in Slots : procs[s] = NoProc
  BY Zenon DEF Init
<1>3. [s \in Slots |-> IF procs[s].used THEN procs[s].handle ELSE 0] = [s \in Slots |-> 0]
  BY Zenon, <1>1, <1>2
<1> QED BY Zenon, <1>2, <1>3 DEF Table!Init, Table!Slots, Slots

LEMMA BirthAdds ==
  ASSUME SInv, NEW s \in Slots, NEW par \in Nat, Born(s, par)
  PROVE  Table!Add(s)
<1>1. NewProc(s, par).used /\ NewProc(s, par).handle = PROC_HANDLE(s, slot_gen[s])
  BY Zenon DEF NewProc, NoProc
<1>2. TableOf(procs)[s] = 0
  BY Zenon DEF TableOf, Born
<1>3. TableOf(procs') = [TableOf(procs) EXCEPT ![s] = PROC_HANDLE(s, slot_gen[s])]
  BY ZenonT(30), <1>1 DEF TableOf, Born
<1> QED BY Zenon, <1>2, <1>3 DEF TableOf, Table!Add, Table!Handle, PROC_HANDLE, Born

LEMMA AgeingRetires ==
  ASSUME SInv, SInv', Aged
  PROVE  \E gone \in SUBSET Slots : Table!Retire(gone)
<1> DEFINE gone == {s \in Slots : Reaped(s)}
<1>1. \A s \in gone : TableOf(procs)[s] # 0
  <2> SUFFICES ASSUME NEW s \in gone PROVE TableOf(procs)[s] # 0
    BY Zenon
  <2>1. procs[s].used
    BY Zenon DEF Reaped, Finished
  <2>2. procs[s].handle % 256 = s + 1 /\ s + 1 # 0
    BY SMTT(30), <2>1, SlotOfHandle DEF SInv, Slots
  <2> QED BY <2>1, <2>2 DEF TableOf
<1>2. \A s \in Slots : s \notin gone => Endured(s)
  BY Zenon DEF Aged
<1>3. TableOf(procs') = [s \in Slots |-> IF s \in gone THEN 0 ELSE TableOf(procs)[s]]
  <2>1. \A s \in Slots : s \in gone => ~procs'[s].used
    <3>1. \A s \in gone : procs'[s] = NoProc
      BY Zenon DEF Reaped
    <3>2. ~NoProc.used
      BY Zenon DEF NoProc
    <3> QED BY Zenon, <3>1, <3>2
  <2>2. \A s \in Slots : s \notin gone =>
          procs'[s].used = procs[s].used /\ procs'[s].handle = procs[s].handle
    BY Zenon, <1>2 DEF Endured, Endures
  <2> HIDE DEF gone
  <2> QED BY SMTT(30), <2>1, <2>2 DEF TableOf
<1>4. slot_gen' = [s \in Slots |-> IF s \in gone THEN slot_gen[s] + 1 ELSE slot_gen[s]]
  <2>1. slot_gen' \in [Slots -> Nat]
    BY Zenon DEF SInv, TInv, TypeOK
  <2>2. \A s \in Slots : s \in gone => slot_gen'[s] = slot_gen[s] + 1
    BY Zenon DEF Reaped
  <2>3. \A s \in Slots : s \notin gone => slot_gen'[s] = slot_gen[s]
    BY Zenon, <1>2 DEF Endured
  <2> HIDE DEF gone
  <2> QED BY Zenon, <2>1, <2>2, <2>3
<1>5. gone \in SUBSET Slots
  OBVIOUS
<1> HIDE DEF gone
<1> QED BY Zenon, <1>1, <1>3, <1>4, <1>5 DEF TableOf, Table!Retire, Table!Slots, Slots

\* The scheduler implements the table of ProcTable.
THEOREM ImplementsTable == Spec => TableSpec
<1>1. SInv /\ SInv' /\ [Next]_vars => [Table!Next]_(Table!tvars)
  <2> SUFFICES ASSUME SInv, SInv', [Next]_vars PROVE Table!Next
    BY Zenon
  <2>1. CASE Aged
    BY <2>1, AgeingRetires DEF Table!Next, Table!Slots, Slots
  <2>2. ASSUME NEW s \in Slots, NEW par \in Nat, Born(s, par) PROVE Table!Next
    BY <2>2, BirthAdds DEF Table!Next, Table!Slots, Slots
  <2> QED BY SMTT(30), <2>1, <2>2, StepKinds DEF SInv
<1> QED BY <1>1, TableInit, SInvariant, PTL DEF Spec, TableSpec, Table!Spec
=============================================================================
