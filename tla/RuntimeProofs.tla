--------------------------- MODULE RuntimeProofs ----------------------------
(***************************************************************************)
(* Proved for any number of threads, coroutines, keys and objects: the     *)
(* coroutines of libc lead back to the host stack and its thread-specific  *)
(* storage destroys nothing twice; the runtime of Kobold installs its      *)
(* recovery handler once, and gives the stack of a coroutine back when,    *)
(* and only when, nothing refers to it or runs on it.                      *)
(***************************************************************************)
EXTENDS Coro, Tss, KoboldCo, TLAPS

-----------------------------------------------------------------------------
(* Coroutines.                                                             *)

\* ChainToHost with types, and with what co_resume keeps in `prev`: a context that waits
\* for a coroutine will set `current` back to itself.
CoroInv ==
  /\ cstate \in [Coros -> {"none", "suspended", "running", "done"}]
  /\ resumer \in [Coros -> Contexts] /\ saved \in [Contexts -> Contexts \cup {Null}]
  /\ exec \in Contexts /\ tripped \in SUBSET Coros
  /\ ChainToHost
  /\ \A c \in Coros : cstate[c] = "running" =>
       saved[resumer[c]] = IF resumer[c] = Host THEN Null ELSE resumer[c]

LEMMA SwitchBackInv ==
  ASSUME CoroInv, current # Null, NEW state \in {"suspended", "done"}, SwitchBack(current, state)
  PROVE  CoroInv'
<1> USE CoroAssumption
<1>1. exec \in Coros /\ current = exec /\ cstate[exec] = "running"
  BY Zenon DEF CoroInv, ChainToHost, Contexts
<1>2. PICK v \in {"suspended", "done"} : cstate' = [cstate EXCEPT ![exec] = v] /\ (exec \in tripped => v = "done")
  BY Zenon, <1>1 DEF SwitchBack
<1>3. /\ exec' = resumer[exec] /\ current' = saved[resumer[exec]]
      /\ resumer' = resumer /\ saved' = saved /\ tripped' = tripped
  BY Zenon, <1>1 DEF SwitchBack
<1>4. \A c \in Coros : cstate'[c] = "running" => c # exec /\ cstate[c] = "running"
  BY Zenon, <1>1, <1>2 DEF CoroInv
<1>5. \A c \in Coros : c # exec => cstate'[c] = cstate[c]
  BY Zenon, <1>2 DEF CoroInv
<1>6. exec' # exec /\ exec' \in Contexts /\ (exec' = Host \/ cstate'[exec'] = "running")
  BY <1>1, <1>3, <1>5 DEF CoroInv, ChainToHost, Contexts
<1>7. current' = IF exec' = Host THEN Null ELSE exec'
  BY Zenon, <1>1, <1>3 DEF CoroInv
<1>8. \A c \in Coros : cstate'[c] = "running" =>
        /\ resumer[c] = Host \/ cstate'[resumer[c]] = "running"
        /\ resumer[c] # c /\ resumer[c] # exec'
  BY <1>1, <1>3, <1>4, <1>5 DEF CoroInv, ChainToHost, Contexts
<1>9. \A c \in tripped : cstate'[c] \in {"running", "done"}
  BY <1>1, <1>2, <1>5 DEF CoroInv, ChainToHost
<1>10. ChainToHost'
  BY <1>3, <1>4, <1>6, <1>7, <1>8, <1>9 DEF ChainToHost, CoroInv
<1> QED BY Zenon, <1>1, <1>2, <1>3, <1>4, <1>6, <1>10 DEF CoroInv

LEMMA CoroResumeInv ==
  ASSUME CoroInv, NEW c \in Coros, co_resume(c)
  PROVE  CoroInv'
<1> USE CoroAssumption
<1>1. exec \in Contexts /\ exec # c /\ cstate[c] = "suspended"
  BY DEF co_resume, CoroInv, ChainToHost
<1>2. /\ \A d \in Coros \ {c} : cstate'[d] = cstate[d] /\ resumer'[d] = resumer[d]
      /\ cstate'[c] = "running" /\ resumer'[c] = exec /\ exec' = c /\ current' = c /\ tripped' = tripped
      /\ saved'[exec] = current /\ \A x \in Contexts \ {exec} : saved'[x] = saved[x]
  BY Zenon, <1>1 DEF co_resume, CoroInv
<1>3. \A d \in Coros : resumer[d] \in Contexts
  BY Zenon DEF CoroInv
<1>4. \A d \in Coros : cstate[d] = "running" =>
        d # c /\ resumer[d] # c /\ resumer[d] # exec /\ resumer[d] # d
  BY <1>1 DEF CoroInv, ChainToHost, Contexts
<1>5. /\ cstate' \in [Coros -> {"none", "suspended", "running", "done"}]
      /\ resumer' \in [Coros -> Contexts] /\ saved' \in [Contexts -> Contexts \cup {Null}]
  BY Zenon, <1>1 DEF co_resume, CoroInv, ChainToHost
<1>6. current' = IF exec' = Host THEN Null ELSE exec'
  BY Zenon, <1>2
<1>7. \A d \in Coros : cstate'[d] = "running" =>
        /\ resumer'[d] = Host \/ cstate'[resumer'[d]] = "running"
        /\ resumer'[d] # d /\ resumer'[d] # exec'
  BY <1>1, <1>2, <1>3, <1>4 DEF CoroInv, ChainToHost, Contexts
<1>8. \A d, e \in Coros : (d # e /\ cstate'[d] = "running" /\ cstate'[e] = "running") => resumer'[d] # resumer'[e]
  BY <1>1, <1>2, <1>4 DEF CoroInv, ChainToHost
<1>9. \A d \in tripped' : cstate'[d] \in {"running", "done"}
  BY Zenon, <1>2 DEF CoroInv, ChainToHost
<1>10. ChainToHost'
  BY Zenon, <1>2, <1>6, <1>7, <1>8, <1>9 DEF ChainToHost
<1>11. \A d \in Coros : cstate'[d] = "running" =>
         saved'[resumer'[d]] = IF resumer'[d] = Host THEN Null ELSE resumer'[d]
  BY <1>1, <1>2, <1>3, <1>4 DEF CoroInv, ChainToHost
<1> QED BY Zenon, <1>2, <1>5, <1>10, <1>11 DEF CoroInv, Contexts

\* However deep the resumes are nested, co_self names the coroutine that runs and the
\* resumers lead back to the host (co_resume, co_yield, co_trampoline).
THEOREM ResumersLeadHome == CoroSpec => []ChainToHost
<1> USE CoroAssumption
<1>1. CoroInit => CoroInv
  BY Zenon DEF CoroInit, CoroInv, ChainToHost, Contexts
<1>2. CoroInv /\ [CoroNext]_coroVars => CoroInv'
  <2> SUFFICES ASSUME CoroInv, [CoroNext]_coroVars PROVE CoroInv'
    BY Zenon
  <2>1. CASE UNCHANGED coroVars
    BY <2>1 DEF coroVars, CoroInv, ChainToHost
  <2>2. ASSUME NEW c \in Coros, Create(c) PROVE CoroInv'
    BY <2>2 DEF Create, CoroInv, ChainToHost, Contexts
  <2>3. ASSUME NEW c \in Coros, co_resume(c) PROVE CoroInv'
    BY Zenon, <2>3, CoroResumeInv
  <2>4. CASE Yield \/ Return
    BY Zenon, <2>4, SwitchBackInv DEF Yield, Return
  <2>5. CASE Overrun
    BY <2>5 DEF Overrun, CoroInv, ChainToHost, Contexts
  <2> QED BY Zenon, <2>1, <2>2, <2>3, <2>4, <2>5 DEF CoroNext
<1>3. CoroInv => ChainToHost
  BY Zenon DEF CoroInv
<1> QED BY <1>1, <1>2, <1>3, PTL DEF CoroSpec

-----------------------------------------------------------------------------
(* Thread-specific storage.                                                *)

\* What is in a row is stored and not destroyed, and is in one place only.
TssInv ==
  /\ row \in [TThreads -> [Keys -> stored \cup {0}]] /\ stored \subseteq Objects /\ ~twice
  /\ \A t, u \in TThreads, k, j \in Keys :
       row[t][k] = row[u][j] /\ row[t][k] # 0 => t = u /\ k = j

\* A pass goes on with a key that has a value.
LEMMA OnwardKey ==
  ASSUME NEW t, NEW iter, NEW from, NEW any, NEW p \in Onward(t, iter, from, any), p.at = "dtor"
  PROVE  p.key \in {k \in Keys : row[t][k] # 0}
<1>1. CASE Hits(t, from) # {}
  BY <1>1 DEF Onward, First, Hits
<1>2. CASE Hits(t, from) = {} /\ any /\ iter + 1 < Iterations /\ Hits(t, 1) # {}
  BY <1>2 DEF Onward, First, Hits
<1>3. CASE Hits(t, from) = {} /\ ~(any /\ iter + 1 < Iterations /\ Hits(t, 1) # {})
  BY <1>3 DEF Onward
<1> QED BY Zenon, <1>1, <1>2, <1>3

LEMMA CallDtorInv ==
  ASSUME TssInv, NEW t \in TThreads, NEW iter, NEW from, NEW any,
         NEW p \in Onward(t, iter, from, any), CallDtor(t, p)
  PROVE  TssInv'
<1> USE TssAssumption
<1>1. CASE p.at # "dtor"
  BY <1>1 DEF CallDtor, TssInv
<1>2. CASE p.at = "dtor"
  <2>1. p.key \in Keys /\ row[t][p.key] # 0
    BY Zenon, <1>2, OnwardKey
  <2>2. PICK k \in Keys : k = p.key /\ row[t][k] # 0
    BY Zenon, <2>1
  <2>3. /\ row' = [row EXCEPT ![t][k] = 0] /\ stored' = stored \ {row[t][k]}
        /\ twice' = (twice \/ row[t][k] \notin stored)
    BY Zenon, <1>2, <2>2 DEF CallDtor
  <2>4. row[t][k] \in stored /\ \A u \in TThreads, j \in Keys : row[u][j] \in stored \cup {0}
    BY <2>2 DEF TssInv
  <2>5. ASSUME NEW u \in TThreads, NEW j \in Keys
        PROVE  row'[u][j] = IF u = t /\ j = k THEN 0 ELSE row[u][j]
    BY <2>3 DEF TssInv
  <2>6. ASSUME NEW u \in TThreads, NEW j \in Keys PROVE row'[u][j] \in stored' \cup {0}
    BY <2>2, <2>3, <2>4, <2>5 DEF TssInv
  <2>7. row' \in [TThreads -> [Keys -> stored' \cup {0}]]
    <3>1. row' \in [TThreads -> [Keys -> stored \cup {0}]]
      BY Zenon, <2>3 DEF TssInv
    <3> QED BY Zenon, <2>6, <3>1
  <2>8. ~twice'
    BY Zenon, <2>3, <2>4 DEF TssInv
  <2>9. \A u, w \in TThreads, i, j \in Keys :
          row'[u][i] = row'[w][j] /\ row'[u][i] # 0 => u = w /\ i = j
    BY <2>5 DEF TssInv
  <2>10. stored' \subseteq Objects
    BY Zenon, <2>3 DEF TssInv
  <2> QED BY Zenon, <2>7, <2>8, <2>9, <2>10 DEF TssInv
<1> QED BY Zenon, <1>1, <1>2

\* Whatever destructors store, create or delete, and whichever threads run meanwhile, no
\* object goes to a destructor twice (run_tss_dtors).
THEOREM NoDoubleDestroy == TssSpec => []DestroyedOnce
<1> USE TssAssumption
<1>1. TssInit => TssInv
  BY DEF TssInit, TssInv
<1>2. TssInv /\ [TssNext]_tssVars => TssInv'
  <2> SUFFICES ASSUME TssInv, [TssNext]_tssVars PROVE TssInv'
    BY Zenon
  <2>1. CASE UNCHANGED tssVars
    BY <2>1 DEF tssVars, TssInv
  <2>2. ASSUME NEW t \in TThreads, ThreadEnds(t) \/ DtorReturns(t) PROVE TssInv'
    BY Zenon, <2>2, CallDtorInv DEF ThreadEnds, DtorReturns
  <2>3. ASSUME NEW t \in TThreads, NEW w \in BOOLEAN, TssCreate(t, w) PROVE TssInv'
    BY <2>3 DEF TssCreate, TssInv
  <2>4. ASSUME NEW t \in TThreads, NEW k \in Keys, TssDelete(t, k) PROVE TssInv'
    BY <2>4 DEF TssDelete, TssInv
  <2>5. ASSUME NEW t \in TThreads, NEW k \in Keys, TssClear(t, k) PROVE TssInv'
    BY <2>5 DEF TssClear, TssInv
  <2>6. ASSUME NEW t \in TThreads, NEW k \in Keys, NEW v \in Objects, TssSet(t, k, v) PROVE TssInv'
    <3>1. row' = [row EXCEPT ![t][k] = v] /\ stored' = stored \cup {v} /\ v \notin stored /\ v # 0 /\ twice' = twice
      BY Zenon, <2>6 DEF TssSet
    <3>2. row' \in [TThreads -> [Keys -> stored' \cup {0}]]
      BY <3>1 DEF TssInv
    <3>3. ASSUME NEW u \in TThreads, NEW j \in Keys
          PROVE  row'[u][j] = (IF u = t /\ j = k THEN v ELSE row[u][j]) /\ row[u][j] # v
      BY <3>1 DEF TssInv
    <3> QED BY <3>1, <3>2, <3>3 DEF TssInv
  <2> QED BY Zenon, <2>1, <2>2, <2>3, <2>4, <2>5, <2>6 DEF TssNext
<1>3. TssInv => DestroyedOnce
  BY DEF TssInv, DestroyedOnce
<1> QED BY <1>1, <1>2, <1>3, PTL DEF TssSpec
-----------------------------------------------------------------------------
(* The coroutines of Kobold.                                              *)

USE CoAssumption

-----------------------------------------------------------------------------
(* Arming.                                                                 *)

Unarmed == segv = "theirs" /\ oldSegv = "unset"
Armed == segv = "ours" /\ oldSegv = "theirs"

\* The state a thread leaves in co_handler_state says where all the others are: one that
\* has won the exchange is alone between its two ends.
ArmInv ==
  /\ arming \in [CoThreads -> {"new", "elect", "install", "publish", "wait", "ready"}]
  /\ \/ handlerState = 0 /\ Unarmed /\ \A t \in CoThreads : arming[t] \in {"new", "elect"}
     \/ /\ handlerState = 1
        /\ \E w \in CoThreads :
             /\ \/ arming[w] = "install" /\ Unarmed
                \/ arming[w] = "publish" /\ Armed
             /\ \A t \in CoThreads \ {w} : arming[t] \in {"new", "elect", "wait"}
     \/ handlerState = 2 /\ Armed /\ \A t \in CoThreads : arming[t] \in {"new", "elect", "wait", "ready"}

LEMMA ArmStep ==
  ASSUME ArmInv, NEW t \in CoThreads,
         CheckHandler(t) \/ Elect(t) \/ InstallHandler(t) \/ Publish(t) \/ AwaitHandler(t)
  PROVE  ArmInv'
<1>1. CASE CheckHandler(t)
  BY <1>1 DEF ArmInv, CheckHandler, At, Unarmed, Armed
<1>2. CASE Elect(t)
  BY <1>2 DEF ArmInv, Elect, At, Unarmed, Armed
<1>3. CASE InstallHandler(t)
  BY <1>3 DEF ArmInv, InstallHandler, At, Unarmed, Armed
<1>4. CASE Publish(t)
  BY <1>4 DEF ArmInv, Publish, At, Unarmed, Armed
<1>5. CASE AwaitHandler(t)
  BY <1>5 DEF ArmInv, AwaitHandler, At, Unarmed, Armed
<1> QED BY Zenon, <1>1, <1>2, <1>3, <1>4, <1>5

\* Every other step leaves the handler alone.
LEMMA OthersLeaveArming ==
  ASSUME [CoNext]_coVars,
         ~ \E t \in CoThreads : CheckHandler(t) \/ Elect(t) \/ InstallHandler(t) \/ Publish(t) \/ AwaitHandler(t)
  PROVE  UNCHANGED armVars
BY Zenon DEF CoNext, coVars, New, Resume, Release, Sweep, Retain, ReleaseSelf, ReleaseOf, CoYield, BodyEnds,
       Trap, Land, Caught, Teardown

\* However the threads of a process interleave in co_install_handler_once, the handler is
\* there before any of them has a coroutine, and it is never installed over itself.
THEOREM HandlerOnce == CoSpec => []RecoveryArmed
<1>1. CoInit => ArmInv
  BY Zenon DEF CoInit, ArmInv, Unarmed
<1>2. ArmInv /\ [CoNext]_coVars => ArmInv'
  <2> SUFFICES ASSUME ArmInv, [CoNext]_coVars PROVE ArmInv'
    BY Zenon
  <2>1. CASE \E t \in CoThreads : CheckHandler(t) \/ Elect(t) \/ InstallHandler(t) \/ Publish(t) \/ AwaitHandler(t)
    BY Zenon, <2>1, ArmStep
  <2>2. CASE ~ \E t \in CoThreads : CheckHandler(t) \/ Elect(t) \/ InstallHandler(t) \/ Publish(t) \/ AwaitHandler(t)
    BY Zenon, <2>2, OthersLeaveArming DEF ArmInv, armVars, Unarmed, Armed
  <2> QED BY Zenon, <2>1, <2>2
<1>3. ArmInv => RecoveryArmed
  BY Zenon DEF ArmInv, RecoveryArmed, Unarmed, Armed
<1> QED BY <1>1, <1>2, <1>3, PTL DEF CoSpec

-----------------------------------------------------------------------------
(* Reclaiming.                                                             *)

Frames == [co : Cos, why : {"resume", "cancel"}, prev : Cos \cup {NoCo}, outer : Nat]
CoStates == {"none", "suspended", "running", "done", "freed"}

\* The calls e in progress are on coroutines that run, each on one, and all that run;
\* each call has kept what `current` and the landing pad were before it.
Chain(e, s, cur, pad) ==
  /\ e \in Seq(Frames) /\ s \in [Cos -> CoStates]
  /\ \A i \in 1 .. Len(e) :
       /\ s[e[i].co] = "running" /\ e[i].outer = i - 1
       /\ e[i].prev = IF i = 1 THEN NoCo ELSE e[i-1].co
  /\ \A i, j \in 1 .. Len(e) : e[i].co = e[j].co => i = j
  /\ \A c \in Cos : s[c] = "running" => \E i \in 1 .. Len(e) : e[i].co = c
  /\ pad = Len(e) /\ cur = IF e = <<>> THEN NoCo ELSE e[Len(e)].co

\* What is suspended or done is held; what is dead or in a cancel is not; what is in a
\* resume and not dead is.
Kept(c, e, s, h, d) ==
  /\ s[c] \in {"none", "freed"} => ~HasRef(h, c)
  /\ s[c] \in {"suspended", "done"} => HasRef(h, c)
  /\ c \in d => ~HasRef(h, c) /\ s[c] \in {"running", "freed"}
  /\ \A i \in 1 .. Len(e) :
       e[i].co = c => /\ e[i].why = "cancel" => ~HasRef(h, c)
                      /\ e[i].why = "resume" /\ c \notin d => HasRef(h, c)

\* The inductive invariant.
CoInv ==
  /\ Chain(entered, co, curco, landing)
  /\ holds \in [Cos \cup {MainProgram} -> SUBSET Cos] /\ dead \in SUBSET Cos
  /\ \A c \in Cos : Kept(c, entered, co, holds, dead)

LEMMA FrameOf ==
  ASSUME NEW e \in Seq(Frames)
  PROVE  \A i \in 1 .. Len(e) : e[i] \in Frames /\ e[i].co \in Cos
<1>1. \A i \in 1 .. Len(e) : e[i] \in Frames
  OBVIOUS
<1>2. \A f \in Frames : f.co \in Cos
  BY Zenon DEF Frames
<1> QED BY Zenon, <1>1, <1>2

LEMMA AppendOf ==
  ASSUME NEW e \in Seq(Frames), NEW f
  PROVE  /\ Len(Append(e, f)) = Len(e) + 1 /\ Append(e, f)[Len(e) + 1] = f
         /\ \A i \in 1 .. Len(e) : Append(e, f)[i] = e[i]
OBVIOUS

LEMMA OuterOf ==
  ASSUME NEW e \in Seq(Frames), Len(e) > 0
  PROVE  /\ Outer(e) \in Seq(Frames) /\ Len(Outer(e)) = Len(e) - 1
         /\ \A i \in 1 .. Len(Outer(e)) : Outer(e)[i] = e[i]
<1>1. Len(e) \in Nat
  OBVIOUS
<1> DEFINE n == Len(e) - 1
<1>2. n \in Int /\ n >= 0 /\ \A i \in 1 .. n : e[i] \in Frames
  BY <1>1
<1> HIDE DEF n
<1>3. /\ SubSeq(e, 1, n) \in Seq(Frames) /\ Len(SubSeq(e, 1, n)) = IF 1 <= n THEN n - 1 + 1 ELSE 0
      /\ \A i \in 1 .. n - 1 + 1 : SubSeq(e, 1, n)[i] = e[1 + i - 1]
  BY <1>2
<1>4. Outer(e) = SubSeq(e, 1, n)
  BY Zenon DEF Outer, n
<1>5. Len(Outer(e)) = n
  BY <1>2, <1>3, <1>4
<1>6. \A i \in 1 .. n : Outer(e)[i] = e[i]
  BY <1>2, <1>3, <1>4
<1> QED BY Zenon, <1>3, <1>4, <1>5, <1>6 DEF n

\* The coroutine of the innermost frame has no other frame.
LEMMA OuterApart ==
  ASSUME NEW e \in Seq(Frames), Len(e) > 0,
         \A i, j \in 1 .. Len(e) : e[i].co = e[j].co => i = j
  PROVE  \A i \in 1 .. Len(Outer(e)) :
           i \in 1 .. Len(e) /\ Outer(e)[i] = e[i] /\ Outer(e)[i].co # e[Len(e)].co
<1>1. Len(e) \in Nat /\ Len(Outer(e)) = Len(e) - 1 /\ \A i \in 1 .. Len(Outer(e)) : Outer(e)[i] = e[i]
  BY OuterOf
<1>2. \A i \in 1 .. Len(Outer(e)) : i \in 1 .. Len(e) /\ Len(e) \in 1 .. Len(e) /\ i # Len(e)
  BY <1>1
<1> QED BY Zenon, <1>1, <1>2

\* A call that returns.
LEMMA PopChain ==
  ASSUME NEW e, NEW s, NEW cur, NEW pad, Chain(e, s, cur, pad), e # <<>>,
         NEW v \in CoStates, v # "running"
  PROVE  LET f == e[Len(e)]
         IN  Chain(Outer(e), [s EXCEPT ![f.co] = v], f.prev, f.outer)
<1> DEFINE f == e[Len(e)]
           r == Outer(e)
           z == [s EXCEPT ![f.co] = v]
<1>1. e \in Seq(Frames) /\ Len(e) \in Nat /\ Len(e) > 0
  BY DEF Chain
<1>2. r \in Seq(Frames) /\ Len(r) = Len(e) - 1 /\ \A i \in 1 .. Len(r) : r[i] = e[i]
  BY Zenon, <1>1, OuterOf
<1>3. f \in Frames /\ f.co \in Cos /\ \A i \in 1 .. Len(e) : e[i] \in Frames /\ e[i].co \in Cos
  BY <1>1, FrameOf
<1>4. z \in [Cos -> CoStates] /\ z[f.co] = v /\ \A c \in Cos : c # f.co => z[c] = s[c]
  BY <1>3 DEF Chain
<1>5. \A i \in 1 .. Len(r) : e[i].co # f.co
  BY <1>1, <1>2 DEF Chain
<1>6. \A i \in 1 .. Len(r) : /\ z[r[i].co] = "running" /\ r[i].outer = i - 1
                            /\ r[i].prev = IF i = 1 THEN NoCo ELSE r[i-1].co
  <2> SUFFICES ASSUME NEW i \in 1 .. Len(r)
               PROVE  /\ z[r[i].co] = "running" /\ r[i].outer = i - 1
                      /\ r[i].prev = IF i = 1 THEN NoCo ELSE r[i-1].co
    BY Zenon
  <2>1. i \in 1 .. Len(e) /\ r[i] = e[i] /\ (i # 1 => r[i-1] = e[i-1])
    BY <1>1, <1>2
  <2>2. z[e[i].co] = s[e[i].co]
    BY Zenon, <2>1, <1>3, <1>4, <1>5
  <2> QED BY <2>1, <2>2 DEF Chain
<1>7. \A i, j \in 1 .. Len(r) : r[i].co = r[j].co => i = j
  <2>1. \A i \in 1 .. Len(r) : i \in 1 .. Len(e) /\ r[i] = e[i]
    BY <1>1, <1>2
  <2>2. \A i, j \in 1 .. Len(e) : e[i].co = e[j].co => i = j
    BY Zenon DEF Chain
  <2> QED BY Zenon, <2>1, <2>2
<1>8. \A c \in Cos : z[c] = "running" => \E i \in 1 .. Len(r) : r[i].co = c
  <2> SUFFICES ASSUME NEW c \in Cos, z[c] = "running" PROVE \E i \in 1 .. Len(r) : r[i].co = c
    BY Zenon
  <2>1. c # f.co /\ s[c] = "running"
    BY Zenon, <1>4
  <2>2. PICK i \in 1 .. Len(e) : e[i].co = c
    BY Zenon, <2>1 DEF Chain
  <2>3. i # Len(e)
    BY Zenon, <2>1, <2>2
  <2> QED BY <1>1, <1>2, <2>2, <2>3
<1>9. f.outer = Len(r) /\ f.prev = IF r = <<>> THEN NoCo ELSE r[Len(r)].co
  <2>1. f.outer = Len(e) - 1 /\ f.prev = IF Len(e) = 1 THEN NoCo ELSE e[Len(e) - 1].co
    BY <1>1 DEF Chain
  <2>2. r = <<>> <=> Len(e) = 1
    BY <1>1, <1>2
  <2> QED BY <1>1, <1>2, <2>1, <2>2
<1> HIDE DEF r, z, f
<1>10. Chain(r, z, f.prev, f.outer)
  BY Zenon, <1>2, <1>4, <1>6, <1>7, <1>8, <1>9 DEF Chain
<1> QED BY Zenon, <1>10 DEF r, z, f

\* A call that is made, by co_run for a resume or for a cancel.
LEMMA PushChain ==
  ASSUME NEW e, NEW s, NEW cur, NEW pad, Chain(e, s, cur, pad),
         NEW c \in Cos, s[c] # "running", NEW why \in {"resume", "cancel"}
  PROVE  Chain(Append(e, [co |-> c, why |-> why, prev |-> cur, outer |-> pad]),
               [s EXCEPT ![c] = "running"], c, Len(e) + 1)
<1> DEFINE f == [co |-> c, why |-> why, prev |-> cur, outer |-> pad]
           r == Append(e, f)
           z == [s EXCEPT ![c] = "running"]
<1>1. e \in Seq(Frames) /\ Len(e) \in Nat
  BY SMTT(20) DEF Chain
<1>2. \A i \in 1 .. Len(e) : e[i] \in Frames /\ e[i].co \in Cos
  BY Zenon, <1>1, FrameOf
<1>3. cur \in Cos \cup {NoCo} /\ pad \in Nat
  <2>1. e # <<>> => Len(e) \in 1 .. Len(e)
    BY <1>1
  <2> QED BY Zenon, <1>1, <1>2, <2>1 DEF Chain
<1>4. f \in Frames
  BY Zenon, <1>3 DEF Frames
<1>5. r \in Seq(Frames) /\ Len(r) = Len(e) + 1 /\ r[Len(e) + 1] = f /\ \A i \in 1 .. Len(e) : r[i] = e[i]
  BY <1>1, <1>4
<1>6. z \in [Cos -> CoStates] /\ z[c] = "running" /\ \A b \in Cos : b # c => z[b] = s[b]
  BY DEF Chain, CoStates
<1>7. \A i \in 1 .. Len(e) : e[i].co # c
  BY DEF Chain
<1>8. f.co = c /\ f.prev = cur /\ f.outer = pad
  BY Zenon
<1> HIDE DEF f, r, z
<1>9. \A i \in 1 .. Len(r) : /\ z[r[i].co] = "running" /\ r[i].outer = i - 1
                            /\ r[i].prev = IF i = 1 THEN NoCo ELSE r[i-1].co
  <2> SUFFICES ASSUME NEW i \in 1 .. Len(r)
               PROVE  /\ z[r[i].co] = "running" /\ r[i].outer = i - 1
                      /\ r[i].prev = IF i = 1 THEN NoCo ELSE r[i-1].co
    BY Zenon
  <2>1. CASE i \in 1 .. Len(e)
    <3>1. r[i] = e[i] /\ (i # 1 => r[i-1] = e[i-1])
      BY <1>1, <1>5, <2>1
    <3>2. z[e[i].co] = s[e[i].co]
      BY Zenon, <1>2, <1>6, <1>7, <2>1
    <3> QED BY SMTT(20), <2>1, <3>1, <3>2 DEF Chain
  <2>2. CASE i = Len(e) + 1
    <3>1. r[i] = f /\ pad = i - 1
      BY <1>1, <1>5, <2>2 DEF Chain
    <3>2. cur = IF i = 1 THEN NoCo ELSE r[i-1].co
      <4>1. e = <<>> <=> i = 1
        BY SMTT(20), <1>1, <2>2
      <4>2. i # 1 => r[i-1] = e[Len(e)]
        BY <1>1, <1>5, <2>2
      <4> QED BY Zenon, <4>1, <4>2 DEF Chain
    <3> QED BY Zenon, <1>6, <1>8, <3>1, <3>2
  <2> QED BY <1>1, <1>5, <2>1, <2>2
<1>10. \A i, j \in 1 .. Len(r) : r[i].co = r[j].co => i = j
  <2>1. \A i \in 1 .. Len(r) : i \in 1 .. Len(e) \/ (i = Len(e) + 1 /\ r[i].co = c)
    BY <1>1, <1>5, <1>8
  <2>2. \A i, j \in 1 .. Len(e) : r[i].co = r[j].co => i = j
    BY Zenon, <1>5 DEF Chain
  <2>3. \A i \in 1 .. Len(e) : r[i].co # c
    BY Zenon, <1>5, <1>7
  <2> QED BY Zenon, <2>1, <2>2, <2>3
<1>11. \A b \in Cos : z[b] = "running" => \E i \in 1 .. Len(r) : r[i].co = b
  <2> SUFFICES ASSUME NEW b \in Cos, z[b] = "running" PROVE \E i \in 1 .. Len(r) : r[i].co = b
    BY Zenon
  <2>1. CASE b = c
    <3>1. Len(e) + 1 \in 1 .. Len(r)
      BY <1>1, <1>5
    <3> QED BY Zenon, <1>5, <1>8, <2>1, <3>1
  <2>2. CASE b # c
    <3>1. PICK i \in 1 .. Len(e) : e[i].co = b
      BY Zenon, <1>6, <2>2 DEF Chain
    <3>2. i \in 1 .. Len(r) /\ r[i].co = b
      BY <1>1, <1>5, <3>1
    <3> QED BY Zenon, <3>2
  <2> QED BY Zenon, <2>1, <2>2
<1>12. r # <<>> /\ r[Len(r)].co = c
  BY SMTT(20), <1>1, <1>5, <1>8
<1>13. Chain(r, z, c, Len(e) + 1)
  BY Zenon, <1>5, <1>6, <1>9, <1>10, <1>11, <1>12 DEF Chain
<1> QED BY Zenon, <1>13 DEF f, r, z

\* A change of a coroutine that runs neither before nor after.
LEMMA StillChain ==
  ASSUME NEW e, NEW s, NEW cur, NEW pad, Chain(e, s, cur, pad),
         NEW c \in Cos, s[c] # "running", NEW v \in CoStates, v # "running"
  PROVE  Chain(e, [s EXCEPT ![c] = v], cur, pad)
<1> DEFINE z == [s EXCEPT ![c] = v]
<1>1. z \in [Cos -> CoStates] /\ z[c] = v /\ \A b \in Cos : b # c => z[b] = s[b]
  BY DEF Chain
<1>2. \A i \in 1 .. Len(e) : e[i].co \in Cos
  BY Zenon, FrameOf DEF Chain
<1>3. \A i \in 1 .. Len(e) : z[e[i].co] = "running"
  BY <1>1, <1>2 DEF Chain
<1> HIDE DEF z
<1>4. Chain(e, z, cur, pad)
  BY Zenon, <1>1, <1>3 DEF Chain
<1> QED BY Zenon, <1>4 DEF z

\* What a step does to others leaves a coroutine kept.
LEMMA KeptSame ==
  ASSUME NEW b, NEW e, NEW s, NEW h, NEW d, Kept(b, e, s, h, d),
         NEW r, NEW z, NEW g, NEW k,
         \A i \in 1 .. Len(r) : r[i].co = b => \E j \in 1 .. Len(e) : e[j] = r[i],
         z[b] = s[b], HasRef(g, b) <=> HasRef(h, b), b \in k <=> b \in d
  PROVE  Kept(b, r, z, g, k)
BY DEF Kept

\* Every frame of b in r is one in e.
FramesFrom(b, r, e) ==
  \A i \in 1 .. Len(r) : r[i].co = b => \E j \in 1 .. Len(e) : e[j] = r[i]

LEMMA KeptStill ==
  ASSUME NEW b, NEW e, NEW s, NEW h, NEW d, Kept(b, e, s, h, d),
         NEW r, NEW z, FramesFrom(b, r, e), z[b] = s[b]
  PROVE  Kept(b, r, z, h, d)
<1>1. ASSUME NEW i \in 1 .. Len(r), r[i].co = b
      PROVE  /\ r[i].why = "cancel" => ~HasRef(h, b)
             /\ r[i].why = "resume" /\ b \notin d => HasRef(h, b)
  <2>1. PICK j \in 1 .. Len(e) : e[j] = r[i]
    BY Zenon, <1>1 DEF FramesFrom
  <2> QED BY Zenon, <1>1, <2>1 DEF Kept
<1> QED BY Zenon, <1>1 DEF Kept

\* co_reclaim of a coroutine that is not running and that nobody holds.
LEMMA ReclaimInv ==
  ASSUME NEW c \in Cos, NEW s, NEW cs, NEW cur, NEW pad,
         Chain(cs, s, cur, pad), s[c] \in {"suspended", "done"},
         holds' \in [Cos \cup {MainProgram} -> SUBSET Cos], dead' \in SUBSET Cos,
         ~HasRef(holds', c), \A b \in Cos \ {c} : Kept(b, cs, s, holds', dead'),
         Reclaim(c, s, cs, cur, pad)
  PROVE  CoInv'
<1>1. cs \in Seq(Frames) /\ Len(cs) \in Nat /\ s \in [Cos -> CoStates]
  BY DEF Chain
<1>2. \A i \in 1 .. Len(cs) : cs[i].co # c
  BY Zenon DEF Chain
<1>3. CASE s[c] = "suspended" /\ c \in started
  <2> DEFINE f == [co |-> c, why |-> "cancel", prev |-> cur, outer |-> pad]
             z == [s EXCEPT ![c] = "running"]
             r == Append(cs, f)
  <2>1. co' = z /\ entered' = r /\ curco' = c /\ landing' = Len(cs) + 1
    BY Zenon, <1>3 DEF Reclaim
  <2>2. Chain(r, z, c, Len(cs) + 1)
    BY ZenonT(60), PushChain
  <2>3. f.co = c /\ f.why = "cancel"
    BY Zenon
  <2>4. Len(r) = Len(cs) + 1 /\ r[Len(cs) + 1] = f /\ \A i \in 1 .. Len(cs) : r[i] = cs[i]
    BY SMTT(30), <1>1
  <2>5. z[c] = "running" /\ \A b \in Cos \ {c} : z[b] = s[b]
    BY Zenon, <1>1
  <2> HIDE DEF f, z, r
  <2>6. \A i \in 1 .. Len(r) : r[i] = f \/ (i \in 1 .. Len(cs) /\ r[i] = cs[i])
    BY <1>1, <2>4
  <2>7. Kept(c, r, z, holds', dead')
    <3>1. \A i \in 1 .. Len(r) : r[i].co = c => r[i].why = "cancel"
      BY Zenon, <1>2, <2>3, <2>6
    <3> QED BY ZenonT(60), <2>5, <3>1 DEF Kept
  <2>8. ASSUME NEW b \in Cos \ {c} PROVE Kept(b, r, z, holds', dead')
    <3>1. FramesFrom(b, r, cs)
      BY Zenon, <2>3, <2>6 DEF FramesFrom
    <3>2. Kept(b, cs, s, holds', dead') /\ z[b] = s[b]
      BY Zenon, <2>5
    <3> QED BY Zenon, <3>1, <3>2, KeptStill
  <2> QED BY Zenon, <2>1, <2>2, <2>7, <2>8 DEF CoInv
<1>4. CASE ~(s[c] = "suspended" /\ c \in started)
  <2> DEFINE z == [s EXCEPT ![c] = "freed"]
  <2>1. co' = z /\ entered' = cs /\ curco' = cur /\ landing' = pad
    BY Zenon, <1>1, <1>4 DEF Reclaim, Freed
  <2>2. Chain(cs, z, cur, pad)
    BY ZenonT(60), StillChain DEF CoStates
  <2>3. z[c] = "freed" /\ \A b \in Cos \ {c} : z[b] = s[b]
    BY Zenon, <1>1
  <2> HIDE DEF z
  <2>4. Kept(c, cs, z, holds', dead')
    BY Zenon, <1>2, <2>3 DEF Kept
  <2>5. ASSUME NEW b \in Cos \ {c} PROVE Kept(b, cs, z, holds', dead')
    BY Zenon, <2>3, KeptSame
  <2> QED BY Zenon, <2>1, <2>2, <2>4, <2>5 DEF CoInv
<1> QED BY Zenon, <1>3, <1>4

\* kp_co_drop when the last reference has gone.
LEMMA DropInv ==
  ASSUME CoInv, NEW c \in Cos, Drop(c),
         holds' \in [Cos \cup {MainProgram} -> SUBSET Cos], HasRef(holds, c), ~HasRef(holds', c),
         \A b \in Cos \ {c} : HasRef(holds', b) <=> HasRef(holds, b)
  PROVE  CoInv'
<1>1. Chain(entered, co, curco, landing) /\ co[c] \in CoStates /\ dead \in SUBSET Cos
  BY DEF CoInv, Chain
<1>2. \A b \in Cos : Kept(b, entered, co, holds, dead)
  BY Zenon DEF CoInv
<1>3. CASE co[c] = "running"
  <2>1. dead' = dead \cup {c} /\ co' = co /\ entered' = entered /\ curco' = curco /\ landing' = landing
    BY Zenon, <1>3 DEF Drop, runVars
  <2>2. Kept(c, entered, co, holds', dead')
    BY Zenon, <1>3, <2>1 DEF Kept
  <2>3. ASSUME NEW b \in Cos \ {c} PROVE Kept(b, entered, co, holds', dead')
    <3>1. b \in dead' <=> b \in dead
      BY Zenon, <2>1
    <3> QED BY ZenonT(60), <1>2, <3>1, KeptSame
  <2> QED BY ZenonT(60), <1>1, <2>1, <2>2, <2>3 DEF CoInv
<1>4. CASE co[c] # "running"
  <2>1. co[c] \in {"suspended", "done"}
    BY Zenon, <1>1, <1>2, <1>4 DEF Kept, CoStates
  <2>2. Reclaim(c, co, entered, curco, landing) /\ dead' = dead
    BY Zenon, <1>4 DEF Drop
  <2>3. ASSUME NEW b \in Cos \ {c} PROVE Kept(b, entered, co, holds', dead')
    BY Zenon, <1>2, <2>2, KeptSame
  <2> QED BY Zenon, <1>1, <2>1, <2>2, <2>3, ReclaimInv
<1> QED BY Zenon, <1>3, <1>4

\* The return of the innermost co_run, by a yield or by the end of the body.
LEMMA LeaveInv ==
  ASSUME CoInv, entered # <<>>, NEW v \in {"suspended", "done"}, Leave(v), UNCHANGED <<dead, holds>>
  PROVE  CoInv'
<1> DEFINE f == entered[Len(entered)]
           c == f.co
           r == Outer(entered)
           left == [co EXCEPT ![c] = v]
<1>1. entered \in Seq(Frames) /\ Len(entered) \in Nat /\ Len(entered) > 0 /\ co \in [Cos -> CoStates]
  BY SMTT(60) DEF CoInv, Chain
<1>2. f \in Frames /\ c \in Cos /\ Len(entered) \in 1 .. Len(entered) /\ f.why \in {"resume", "cancel"}
  <2>1. Len(entered) \in 1 .. Len(entered)
    BY <1>1
  <2>2. f \in Frames /\ c \in Cos
    BY Zenon, <1>1, <2>1, FrameOf
  <2> QED BY Zenon, <2>1, <2>2 DEF Frames
<1>3. Chain(r, left, f.prev, f.outer)
  BY Zenon, PopChain DEF CoInv, CoStates
<1>4. Len(r) = Len(entered) - 1 /\ \A i \in 1 .. Len(r) : r[i] = entered[i]
  BY Zenon, <1>1, OuterOf
<1>5. \A i \in 1 .. Len(r) : i \in 1 .. Len(entered) /\ r[i] = entered[i] /\ r[i].co # c
  BY Zenon, <1>1, OuterApart DEF CoInv, Chain
<1>6. left[c] = v /\ \A b \in Cos \ {c} : left[b] = co[b]
  BY Zenon, <1>1, <1>2
<1>7. Kept(c, entered, co, holds, dead) /\ co[c] = "running" /\ \A b \in Cos : Kept(b, entered, co, holds, dead)
  BY Zenon, <1>2 DEF CoInv, Chain
<1>8. Innermost(entered) = f
  BY Zenon DEF Innermost
<1>9. /\ holds' \in [Cos \cup {MainProgram} -> SUBSET Cos] /\ dead' \in SUBSET Cos
      /\ holds' = holds /\ dead' = dead
  BY Zenon DEF CoInv
<1> HIDE DEF f, r, left
<1>10. ASSUME NEW b \in Cos \ {c}, NEW z, z[b] = co[b] PROVE Kept(b, r, z, holds', dead')
  <2>1. FramesFrom(b, r, entered)
    BY Zenon, <1>5 DEF FramesFrom
  <2> QED BY Zenon, <1>7, <1>9, <1>10, <2>1, KeptStill
<1>11. CASE f.why = "cancel"
  <2> DEFINE z == [left EXCEPT ![c] = "freed"]
  <2>1. co' = z /\ entered' = r /\ curco' = f.prev /\ landing' = f.outer
    BY Zenon, <1>6, <1>8, <1>11 DEF Leave, Freed, left, r
  <2>2. Chain(r, z, f.prev, f.outer)
    BY ZenonT(60), <1>2, <1>3, <1>6, StillChain DEF CoStates
  <2>3. left \in [Cos -> CoStates]
    BY Zenon, <1>3 DEF Chain
  <2>4. z[c] = "freed" /\ \A b \in Cos \ {c} : z[b] = co[b]
    BY Zenon, <1>2, <1>6, <2>3
  <2> HIDE DEF z
  <2>5. ~HasRef(holds', c)
    BY Zenon, <1>2, <1>7, <1>9, <1>11 DEF Kept, f
  <2>6. Kept(c, r, z, holds', dead')
    BY Zenon, <1>5, <2>4, <2>5 DEF Kept
  <2>7. \A b \in Cos : Kept(b, r, z, holds', dead')
    BY Zenon, <1>10, <2>4, <2>6
  <2> QED BY ZenonT(30), <1>9, <2>1, <2>2, <2>7 DEF CoInv
<1>12. CASE f.why # "cancel" /\ c \in dead
  <2>1. Reclaim(c, left, r, f.prev, f.outer)
    BY Zenon, <1>8, <1>12 DEF Leave, left, r
  <2>2. ~HasRef(holds', c)
    BY Zenon, <1>7, <1>9, <1>12 DEF Kept
  <2> QED BY Zenon, <1>2, <1>3, <1>6, <1>9, <1>10, <2>1, <2>2, ReclaimInv
<1>13. CASE f.why # "cancel" /\ c \notin dead
  <2>1. co' = left /\ entered' = r /\ curco' = f.prev /\ landing' = f.outer
    BY Zenon, <1>8, <1>13 DEF Leave, left, r
  <2>2. HasRef(holds', c)
    BY ZenonT(30), <1>2, <1>7, <1>9, <1>13 DEF Kept, f
  <2>3. Kept(c, r, left, holds', dead')
    BY Zenon, <1>5, <1>6, <1>9, <1>13, <2>2 DEF Kept
  <2> QED BY Zenon, <1>3, <1>6, <1>9, <1>10, <2>1, <2>3 DEF CoInv
<1> QED BY Zenon, <1>11, <1>12, <1>13

LEMMA RunningOf ==
  ASSUME CoInv
  PROVE  /\ Running \in Cos \cup {MainProgram}
         /\ entered # <<>> => Running \in Cos /\ Running = entered[Len(entered)].co
<1>1. entered \in Seq(Frames) /\ Len(entered) \in Nat
  BY DEF CoInv, Chain
<1>2. CASE entered = <<>>
  BY Zenon, <1>2 DEF Running
<1>3. CASE entered # <<>>
  <2>1. Len(entered) \in 1 .. Len(entered)
    BY <1>1, <1>3
  <2>2. entered[Len(entered)].co \in Cos
    BY Zenon, <1>1, <2>1, FrameOf
  <2> QED BY Zenon, <1>3, <2>2 DEF Running, Innermost
<1> QED BY Zenon, <1>2, <1>3

LEMMA NewInv ==
  ASSUME CoInv, NEW c \in Cos, New(c)
  PROVE  CoInv'
<1> DEFINE z == [co EXCEPT ![c] = "suspended"]
           h == [holds EXCEPT ![Running] = @ \cup {c}]
<1>1. Chain(entered, co, curco, landing) /\ co \in [Cos -> CoStates] /\ co[c] = "none"
  BY Zenon DEF CoInv, Chain, New
<1>2. /\ co' = z /\ holds' = h /\ entered' = entered /\ curco' = curco /\ landing' = landing
      /\ dead' = dead
  BY Zenon DEF New, runVars
<1>3. Chain(entered, z, curco, landing)
  BY ZenonT(30), <1>1, StillChain DEF CoStates
<1>4. Running \in Cos \cup {MainProgram} /\ holds \in [Cos \cup {MainProgram} -> SUBSET Cos]
  BY Zenon, RunningOf DEF CoInv
<1>5. h \in [Cos \cup {MainProgram} -> SUBSET Cos] /\ HasRef(h, c)
  BY Zenon, <1>4 DEF HasRef
<1>6. \A b \in Cos \ {c} : HasRef(h, b) <=> HasRef(holds, b)
  BY Zenon, <1>4 DEF HasRef
<1>7. z[c] = "suspended" /\ \A b \in Cos \ {c} : z[b] = co[b]
  BY Zenon, <1>1
<1> HIDE DEF z, h
<1>8. \A b \in Cos : Kept(b, entered, co, holds, dead)
  BY Zenon DEF CoInv
<1>9. Kept(c, entered, z, h, dead)
  <2>1. c \notin dead
    BY Zenon, <1>1, <1>8 DEF Kept
  <2>2. \A i \in 1 .. Len(entered) : entered[i].co # c
    BY Zenon, <1>1 DEF Chain
  <2> QED BY Zenon, <1>5, <1>7, <2>1, <2>2 DEF Kept
<1>10. ASSUME NEW b \in Cos \ {c} PROVE Kept(b, entered, z, h, dead)
  BY ZenonT(60), <1>6, <1>7, <1>8, KeptSame
<1> QED BY Zenon, <1>2, <1>3, <1>5, <1>9, <1>10 DEF CoInv

LEMMA RetainInv ==
  ASSUME CoInv, NEW c \in Cos, NEW x \in DOMAIN holds, Retain(c, x)
  PROVE  CoInv'
<1> DEFINE h == [holds EXCEPT ![x] = @ \cup {c}]
<1>1. /\ co' = co /\ holds' = h /\ entered' = entered /\ curco' = curco /\ landing' = landing
      /\ dead' = dead
  BY Zenon DEF Retain, runVars
<1>2. Running \in Cos \cup {MainProgram} /\ holds \in [Cos \cup {MainProgram} -> SUBSET Cos]
  BY Zenon, RunningOf DEF CoInv
<1>3. c \in holds[Running]
  BY Zenon DEF Retain
<1>4. h \in [Cos \cup {MainProgram} -> SUBSET Cos] /\ \A b \in Cos : HasRef(h, b) <=> HasRef(holds, b)
  BY Zenon, <1>2, <1>3 DEF HasRef
<1> HIDE DEF h
<1>5. ASSUME NEW b \in Cos PROVE Kept(b, entered, co, h, dead)
  BY Zenon, <1>4, KeptSame DEF CoInv
<1> QED BY Zenon, <1>1, <1>4, <1>5 DEF CoInv

LEMMA ResumeInv ==
  ASSUME CoInv, NEW c \in Cos, Resume(c)
  PROVE  CoInv'
<1>1. CASE co[c] # "suspended"
  BY Zenon, <1>1 DEF Resume, CoInv, runVars
<1>2. CASE co[c] = "suspended"
  <2> DEFINE f == [co |-> c, why |-> "resume", prev |-> curco, outer |-> landing]
             z == [co EXCEPT ![c] = "running"]
             r == Append(entered, f)
  <2>1. /\ co' = z /\ entered' = r /\ curco' = c /\ landing' = Len(entered) + 1
        /\ dead' = dead /\ holds' = holds
    BY Zenon, <1>2 DEF Resume, Enter
  <2>2. Chain(r, z, c, Len(entered) + 1)
    BY ZenonT(60), <1>2, PushChain DEF CoInv
  <2>3. f.co = c /\ f.why = "resume"
    BY Zenon
  <2>4. entered \in Seq(Frames) /\ Len(entered) \in Nat /\ co \in [Cos -> CoStates]
    <3>1. entered \in Seq(Frames) /\ co \in [Cos -> CoStates]
      BY Zenon DEF CoInv, Chain
    <3> HIDE DEF f, z, r
    <3>2. Len(entered) \in Nat
      BY <3>1
    <3> QED BY Zenon, <3>1, <3>2
  <2> HIDE DEF f
  <2>a. r = Append(entered, f)
    BY Zenon
  <2> HIDE DEF r
  <2>5. Len(r) = Len(entered) + 1 /\ r[Len(entered) + 1] = f /\ \A i \in 1 .. Len(entered) : r[i] = entered[i]
    <3>1. entered \in Seq(Frames)
      BY Zenon, <2>4
    <3>2. /\ Len(Append(entered, f)) = Len(entered) + 1 /\ Append(entered, f)[Len(entered) + 1] = f
          /\ \A i \in 1 .. Len(entered) : Append(entered, f)[i] = entered[i]
      BY <3>1, AppendOf
    <3> QED BY Zenon, <2>a, <3>2
  <2>6. z[c] = "running" /\ \A b \in Cos \ {c} : z[b] = co[b]
    BY Zenon, <2>4
  <2> HIDE DEF z
  <2>7. \A i \in 1 .. Len(r) : r[i] = f \/ (i \in 1 .. Len(entered) /\ r[i] = entered[i])
    <3>1. \A i \in 1 .. Len(r) : i = Len(entered) + 1 \/ i \in 1 .. Len(entered)
      BY SMTT(20), <2>4, <2>5
    <3> QED BY Zenon, <2>5, <3>1
  <2>8. \A i \in 1 .. Len(entered) : entered[i].co # c
    BY Zenon, <1>2 DEF CoInv, Chain
  <2>9. \A b \in Cos : Kept(b, entered, co, holds, dead)
    BY DEF CoInv
  <2>10. Kept(c, r, z, holds, dead)
    <3>1. \A i \in 1 .. Len(r) : r[i].co = c => r[i].why = "resume"
      BY ZenonT(30), <2>3, <2>7, <2>8
    <3>2. HasRef(holds, c) /\ c \notin dead
      BY Zenon, <1>2, <2>9 DEF Kept
    <3> QED BY Zenon, <2>6, <3>1, <3>2 DEF Kept
  <2>11. ASSUME NEW b \in Cos \ {c} PROVE Kept(b, r, z, holds, dead)
    <3>1. FramesFrom(b, r, entered)
      BY Zenon, <2>3, <2>7 DEF FramesFrom
    <3> QED BY Zenon, <2>6, <2>9, <3>1, KeptStill
  <2> QED BY Zenon, <2>1, <2>2, <2>10, <2>11 DEF CoInv
<1> QED BY Zenon, <1>1, <1>2

LEMMA ReleaseInv ==
  ASSUME CoInv, NEW c \in Cos, NEW x \in Cos \cup {MainProgram}, ReleaseOf(c, x)
  PROVE  CoInv'
<1>1. holds \in [Cos \cup {MainProgram} -> SUBSET Cos] /\ c \in holds[x]
  BY Zenon DEF CoInv, ReleaseOf
<1>2. holds' = [holds EXCEPT ![x] = @ \ {c}]
  BY Zenon DEF ReleaseOf
<1>3. /\ holds' \in [Cos \cup {MainProgram} -> SUBSET Cos]
      /\ HasRef(holds, c) /\ \A b \in Cos \ {c} : HasRef(holds', b) <=> HasRef(holds, b)
  BY Zenon, <1>1, <1>2 DEF HasRef
<1>5. CASE HasRef(holds', c)
  <2>2. co' = co /\ entered' = entered /\ curco' = curco /\ landing' = landing /\ dead' = dead
    BY Zenon, <1>5 DEF ReleaseOf, runVars
  <2>3. ASSUME NEW b \in Cos PROVE Kept(b, entered, co, holds', dead)
    <3>1. HasRef(holds', b) <=> HasRef(holds, b)
      BY Zenon, <1>3, <1>5
    <3> QED BY ZenonT(60), <3>1, KeptSame DEF CoInv
  <2> QED BY Zenon, <1>3, <2>2, <2>3 DEF CoInv
<1>6. CASE ~HasRef(holds', c)
  <2>1. Drop(c)
    BY Zenon, <1>6 DEF ReleaseOf
  <2> QED BY Zenon, <1>3, <1>6, <2>1, DropInv
<1> QED BY Zenon, <1>5, <1>6

LEMMA SweepInv ==
  ASSUME CoInv, NEW c \in Cos, Sweep(c)
  PROVE  CoInv'
<1>1. holds \in [Cos \cup {MainProgram} -> SUBSET Cos] /\ HasRef(holds, c)
  BY Zenon DEF CoInv, Sweep
<1>3. holds' = [x \in DOMAIN holds |-> holds[x] \ {c}] /\ Drop(c)
  BY Zenon DEF Sweep
<1>4. /\ holds' \in [Cos \cup {MainProgram} -> SUBSET Cos] /\ ~HasRef(holds', c)
      /\ \A b \in Cos \ {c} : HasRef(holds', b) <=> HasRef(holds, b)
  BY Zenon, <1>1, <1>3 DEF HasRef
<1> QED BY ZenonT(60), <1>1, <1>3, <1>4, DropInv

\* The pad of a trap is the innermost co_run's, so landing there is leaving it.
LEMMA LandInv ==
  ASSUME CoInv, Land
  PROVE  CoInv'
<1> DEFINE f == entered[Len(entered)]
           c == f.co
           r == Outer(entered)
           left == [co EXCEPT ![c] = "done"]
           gone == f.why = "cancel" \/ c \in dead
           z == IF gone THEN [left EXCEPT ![c] = "freed"] ELSE left
<1>1. entered \in Seq(Frames) /\ Len(entered) \in Nat /\ co \in [Cos -> CoStates] /\ landing = Len(entered)
  BY DEF CoInv, Chain
<1>2. Len(entered) > 0 /\ Len(entered) \in 1 .. Len(entered) /\ entered # <<>>
  BY <1>1 DEF Land
<1>3. c \in Cos /\ f.why \in {"resume", "cancel"}
  <2>1. f \in Frames /\ c \in Cos
    BY Zenon, <1>1, <1>2, FrameOf
  <2> QED BY Zenon, <2>1 DEF Frames
<1>4. Chain(r, left, f.prev, f.outer)
  BY Zenon, <1>2, PopChain DEF CoInv, CoStates
<1>5. Len(r) = Len(entered) - 1 /\ \A i \in 1 .. Len(r) : r[i] = entered[i]
  BY Zenon, <1>1, <1>2, OuterOf
<1>6. \A i \in 1 .. Len(r) : i \in 1 .. Len(entered) /\ r[i] = entered[i] /\ r[i].co # c
  BY Zenon, <1>1, <1>2, OuterApart DEF CoInv, Chain
<1>7. left[c] = "done" /\ \A b \in Cos \ {c} : left[b] = co[b]
  BY Zenon, <1>1, <1>3
<1>8. /\ co' = z /\ entered' = r /\ curco' = f.prev /\ landing' = f.outer
      /\ holds' = holds /\ dead' = dead
  BY Zenon, <1>1, <1>7 DEF Land, Freed, Outer
<1>9. \A b \in Cos : Kept(b, entered, co, holds, dead)
  BY Zenon DEF CoInv
<1>10. Chain(r, z, f.prev, f.outer)
  <2> HIDE DEF f, r, left
  <2>1. CASE gone
    BY ZenonT(60), <1>3, <1>4, <1>7, <2>1, StillChain DEF CoStates
  <2>2. CASE ~gone
    BY Zenon, <1>4, <2>2
  <2> QED BY Zenon, <2>1, <2>2
<1>11. z[c] = (IF gone THEN "freed" ELSE "done") /\ \A b \in Cos \ {c} : z[b] = co[b]
  <2>1. DOMAIN left = Cos
    BY Zenon, <1>1
  <2> HIDE DEF f, r, left
  <2>2. CASE gone
    BY Zenon, <1>3, <1>7, <2>1, <2>2
  <2>3. CASE ~gone
    BY Zenon, <1>7, <2>3
  <2> QED BY Zenon, <2>2, <2>3
<1>12. gone <=> ~HasRef(holds, c)
  BY Zenon, <1>2, <1>3, <1>9 DEF Kept
<1> HIDE DEF f, r, left, z
<1>13. Kept(c, r, z, holds, dead)
  BY Zenon, <1>6, <1>11, <1>12 DEF Kept
<1>14. ASSUME NEW b \in Cos \ {c} PROVE Kept(b, r, z, holds, dead)
  <2>1. FramesFrom(b, r, entered)
    BY Zenon, <1>6 DEF FramesFrom
  <2> QED BY Zenon, <1>9, <1>11, <2>1, KeptStill
<1> QED BY Zenon, <1>8, <1>10, <1>13, <1>14 DEF CoInv

\* Nested however it may be, no coroutine's stack is given back under a call that will
\* return to it, none twice, and each as soon as nothing refers to it or runs on it.
THEOREM StacksGivenBackOnce == CoSpec => []StacksLive
<1>1. CoInit => CoInv
  <2> SUFFICES ASSUME CoInit PROVE CoInv
    BY Zenon
  <2>1. Len(entered) = 0 /\ entered \in Seq(Frames) /\ entered = <<>>
    BY SMTT(20) DEF CoInit
  <2>2. Chain(entered, co, curco, landing)
    BY SMTT(60), <2>1 DEF CoInit, Chain, CoStates
  <2>3. \A c \in Cos : Kept(c, entered, co, holds, dead)
    BY <2>1 DEF CoInit, Kept, HasRef
  <2> QED BY Zenon, <2>2, <2>3 DEF CoInit, CoInv
<1>2. CoInv /\ [CoNext]_coVars => CoInv'
  <2> SUFFICES ASSUME CoInv, [CoNext]_coVars PROVE CoInv'
    OBVIOUS
  <2>1. CASE \E t \in CoThreads : CheckHandler(t) \/ Elect(t) \/ InstallHandler(t) \/ Publish(t) \/ AwaitHandler(t)
    <3>1. ArmsOnly
      BY Zenon, <2>1 DEF CheckHandler, Elect, InstallHandler, Publish, AwaitHandler
    <3> QED BY Zenon, <3>1 DEF ArmsOnly, refVars, runVars, CoInv
  <2>2. CASE UNCHANGED coVars \/ Trap \/ Caught \/ Teardown
    <3>1. UNCHANGED <<refVars, runVars>>
      BY Zenon, <2>2 DEF coVars, Trap, Caught, Teardown
    <3> QED BY Zenon, <3>1 DEF refVars, runVars, CoInv
  <2>3. ASSUME NEW c \in Cos, New(c) \/ Resume(c) \/ Sweep(c) PROVE CoInv'
    BY Zenon, <2>3, NewInv, ResumeInv, SweepInv
  <2>4. ASSUME NEW c \in Cos, NEW x \in DOMAIN holds, Retain(c, x) PROVE CoInv'
    BY Zenon, <2>4, RetainInv
  <2>5. ASSUME NEW c \in Cos, Release(c) PROVE CoInv'
    BY Zenon, <2>5, ReleaseInv, RunningOf DEF Release
  <2>6. ASSUME NEW x \in DOMAIN holds, ReleaseSelf(x) PROVE CoInv'
    <3>1. x \in Cos \cup {MainProgram}
      BY Zenon DEF CoInv
    <3>2. Running \in Cos /\ ReleaseOf(Running, x)
      BY Zenon, <2>6, RunningOf DEF ReleaseSelf
    <3> QED BY Zenon, <3>1, <3>2, ReleaseInv
  <2>7. CASE CoYield
    BY Zenon, <2>7, LeaveInv DEF CoYield
  <2>8. CASE BodyEnds
    BY Zenon, <2>8, LeaveInv DEF BodyEnds
  <2>9. CASE Land
    BY Zenon, <2>9, LandInv
  <2> QED BY SMTT(20), <2>1, <2>2, <2>3, <2>4, <2>5, <2>6, <2>7, <2>8, <2>9 DEF CoNext
<1>3. CoInv => StacksLive
  <2> SUFFICES ASSUME CoInv PROVE StacksLive
    BY Zenon
  <2>1. entered \in Seq(Frames) /\ DOMAIN entered = 1 .. Len(entered) /\ Chain(entered, co, curco, landing)
    <3>1. entered \in Seq(Frames) /\ Chain(entered, co, curco, landing)
      BY Zenon DEF CoInv, Chain
    <3>2. DOMAIN entered = 1 .. Len(entered)
      BY <3>1
    <3> QED BY Zenon, <3>1, <3>2
  <2>2. ASSUME NEW c \in Cos
        PROVE  /\ c \in InUse <=> co[c] = "running"
               /\ co[c] \in CoStates
    <3>1. c \in InUse <=> \E i \in 1 .. Len(entered) : entered[i].co = c
      BY Zenon, <2>1 DEF InUse
    <3>2. c \in InUse <=> co[c] = "running"
      BY ZenonT(60), <2>1, <3>1 DEF Chain
    <3> QED BY ZenonT(60), <2>1, <3>2 DEF Chain
  <2>3. ASSUME NEW c \in Cos
        PROVE  co[c] = "freed" <=> (co[c] # "none" /\ ~HasRef(holds, c) /\ c \notin InUse)
    <3>1. Kept(c, entered, co, holds, dead)
      BY Zenon DEF CoInv
    <3> QED BY Zenon, <2>2, <3>1 DEF Kept, CoStates
  <2>4. IsInjective([i \in DOMAIN entered |-> entered[i].co])
    BY Zenon, <2>1 DEF Chain, IsInjective
  <2>5. curco = (IF entered = <<>> THEN NoCo ELSE Innermost(entered).co) /\ landing = Len(entered)
    BY Zenon, <2>1 DEF Chain, Innermost
  <2> QED BY Zenon, <2>2, <2>3, <2>4, <2>5 DEF StacksLive
<1> QED BY <1>1, <1>2, <1>3, PTL DEF CoSpec
=============================================================================
