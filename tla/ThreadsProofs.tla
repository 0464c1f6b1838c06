--------------------------- MODULE ThreadsProofs ----------------------------
(***************************************************************************)
(* The thread library, proved for any number of threads: each thread is on *)
(* the list its state calls for, what a program holds it owns, no wakeup   *)
(* is lost, the abort is a deadlock, and mutex and condition variable      *)
(* implement Monitor.                                                      *)
(***************************************************************************)
EXTENDS Threads, TLAPS

USE ThreadsAssumption

States == {"none", "ready", "running", "blocked", "done", "freed"}
Places == {"user", "join", "mtx", "cnd", "once"}

-----------------------------------------------------------------------------
(* The inductive invariant.                                                *)

\* The list q holds the threads of S, each once.
Lists(q, S) ==
  /\ q \in Seq(Threads) /\ Range(q) = S
  /\ \A i, j \in 1 .. Len(q) : q[i] = q[j] => i = j

Ready(st) == {t \in Threads : st[t] = "ready" /\ t # Main}
Parked(st, a, place) == {t \in Threads : st[t] = "blocked" /\ a[t] = place}
Joiners(st, a, tg, u) == {t \in Threads : st[t] = "blocked" /\ a[t] = "join" /\ tg[t] = u}

Queue == Seq(Threads)
MtxType ==
  [recursive : BOOLEAN, locked : BOOLEAN, count : Nat, owner : Threads \cup {Nobody}, waiters : Queue]
OnceType == [state : {0, 1, 2}, owner : Threads \cup {Nobody}, waiters : Queue]

TInv ==
  /\ state \in [Threads -> States] /\ at \in [Threads -> Places] /\ cur \in Threads
  /\ target \in [Threads -> Threads \cup {Nobody}] /\ detached \in SUBSET Threads
  /\ depth \in [Threads -> Nat] /\ held \in [Threads -> Nat] /\ passed \in BOOLEAN
  /\ mtx \in MtxType /\ once \in OnceType
  /\ join_waiters \in [Threads -> Queue] /\ over \in {"no", "exit", "abort"}

\* Every list is what the states, and the loops threads are in, say it is.
WaitInv(st, a, tg, m, c, o, j) ==
  /\ Lists(m, Parked(st, a, "mtx")) /\ Lists(c, Parked(st, a, "cnd")) /\ Lists(o, Parked(st, a, "once"))
  /\ \A u \in Threads : Lists(j[u], Joiners(st, a, tg, u))

ListInv ==
  /\ Lists(rq, Ready(state))
  /\ WaitInv(state, at, target, mtx.waiters, cnd, once.waiters, join_waiters)
  /\ \A t \in Threads : state[t] = "blocked" => at[t] # "user"
  /\ \A t \in Threads : state[t] = "running" => t \in {cur, Main}

\* A thread that is joined is there until its one joiner reaps it.
JoinInv ==
  /\ \A t \in Threads :
       IF at[t] = "join"
       THEN /\ target[t] \in Spawned \ (detached \cup {t}) /\ state[target[t]] \notin {"none", "freed"}
            /\ state[t] = "blocked" => state[target[t]] # "done"
       ELSE target[t] = Nobody
  /\ \A t, u \in Threads : target[t] = target[u] /\ target[t] # Nobody => t = u

\* The mutex is held as deeply as its owner locked it; a thread that waits for it, or on
\* the condition variable, has given up what it will get back.
HeldInv ==
  /\ \A t \in Threads :
       IF at[t] \in {"mtx", "cnd"} THEN held[t] = depth[t] /\ mtx.owner # t
       ELSE depth[t] = 0 /\ (held[t] > 0 => mtx.owner = t)
  /\ mtx.locked <=> mtx.owner # Nobody
  /\ mtx.owner # Nobody => mtx.count > 0 /\ held[mtx.owner] = mtx.count
  /\ mtx.owner = Nobody => mtx.count = 0
  /\ ~mtx.recursive => mtx.count <= 1 /\ \A t \in Threads : depth[t] <= 1
  /\ passed => once.state = 2

ThreadsInv == TInv /\ ListInv /\ JoinInv /\ HeldInv /\ NoLostWakeup /\ AbortIsDeadlock

-----------------------------------------------------------------------------
(* Lists.                                                                  *)

LEMMA ListsOf ==
  ASSUME NEW q \in Seq(Threads), NEW S,
         \A x : x \in S <=> \E i \in 1 .. Len(q) : q[i] = x,
         \A i, j \in 1 .. Len(q) : q[i] = q[j] => i = j
  PROVE  Lists(q, S)
<1>1. DOMAIN q = 1 .. Len(q)
  OBVIOUS
<1>2. Range(q) = S
  BY <1>1 DEF Range
<1> QED BY Zenon, <1>2 DEF Lists

LEMMA InList ==
  ASSUME NEW q, NEW S, Lists(q, S)
  PROVE  /\ q \in Seq(Threads) /\ Len(q) \in Nat /\ S \subseteq Threads
         /\ \A x : x \in S <=> \E i \in 1 .. Len(q) : q[i] = x
         /\ \A i, j \in 1 .. Len(q) : q[i] = q[j] => i = j
         /\ q = <<>> <=> S = {}
<1>1. q \in Seq(Threads) /\ Len(q) \in Nat /\ DOMAIN q = 1 .. Len(q)
  BY DEF Lists
<1>2. \A x : x \in S <=> \E i \in 1 .. Len(q) : q[i] = x
  BY Zenon, <1>1 DEF Lists, Range
<1>3. q = <<>> <=> Len(q) = 0
  BY <1>1
<1>4. Len(q) = 0 <=> S = {}
  <2>1. CASE Len(q) = 0
    BY <1>2, <2>1
  <2>2. CASE Len(q) # 0
    <3>1. 1 \in 1 .. Len(q)
      BY <1>1, <2>2
    <3> QED BY Zenon, <1>2, <2>2, <3>1
  <2> QED BY Zenon, <2>1, <2>2
<1>5. S \subseteq Threads
  BY <1>1, <1>2
<1> QED BY Zenon, <1>1, <1>2, <1>3, <1>4, <1>5 DEF Lists

LEMMA AppendLists ==
  ASSUME NEW q, NEW S, Lists(q, S), NEW t \in Threads, t \notin S
  PROVE  Lists(Append(q, t), S \cup {t})
<1> DEFINE r == Append(q, t)
<1>1. q \in Seq(Threads) /\ Len(q) \in Nat /\ \A x : x \in S <=> \E i \in 1 .. Len(q) : q[i] = x
  BY Zenon, InList
<1>2. r \in Seq(Threads) /\ Len(r) = Len(q) + 1 /\ r[Len(q) + 1] = t /\ \A i \in 1 .. Len(q) : r[i] = q[i]
  BY <1>1
<1> HIDE DEF r
<1>3. \A i \in 1 .. Len(r) : i \in 1 .. Len(q) \/ i = Len(q) + 1
  BY <1>1, <1>2
<1>4. \A i \in 1 .. Len(q) : i \in 1 .. Len(r) /\ Len(q) + 1 \in 1 .. Len(r)
  BY <1>1, <1>2
<1>5. Len(q) + 1 \in 1 .. Len(r)
  BY <1>1, <1>2
<1>6. \A x : x \in S \cup {t} <=> \E i \in 1 .. Len(r) : r[i] = x
  BY Zenon, <1>1, <1>2, <1>3, <1>4, <1>5
<1>7. \A i, j \in 1 .. Len(r) : r[i] = r[j] => i = j
  BY <1>1, <1>2, <1>3, InList
<1>8. Lists(r, S \cup {t})
  BY <1>2, <1>6, <1>7, ListsOf
<1> QED BY Zenon, <1>8 DEF r

LEMMA TailLists ==
  ASSUME NEW q, NEW S, Lists(q, S), q # <<>>
  PROVE  Head(q) \in S /\ Lists(Tail(q), S \ {Head(q)})
<1> DEFINE r == Tail(q)
           h == Head(q)
<1>1. /\ q \in Seq(Threads) /\ Len(q) \in Nat /\ \A x : x \in S <=> \E i \in 1 .. Len(q) : q[i] = x
      /\ \A i, j \in 1 .. Len(q) : q[i] = q[j] => i = j
  BY Zenon, InList
<1>2. Len(q) > 0
  BY <1>1
<1>3. r \in Seq(Threads) /\ Len(r) = Len(q) - 1 /\ h = q[1] /\ \A i \in 1 .. Len(r) : r[i] = q[i+1]
  BY <1>1, <1>2
<1> HIDE DEF r, h
<1>4. 1 \in 1 .. Len(q) /\ h \in S
  BY <1>1, <1>2, <1>3
<1>5. \A i \in 1 .. Len(r) : i + 1 \in 1 .. Len(q) /\ i + 1 # 1
  BY <1>1, <1>2, <1>3
<1>6. \A i \in 1 .. Len(q) : i # 1 => i - 1 \in 1 .. Len(r) /\ r[i-1] = q[i]
  <2> TAKE i \in 1 .. Len(q)
  <2> HAVE i # 1
  <2>1. i - 1 \in 1 .. Len(r) /\ (i - 1) + 1 = i
    BY <1>1, <1>2, <1>3
  <2> QED BY Zenon, <1>3, <2>1
<1>7. \A x : x \in S \ {h} <=> \E i \in 1 .. Len(r) : r[i] = x
  <2>1. ASSUME NEW x \in S \ {h} PROVE \E i \in 1 .. Len(r) : r[i] = x
    <3>1. PICK i \in 1 .. Len(q) : q[i] = x
      BY Zenon, <1>1
    <3>2. i # 1
      BY Zenon, <1>3, <3>1
    <3> QED BY Zenon, <1>6, <3>1, <3>2
  <2>2. ASSUME NEW i \in 1 .. Len(r) PROVE r[i] \in S \ {h}
    BY <1>1, <1>3, <1>4, <1>5
  <2> QED BY Zenon, <2>1, <2>2
<1>8. \A i, j \in 1 .. Len(r) : r[i] = r[j] => i = j
  <2> TAKE i, j \in 1 .. Len(r)
  <2>1. r[i] = r[j] => i + 1 = j + 1
    BY <1>1, <1>3, <1>5
  <2> QED BY <1>3, <2>1
<1>9. Lists(r, S \ {h})
  BY Zenon, <1>3, <1>7, <1>8, ListsOf
<1> QED BY Zenon, <1>4, <1>9 DEF r, h

LEMMA EmptyLists == Lists(<<>>, {})
<1>1. <<>> \in Seq(Threads) /\ DOMAIN <<>> = {} /\ Len(<<>>) = 0
  OBVIOUS
<1>2. Range(<<>>) = {}
  BY Zenon, <1>1 DEF Range
<1> QED BY <1>1, <1>2 DEF Lists

LEMMA OneLists ==
  ASSUME NEW t \in Threads
  PROVE  Lists(<<t>>, {t})
<1>1. <<t>> \in Seq(Threads) /\ Len(<<t>>) = 1 /\ <<t>>[1] = t
  OBVIOUS
<1> DEFINE q == <<t>>
<1> HIDE DEF q
<1>2. q \in Seq(Threads) /\ Len(q) = 1 /\ q[1] = t
  BY Zenon, <1>1 DEF q
<1>3. Lists(q, {t})
  BY <1>2, ListsOf
<1> QED BY Zenon, <1>3 DEF q

LEMMA ConcatLists ==
  ASSUME NEW p, NEW S, Lists(p, S), NEW q, NEW T, Lists(q, T), S \cap T = {}
  PROVE  Lists(p \o q, S \cup T)
<1> DEFINE r == p \o q
           m == Len(p)
           n == Len(q)
<1>1. /\ p \in Seq(Threads) /\ m \in Nat /\ \A x : x \in S <=> \E i \in 1 .. m : p[i] = x
      /\ \A i, j \in 1 .. m : p[i] = p[j] => i = j
  BY Zenon, InList
<1>2. /\ q \in Seq(Threads) /\ n \in Nat /\ \A x : x \in T <=> \E i \in 1 .. n : q[i] = x
      /\ \A i, j \in 1 .. n : q[i] = q[j] => i = j
  BY Zenon, InList
<1>3. r \in Seq(Threads) /\ Len(r) = m + n /\ \A i \in 1 .. m + n : r[i] = IF i <= m THEN p[i] ELSE q[i - m]
  BY <1>1, <1>2
<1> HIDE DEF r, m, n
<1>4. \A i \in 1 .. m + n : i \in 1 .. m \/ (i - m \in 1 .. n /\ i > m)
  BY <1>1, <1>2
<1>5. \A i \in 1 .. m : i \in 1 .. m + n /\ r[i] = p[i]
  BY <1>1, <1>2, <1>3
<1>6. \A i \in 1 .. n : i + m \in 1 .. m + n /\ r[i + m] = q[i]
  <2> TAKE i \in 1 .. n
  <2>1. i + m \in 1 .. m + n /\ ~(i + m <= m) /\ (i + m) - m = i
    BY <1>1, <1>2
  <2> QED BY Zenon, <1>3, <2>1
<1>7. \A i \in 1 .. m + n : i > m => r[i] = q[i - m]
  BY <1>1, <1>2, <1>3
<1>8. \A x : x \in S \cup T <=> \E i \in 1 .. Len(r) : r[i] = x
  <2>1. ASSUME NEW x \in S \cup T PROVE \E i \in 1 .. Len(r) : r[i] = x
    <3>1. CASE x \in S
      BY Zenon, <1>1, <1>3, <1>5, <3>1
    <3>2. CASE x \in T
      BY ZenonT(30), <1>2, <1>3, <1>6, <3>2
    <3> QED BY Zenon, <3>1, <3>2
  <2>2. ASSUME NEW i \in 1 .. m + n PROVE r[i] \in S \cup T
    BY <1>1, <1>2, <1>4, <1>5, <1>7
  <2> QED BY Zenon, <1>3, <2>1, <2>2
<1>9. \A i, j \in 1 .. Len(r) : r[i] = r[j] => i = j
  <2> TAKE i, j \in 1 .. Len(r)
  <2> HAVE r[i] = r[j]
  <2>1. i \in 1 .. m + n /\ j \in 1 .. m + n
    BY Zenon, <1>3
  <2>2. CASE i \in 1 .. m /\ j \in 1 .. m
    BY Zenon, <1>1, <1>5, <2>2
  <2>3. CASE i > m /\ j > m
    <3>1. i - m \in 1 .. n /\ j - m \in 1 .. n
      BY <1>1, <1>2, <2>1, <2>3
    <3>2. q[i - m] = q[j - m]
      BY Zenon, <1>7, <2>1, <2>3
    <3>3. i - m = j - m
      BY Zenon, <1>2, <3>1, <3>2
    <3> QED BY <1>1, <1>2, <2>1, <3>3
  <2>4. CASE (i \in 1 .. m /\ j > m) \/ (j \in 1 .. m /\ i > m)
    <3>1. \A k \in 1 .. m : r[k] \in S
      BY Zenon, <1>1, <1>5
    <3>2. \A k \in 1 .. m + n : k > m => r[k] \in T
      <4> TAKE k \in 1 .. m + n
      <4> HAVE k > m
      <4>1. k - m \in 1 .. n
        BY <1>1, <1>2
      <4> QED BY Zenon, <1>2, <1>7, <4>1
    <3> QED BY Zenon, <2>1, <2>4, <3>1, <3>2
  <2> QED BY Zenon, <1>4, <2>1, <2>2, <2>3, <2>4
<1>10. Lists(r, S \cup T)
  BY Zenon, <1>3, <1>8, <1>9, ListsOf
<1> QED BY Zenon, <1>10 DEF r

LEMMA SubLists ==
  ASSUME NEW q, NEW S, Lists(q, S), NEW a \in Nat \ {0}, NEW b \in Nat, b <= Len(q)
  PROVE  Lists(SubSeq(q, a, b), {q[i] : i \in a .. b})
<1> DEFINE r == SubSeq(q, a, b)
           T == {q[i] : i \in a .. b}
<1>1. q \in Seq(Threads) /\ Len(q) \in Nat /\ \A i, j \in 1 .. Len(q) : q[i] = q[j] => i = j
  BY Zenon, InList
<1>2. \A i \in a .. b : i \in 1 .. Len(q) /\ q[i] \in Threads
  BY <1>1
<1>3. /\ r \in Seq(Threads) /\ Len(r) = (IF a <= b THEN b - a + 1 ELSE 0)
      /\ \A i \in 1 .. b - a + 1 : r[i] = q[a + i - 1]
  BY <1>2
<1>4. \A x : x \in T <=> \E i \in a .. b : q[i] = x
  BY Zenon
<1> HIDE DEF r, T
<1>5. \A i \in 1 .. Len(r) : a + i - 1 \in a .. b /\ r[i] = q[a + i - 1]
  BY <1>3
<1>6. \A i \in a .. b : i - a + 1 \in 1 .. Len(r) /\ r[i - a + 1] = q[i]
  <2> TAKE i \in a .. b
  <2>1. i - a + 1 \in 1 .. Len(r) /\ a + (i - a + 1) - 1 = i
    BY <1>3
  <2> QED BY Zenon, <1>5, <2>1
<1>7. \A x : x \in T <=> \E i \in 1 .. Len(r) : r[i] = x
  BY ZenonT(60), <1>4, <1>5, <1>6
<1>8. \A i, j \in 1 .. Len(r) : r[i] = r[j] => i = j
  <2> TAKE i, j \in 1 .. Len(r)
  <2> HAVE r[i] = r[j]
  <2>1. a + i - 1 = a + j - 1
    BY Zenon, <1>1, <1>2, <1>5
  <2> QED BY <1>3, <2>1
<1>9. Lists(r, T)
  BY Zenon, <1>3, <1>7, <1>8, ListsOf
<1> QED BY Zenon, <1>9 DEF r, T

LEMMA NoMainLists ==
  ASSUME NEW q, NEW S, Lists(q, S)
  PROVE  Lists(NoMain(q), S \ {Main})
<1>1. /\ q \in Seq(Threads) /\ Len(q) \in Nat /\ \A x : x \in S <=> \E i \in 1 .. Len(q) : q[i] = x
      /\ \A i, j \in 1 .. Len(q) : q[i] = q[j] => i = j
  BY Zenon, InList
<1>2. CASE Main \notin S
  <2>1. NoMain(q) = q
    BY Zenon, <1>2 DEF NoMain, Lists
  <2>2. S \ {Main} = S
    BY Zenon, <1>2
  <2> QED BY Zenon, <2>1, <2>2
<1>3. CASE Main \in S
  <2> DEFINE k == CHOOSE i \in DOMAIN q : q[i] = Main
  <2>1. k \in 1 .. Len(q) /\ q[k] = Main
    BY <1>1, <1>3
  <2>2. NoMain(q) = SubSeq(q, 1, k - 1) \o SubSeq(q, k + 1, Len(q))
    BY Zenon, <1>3 DEF NoMain, Lists
  <2> HIDE DEF k
  <2>3. k \in Nat /\ k >= 1 /\ k <= Len(q) /\ k <= k
    BY <1>1, <2>1
  <2> DEFINE A == {q[i] : i \in 1 .. k - 1}
             B == {q[i] : i \in k + 1 .. Len(q)}
  <2>7. Lists(SubSeq(q, 1, k - 1), A)
    <3>1. 1 \in Nat \ {0} /\ k - 1 \in Nat /\ k - 1 <= Len(q)
      BY <1>1, <2>3
    <3> QED BY Zenon, <3>1, SubLists
  <2>8. Lists(SubSeq(q, k + 1, Len(q)), B)
    <3>1. k + 1 \in Nat \ {0} /\ Len(q) \in Nat /\ Len(q) <= Len(q)
      BY <1>1, <2>3
    <3> QED BY Zenon, <3>1, SubLists
  <2>9. \A i \in 1 .. k - 1 : i \in 1 .. Len(q) /\ i # k
    BY <1>1, <2>3
  <2>10. \A i \in k + 1 .. Len(q) : i \in 1 .. Len(q) /\ i # k /\ i \notin 1 .. k - 1
    BY <1>1, <2>3
  <2>11. \A i \in 1 .. Len(q) : i = k \/ i \in 1 .. k - 1 \/ i \in k + 1 .. Len(q)
    BY <1>1, <2>3
  <2>12. A \cap B = {}
    BY <1>1, <2>9, <2>10
  <2>13. A \cup B = S \ {Main}
    <3>1. \A x \in A \cup B : x \in S \ {Main}
      BY <1>1, <2>1, <2>9, <2>10
    <3>2. \A x \in S \ {Main} : x \in A \cup B
      BY <1>1, <2>1, <2>11
    <3> QED BY Zenon, <3>1, <3>2
  <2> HIDE DEF A, B
  <2>14. Lists(SubSeq(q, 1, k - 1) \o SubSeq(q, k + 1, Len(q)), A \cup B)
    BY Zenon, <2>7, <2>8, <2>12, ConcatLists
  <2> QED BY Zenon, <2>2, <2>13, <2>14
<1> QED BY Zenon, <1>2, <1>3

\* The threads of a wait list, woken, follow those in the run queue.
LEMMA QueuedLists ==
  ASSUME NEW R, Lists(rq, R), NEW ws, NEW S, Lists(ws, S), R \cap S = {}
  PROVE  Lists(Queued(ws), R \cup (S \ {Main}))
<1>1. Lists(NoMain(ws), S \ {Main})
  BY Zenon, NoMainLists
<1>2. R \cap (S \ {Main}) = {}
  BY Zenon
<1> QED BY Zenon, <1>1, <1>2, ConcatLists DEF Queued

\* wq_pop.
LEMMA PopLists ==
  ASSUME NEW q, NEW S, Lists(q, S)
  PROVE  \E G \in SUBSET S : /\ Lists(Popped(q), G) /\ Lists(Rest(q), S \ G)
                             /\ S # {} => G # {}
<1>1. CASE q = <<>>
  <2>1. S = {} /\ Popped(q) = <<>> /\ Rest(q) = <<>> /\ {} \ {} = {}
    BY Zenon, <1>1, InList DEF Popped, Rest
  <2> QED BY Zenon, <2>1, EmptyLists
<1>2. CASE q # <<>>
  <2>1. Head(q) \in S /\ Lists(Tail(q), S \ {Head(q)}) /\ S \subseteq Threads
    BY Zenon, <1>2, TailLists, InList
  <2>2. Lists(<<Head(q)>>, {Head(q)})
    BY Zenon, <2>1, OneLists
  <2>3. Popped(q) = <<Head(q)>> /\ Rest(q) = Tail(q)
    BY Zenon, <1>2 DEF Popped, Rest
  <2>4. {Head(q)} \in SUBSET S
    BY Zenon, <2>1
  <2> QED BY Zenon, <2>1, <2>2, <2>3, <2>4
<1> QED BY Zenon, <1>1, <1>2

-----------------------------------------------------------------------------
(* Parking and waking.                                                     *)

LEMMA StillWaits ==
  ASSUME NEW st, NEW a, NEW tg, NEW m, NEW c, NEW o, NEW j, WaitInv(st, a, tg, m, c, o, j),
         NEW s2, NEW a2, NEW t2, \A x \in Threads : s2[x] = "blocked" <=> st[x] = "blocked",
         \A x \in Threads : st[x] = "blocked" => a2[x] = a[x] /\ t2[x] = tg[x]
  PROVE  WaitInv(s2, a2, t2, m, c, o, j)
<1>1. \A p : Parked(s2, a2, p) = Parked(st, a, p)
  BY Zenon DEF Parked
<1>2. \A u : Joiners(s2, a2, t2, u) = Joiners(st, a, tg, u)
  BY Zenon DEF Joiners
<1> QED BY Zenon, <1>1, <1>2 DEF WaitInv

\* Those of G are readied.
Woken(st, s2, G) == \A x \in Threads : s2[x] = IF x \in G THEN "ready" ELSE st[x]

LEMMA WokenSets ==
  ASSUME NEW st, NEW s2, NEW G, Woken(st, s2, G), NEW a, NEW tg
  PROVE  /\ \A p : Parked(s2, a, p) = Parked(st, a, p) \ G
         /\ \A u : Joiners(s2, a, tg, u) = Joiners(st, a, tg, u) \ G
<1>1. \A p : Parked(s2, a, p) = Parked(st, a, p) \ G
  BY Zenon DEF Parked, Woken
<1>2. \A u : Joiners(s2, a, tg, u) = Joiners(st, a, tg, u) \ G
  BY Zenon DEF Joiners, Woken
<1> QED BY Zenon, <1>1, <1>2

LEMMA WakeMtx ==
  ASSUME NEW st, NEW a, NEW tg, NEW m, NEW c, NEW o, NEW j, WaitInv(st, a, tg, m, c, o, j),
         NEW s2, NEW m2, NEW G \in SUBSET Parked(st, a, "mtx"),
         Lists(m2, Parked(st, a, "mtx") \ G), Woken(st, s2, G)
  PROVE  WaitInv(s2, a, tg, m2, c, o, j)
<1>0. /\ \A p : Parked(s2, a, p) = Parked(st, a, p) \ G
      /\ \A u : Joiners(s2, a, tg, u) = Joiners(st, a, tg, u) \ G
  BY WokenSets
<1>1. /\ Parked(st, a, "cnd") \ G = Parked(st, a, "cnd") /\ Parked(st, a, "once") \ G = Parked(st, a, "once")
      /\ \A u : Joiners(st, a, tg, u) \ G = Joiners(st, a, tg, u)
  BY Zenon DEF Parked, Joiners
<1> QED BY Zenon, <1>0, <1>1 DEF WaitInv

LEMMA WakeCnd ==
  ASSUME NEW st, NEW a, NEW tg, NEW m, NEW c, NEW o, NEW j, WaitInv(st, a, tg, m, c, o, j),
         NEW s2, NEW c2, NEW G \in SUBSET Parked(st, a, "cnd"),
         Lists(c2, Parked(st, a, "cnd") \ G), Woken(st, s2, G)
  PROVE  WaitInv(s2, a, tg, m, c2, o, j)
<1>0. /\ \A p : Parked(s2, a, p) = Parked(st, a, p) \ G
      /\ \A u : Joiners(s2, a, tg, u) = Joiners(st, a, tg, u) \ G
  BY WokenSets
<1>1. /\ Parked(st, a, "mtx") \ G = Parked(st, a, "mtx") /\ Parked(st, a, "once") \ G = Parked(st, a, "once")
      /\ \A u : Joiners(st, a, tg, u) \ G = Joiners(st, a, tg, u)
  BY Zenon DEF Parked, Joiners
<1> QED BY Zenon, <1>0, <1>1 DEF WaitInv

LEMMA WakeOnce ==
  ASSUME NEW st, NEW a, NEW tg, NEW m, NEW c, NEW o, NEW j, WaitInv(st, a, tg, m, c, o, j),
         NEW s2, Woken(st, s2, Parked(st, a, "once"))
  PROVE  WaitInv(s2, a, tg, m, c, <<>>, j)
<1> DEFINE G == Parked(st, a, "once")
<1>0. /\ \A p : Parked(s2, a, p) = Parked(st, a, p) \ G
      /\ \A u : Joiners(s2, a, tg, u) = Joiners(st, a, tg, u) \ G
  BY WokenSets
<1>1. /\ Parked(st, a, "mtx") \ G = Parked(st, a, "mtx") /\ Parked(st, a, "cnd") \ G = Parked(st, a, "cnd")
      /\ \A u : Joiners(st, a, tg, u) \ G = Joiners(st, a, tg, u) /\ G \ G = {}
  BY Zenon DEF Parked, Joiners
<1> QED BY Zenon, <1>0, <1>1, EmptyLists DEF WaitInv

LEMMA WakeJoin ==
  ASSUME NEW st, NEW a, NEW tg, NEW m, NEW c, NEW o, NEW j \in [Threads -> Seq(Threads)],
         WaitInv(st, a, tg, m, c, o, j), NEW u \in Threads,
         NEW s2, Woken(st, s2, Joiners(st, a, tg, u))
  PROVE  WaitInv(s2, a, tg, m, c, o, [j EXCEPT ![u] = <<>>])
<1> DEFINE G == Joiners(st, a, tg, u)
           j2 == [j EXCEPT ![u] = <<>>]
<1>0. Woken(st, s2, G) /\ G = Joiners(st, a, tg, u)
  BY Zenon
<1>1. /\ Parked(st, a, "mtx") \ G = Parked(st, a, "mtx") /\ Parked(st, a, "cnd") \ G = Parked(st, a, "cnd")
      /\ Parked(st, a, "once") \ G = Parked(st, a, "once")
  BY Zenon DEF Parked, Joiners
<1>2. G \ G = {} /\ \A v : v # u => Joiners(st, a, tg, v) \ G = Joiners(st, a, tg, v)
  BY Zenon DEF Joiners
<1>3. j2[u] = <<>> /\ \A v \in Threads : v # u => j2[v] = j[v]
  BY Zenon
<1> HIDE DEF j2, G
<1>4. /\ \A p : Parked(s2, a, p) = Parked(st, a, p) \ G
      /\ \A v : Joiners(s2, a, tg, v) = Joiners(st, a, tg, v) \ G
  <2>1. \A p : Parked(s2, a, p) = Parked(st, a, p) \ G
    BY Zenon, <1>0 DEF Parked, Woken
  <2>2. \A v : Joiners(s2, a, tg, v) = Joiners(st, a, tg, v) \ G
    BY Zenon, <1>0 DEF Joiners, Woken
  <2> QED BY Zenon, <2>1, <2>2
<1>5. ASSUME NEW v \in Threads PROVE Lists(j2[v], Joiners(s2, a, tg, v))
  <2>1. CASE v = u
    BY Zenon, <1>0, <1>2, <1>3, <1>4, <2>1, EmptyLists
  <2>2. CASE v # u
    BY Zenon, <1>0, <1>2, <1>3, <1>4, <2>2 DEF WaitInv
  <2> QED BY Zenon, <2>1, <2>2
<1>6. WaitInv(s2, a, tg, m, c, o, j2)
  BY Zenon, <1>1, <1>4, <1>5 DEF WaitInv
<1> QED BY Zenon, <1>6 DEF j2

\* t parks at a place.
ParksAt(st, a, s2, a2, t, p) ==
  /\ st[t] # "blocked" /\ s2[t] = "blocked" /\ a2[t] = p
  /\ \A x \in Threads \ {t} : s2[x] = st[x] /\ a2[x] = a[x]

LEMMA ParkedSets ==
  ASSUME NEW st, NEW a, NEW s2, NEW a2, NEW t \in Threads, NEW p, ParksAt(st, a, s2, a2, t, p)
  PROVE  /\ Parked(s2, a2, p) = Parked(st, a, p) \cup {t} /\ t \notin Parked(st, a, p)
         /\ \A q : q # p => Parked(s2, a2, q) = Parked(st, a, q)
<1>1. Parked(s2, a2, p) = Parked(st, a, p) \cup {t} /\ t \notin Parked(st, a, p)
  BY DEF Parked, ParksAt
<1>2. \A q : q # p => Parked(s2, a2, q) = Parked(st, a, q)
  BY Zenon DEF Parked, ParksAt
<1> QED BY Zenon, <1>1, <1>2

LEMMA ParkPlace ==
  ASSUME NEW st, NEW a, NEW tg, NEW m, NEW c, NEW o, NEW j, WaitInv(st, a, tg, m, c, o, j),
         NEW s2, NEW a2, NEW t \in Threads, NEW p \in {"mtx", "cnd", "once"}, ParksAt(st, a, s2, a2, t, p)
  PROVE  /\ p = "mtx" => WaitInv(s2, a2, tg, Append(m, t), c, o, j)
         /\ p = "cnd" => WaitInv(s2, a2, tg, m, Append(c, t), o, j)
         /\ p = "once" => WaitInv(s2, a2, tg, m, c, Append(o, t), j)
<1>1. \A u : Joiners(s2, a2, tg, u) = Joiners(st, a, tg, u)
  BY Zenon DEF Joiners, ParksAt
<1>2. /\ Parked(s2, a2, p) = Parked(st, a, p) \cup {t} /\ t \notin Parked(st, a, p)
      /\ \A q : q # p => Parked(s2, a2, q) = Parked(st, a, q)
  BY ParkedSets
<1>3. CASE p = "mtx"
  BY <1>1, <1>2, <1>3, AppendLists DEF WaitInv
<1>4. CASE p = "cnd"
  BY <1>1, <1>2, <1>4, AppendLists DEF WaitInv
<1>5. CASE p = "once"
  BY <1>1, <1>2, <1>5, AppendLists DEF WaitInv
<1> QED BY Zenon, <1>3, <1>4, <1>5

Retargets(tg, t2, t, u) == t2[t] = u /\ \A x \in Threads \ {t} : t2[x] = tg[x]

LEMMA ParkJoin ==
  ASSUME NEW st, NEW a, NEW tg, NEW m, NEW c, NEW o, NEW j \in [Threads -> Seq(Threads)],
         WaitInv(st, a, tg, m, c, o, j),
         NEW s2, NEW a2, NEW t2, NEW t \in Threads, NEW u \in Threads, ParksAt(st, a, s2, a2, t, "join"),
         Retargets(tg, t2, t, u)
  PROVE  WaitInv(s2, a2, t2, m, c, o, [j EXCEPT ![u] = Append(@, t)])
<1> DEFINE j2 == [j EXCEPT ![u] = Append(@, t)]
<1>1. \A q : q # "join" => Parked(s2, a2, q) = Parked(st, a, q)
  BY Zenon DEF Parked, ParksAt
<1>2. Joiners(s2, a2, t2, u) = Joiners(st, a, tg, u) \cup {t} /\ t \notin Joiners(st, a, tg, u)
  BY DEF Joiners, ParksAt, Retargets
<1>3. \A v : v # u => Joiners(s2, a2, t2, v) = Joiners(st, a, tg, v)
  BY ZenonT(60) DEF Joiners, ParksAt, Retargets
<1>4. j2[u] = Append(j[u], t) /\ \A v \in Threads : v # u => j2[v] = j[v]
  BY Zenon
<1> HIDE DEF j2
<1>5. ASSUME NEW v \in Threads PROVE Lists(j2[v], Joiners(s2, a2, t2, v))
  <2>1. CASE v = u
    <3>1. Lists(j[u], Joiners(st, a, tg, u))
      BY Zenon DEF WaitInv
    <3>2. Lists(Append(j[u], t), Joiners(st, a, tg, u) \cup {t})
      BY Zenon, <1>2, <3>1, AppendLists
    <3> QED BY Zenon, <1>2, <1>4, <2>1, <3>2
  <2>2. CASE v # u
    BY Zenon, <1>3, <1>4, <2>2 DEF WaitInv
  <2> QED BY Zenon, <2>1, <2>2
<1>6. WaitInv(s2, a2, t2, m, c, o, j2)
  BY ZenonT(60), <1>1, <1>5 DEF WaitInv
<1> QED BY Zenon, <1>6 DEF j2

\* ready() of the threads of a wait list: they are queued, all but main.
LEMMA WakesReady ==
  ASSUME state \in [Threads -> States], Lists(rq, Ready(state)),
         NEW ws, NEW G, Lists(ws, G), \A x \in G : state[x] = "blocked"
  PROVE  /\ Woken(state, Readied(state, ws), G) /\ Readied(state, ws) \in [Threads -> States]
         /\ Lists(Queued(ws), Ready(Readied(state, ws)))
<1>1. Range(ws) = G /\ G \subseteq Threads
  BY Zenon, InList DEF Lists
<1>2. Woken(state, Readied(state, ws), G) /\ Readied(state, ws) \in [Threads -> States]
  BY Zenon, <1>1 DEF Woken, Readied, States
<1>3. Ready(state) \cap G = {}
  BY Zenon DEF Ready
<1>4. Ready(Readied(state, ws)) = Ready(state) \cup (G \ {Main})
  BY Zenon, <1>1, <1>2 DEF Ready, Woken
<1> QED BY <1>2, <1>3, <1>4, QueuedLists

-----------------------------------------------------------------------------
(* The lists, step by step.                                                *)

Waiting == WaitInv(state, at, target, mtx.waiters, cnd, once.waiters, join_waiters)

\* What is left of ListInv when the waits are settled.
Standing ==
  /\ \A t \in Threads : state[t] = "blocked" => at[t] # "user"
  /\ \A t \in Threads : state[t] = "running" => t \in {cur, Main}

\* block_current: those of a list are readied, then t parks.
LEMMA BlocksStep ==
  ASSUME TInv, ListInv, NEW t \in Threads, Runs(t), NEW ws, NEW G, Lists(ws, G),
         \A x \in G : state[x] = "blocked", NEW p \in Places \ {"user"}, Blocks(t, ws, p)
  PROVE  /\ Woken(state, Readied(state, ws), G)
         /\ ParksAt(Readied(state, ws), at, state', at', t, p)
         /\ Lists(rq', Ready(state')) /\ Standing'
<1> DEFINE mid == Readied(state, ws)
<1>1. Woken(state, mid, G) /\ mid \in [Threads -> States] /\ Lists(Queued(ws), Ready(mid))
  BY Zenon, WakesReady DEF TInv, ListInv
<1>2. state[t] = "running" /\ cur = t /\ t \notin G
  BY Zenon DEF Runs
<1>3. mid[t] = "running"
  BY Zenon, <1>1, <1>2 DEF Woken
<1> HIDE DEF mid
<1>4. state' = [mid EXCEPT ![t] = "blocked"] /\ rq' = Queued(ws) /\ cur' = Main /\ at' = [at EXCEPT ![t] = p]
  BY Zenon DEF Blocks, mid
<1>5. ParksAt(mid, at, state', at', t, p)
  BY Zenon, <1>1, <1>3, <1>4 DEF ParksAt, TInv
<1>6. Ready(state') = Ready(mid)
  BY Zenon, <1>1, <1>3, <1>4 DEF Ready
<1>7. \A x \in Threads : state'[x] = "blocked" => at'[x] # "user"
  <2>1. \A x \in Threads \ {t} : state'[x] = "blocked" => state[x] = "blocked" /\ at'[x] = at[x]
    BY Zenon, <1>1, <1>5 DEF ParksAt, Woken
  <2> QED BY Zenon, <1>5, <2>1 DEF ListInv, ParksAt
<1>8. \A x \in Threads : state'[x] = "running" => x = Main
  <2>1. \A x \in Threads : state'[x] = "running" => state[x] = "running" /\ x # t
    BY Zenon, <1>1, <1>5 DEF ParksAt, Woken
  <2> QED BY Zenon, <1>2, <2>1 DEF ListInv
<1> QED BY <1>1, <1>4, <1>5, <1>6, <1>7, <1>8 DEF Standing, mid

\* Those of a list are readied.
LEMMA WakesStep ==
  ASSUME TInv, ListInv, NEW ws, NEW G, Lists(ws, G), \A x \in G : state[x] = "blocked",
         Wakes(ws), at' = at
  PROVE  Woken(state, state', G) /\ Lists(rq', Ready(state')) /\ Standing'
<1>1. Woken(state, state', G) /\ Lists(rq', Ready(state'))
  BY Zenon, WakesReady DEF TInv, ListInv, Wakes
<1>2. \A x \in Threads : state'[x] \in {"blocked", "running"} => state'[x] = state[x]
  BY Zenon, <1>1 DEF Woken
<1> QED BY Zenon, <1>1, <1>2 DEF Standing, ListInv, Wakes

LEMMA StillWaiting ==
  ASSUME ListInv, \A x \in Threads : state'[x] = "blocked" <=> state[x] = "blocked",
         \A x \in Threads : state[x] = "blocked" => at'[x] = at[x] /\ target'[x] = target[x]
  PROVE  WaitInv(state', at', target', mtx.waiters, cnd, once.waiters, join_waiters)
<1>1. \A p : Parked(state', at', p) = Parked(state, at, p)
  BY Zenon DEF Parked
<1>2. \A u : Joiners(state', at', target', u) = Joiners(state, at, target, u)
  BY Zenon DEF Joiners
<1>3. WaitInv(state, at, target, mtx.waiters, cnd, once.waiters, join_waiters)
  BY Zenon DEF ListInv
<1> QED BY Zenon, <1>1, <1>2, <1>3 DEF WaitInv

LEMMA RunHeadList ==
  ASSUME TInv, ListInv, cur = Main, RunHead
  PROVE  ListInv'
<1> DEFINE h == Head(rq)
<1>1. h \in Ready(state) /\ Lists(Tail(rq), Ready(state) \ {h})
  BY Zenon, TailLists DEF RunHead, ListInv
<1>2. /\ state' = [state EXCEPT ![h] = "running"] /\ cur' = h /\ rq' = Tail(rq) /\ at' = at
      /\ target' = target /\ mtx' = mtx /\ cnd' = cnd /\ once' = once /\ join_waiters' = join_waiters
  BY Zenon DEF RunHead, lists, prog
<1> HIDE DEF h
<1>3. h \in Threads /\ state[h] = "ready"
  BY Zenon, <1>1 DEF Ready
<1>4. Ready(state') = Ready(state) \ {h}
  BY Zenon, <1>2, <1>3 DEF Ready, TInv
<1>5. \A x \in Threads : state'[x] = "blocked" <=> state[x] = "blocked"
  BY Zenon, <1>2, <1>3 DEF TInv
<1>6. Waiting'
  <2>1. \A x \in Threads : state[x] = "blocked" => at'[x] = at[x] /\ target'[x] = target[x]
    BY Zenon, <1>2
  <2>2. mtx'.waiters = mtx.waiters /\ once'.waiters = once.waiters
    BY Zenon, <1>2
  <2>3. WaitInv(state', at', target', mtx.waiters, cnd, once.waiters, join_waiters)
    BY Zenon, <1>5, <2>1, StillWaiting
  <2> QED BY Zenon, <1>2, <2>2, <2>3 DEF Waiting
<1>7. Standing'
  BY Zenon, <1>2, <1>3, <1>5 DEF Standing, ListInv, TInv
<1> QED BY Zenon, <1>1, <1>2, <1>4, <1>6, <1>7 DEF ListInv, Waiting, Standing

\* A spawned thread that was neither parked nor queued is queued.
LEMMA ReadyList ==
  ASSUME TInv, ListInv, NEW u \in Spawned, state[u] \in {"none", "running"},
         state' = [state EXCEPT ![u] = "ready"], rq' = Queued(<<u>>),
         UNCHANGED <<mtx, once, lists, at, target>>,
         cur' = cur \/ (u = cur /\ cur' = Main)
  PROVE  ListInv'
<1>1. u \in Threads /\ u # Main /\ join_waiters' = join_waiters /\ cnd' = cnd
  BY Zenon DEF Threads, lists
<1>2. Lists(<<u>>, {u}) /\ Ready(state) \cap {u} = {}
  BY Zenon, <1>1, OneLists DEF Ready
<1>3. Lists(rq', Ready(state) \cup ({u} \ {Main}))
  BY Zenon, <1>2, QueuedLists DEF ListInv
<1>4. Ready(state') = Ready(state) \cup ({u} \ {Main})
  BY <1>1 DEF Ready, TInv
<1>5. \A x \in Threads : state'[x] = "blocked" <=> state[x] = "blocked"
  BY Zenon, <1>1 DEF TInv
<1>6. Waiting'
  <2>1. \A x \in Threads : state[x] = "blocked" => at'[x] = at[x] /\ target'[x] = target[x]
    BY Zenon
  <2>2. mtx'.waiters = mtx.waiters /\ once'.waiters = once.waiters
    BY Zenon
  <2>3. WaitInv(state', at', target', mtx.waiters, cnd, once.waiters, join_waiters)
    BY Zenon, <1>5, <2>1, StillWaiting
  <2> QED BY Zenon, <1>1, <2>2, <2>3 DEF Waiting
<1>7. Standing'
  BY Zenon, <1>1, <1>5 DEF Standing, ListInv, TInv
<1> QED BY Zenon, <1>3, <1>4, <1>6, <1>7 DEF ListInv, Waiting, Standing

\* Nobody is parked, queued, woken or started.
LEMMA QuietList ==
  ASSUME TInv, ListInv, UNCHANGED <<cur, rq, cnd, join_waiters>>,
         mtx'.waiters = mtx.waiters, once'.waiters = once.waiters,
         \A x \in Threads : /\ state'[x] = "blocked" <=> state[x] = "blocked"
                            /\ state[x] = "blocked" => at'[x] = at[x] /\ target'[x] = target[x]
                            /\ state'[x] = "running" => state[x] = "running" \/ x = Main
                            /\ (state'[x] = "ready" /\ x # Main) <=> (state[x] = "ready" /\ x # Main)
  PROVE  ListInv'
<1>1. Ready(state') = Ready(state)
  BY Zenon DEF Ready
<1>2. Waiting'
  <2>1. WaitInv(state', at', target', mtx.waiters, cnd, once.waiters, join_waiters)
    BY Zenon, StillWaiting
  <2> QED BY Zenon, <2>1 DEF Waiting
<1>3. Standing'
  BY DEF Standing, ListInv
<1> QED BY Zenon, <1>1, <1>2, <1>3 DEF ListInv, Waiting, Standing

LEMMA FinishesList ==
  ASSUME TInv, ListInv, NEW t \in Threads, Runs(t), t # Main, Finishes(t), cur' = Main,
         UNCHANGED <<mtx, cnd, once, at, target>>
  PROVE  ListInv'
<1> DEFINE G == Joiners(state, at, target, t)
           ws == join_waiters[t]
           mid == Readied(state, ws)
<1>1. Lists(ws, G) /\ \A x \in G : state[x] = "blocked"
  BY ZenonT(60) DEF ListInv, WaitInv, Joiners
<1>2. Woken(state, mid, G) /\ mid \in [Threads -> States] /\ Lists(Queued(ws), Ready(mid))
  BY Zenon, <1>1, WakesReady DEF TInv, ListInv
<1>3. state[t] = "running" /\ cur = t /\ t \notin G
  BY ZenonT(60), <1>1 DEF Runs
<1>4. WaitInv(mid, at, target, mtx.waiters, cnd, once.waiters, [join_waiters EXCEPT ![t] = <<>>])
  <2>1. join_waiters \in [Threads -> Seq(Threads)]
    BY Zenon DEF TInv, Queue
  <2>2. Waiting
    BY Zenon DEF ListInv, Waiting
  <2> QED BY Zenon, <1>2, <2>1, <2>2, WakeJoin DEF Waiting
<1> HIDE DEF G, ws, mid
<1>5. PICK v \in {"freed", "done"} : state' = [mid EXCEPT ![t] = v]
  BY Zenon DEF Finishes, mid, ws
<1>6. rq' = Queued(ws) /\ join_waiters' = [join_waiters EXCEPT ![t] = <<>>]
  BY Zenon DEF Finishes, ws
<1>7. mid[t] = "running"
  BY Zenon, <1>2, <1>3 DEF Woken
<1>8. Ready(state') = Ready(mid) /\ \A x \in Threads : state'[x] = "blocked" <=> mid[x] = "blocked"
  BY SMTT(60), <1>2, <1>5, <1>7 DEF Ready
<1>9. Waiting'
  BY ZenonT(60), <1>4, <1>6, <1>8, StillWaits DEF Waiting
<1>10. \A x \in Threads : state'[x] \in {"blocked", "running"} => state'[x] = state[x] /\ x # t
  BY Zenon, <1>2, <1>5, <1>7 DEF Woken
<1>11. Standing'
  BY Zenon, <1>3, <1>10 DEF Standing, ListInv
<1> QED BY Zenon, <1>2, <1>6, <1>8, <1>9, <1>11 DEF ListInv, Waiting, Standing

LEMMA JoinsList ==
  ASSUME TInv, ListInv, NEW t \in Threads, Runs(t), NEW u \in Threads, Joins(t, u)
  PROVE  ListInv'
<1>1. CASE state[u] = "done"
  <2>1. /\ UNCHANGED <<cur, rq, cnd, join_waiters, mtx, once>> /\ state' = [state EXCEPT ![u] = "freed"]
        /\ at' = [at EXCEPT ![t] = "user"] /\ target' = [target EXCEPT ![t] = Nobody]
    BY Zenon, <1>1 DEF Joins
  <2>2. mtx'.waiters = mtx.waiters /\ once'.waiters = once.waiters
    BY Zenon, <2>1
  <2>3. state[t] = "running"
    BY Zenon DEF Runs
  <2>4. ASSUME NEW x \in Threads
        PROVE  /\ state'[x] = "blocked" <=> state[x] = "blocked"
               /\ state[x] = "blocked" => at'[x] = at[x] /\ target'[x] = target[x]
               /\ state'[x] = "running" => state[x] = "running" \/ x = Main
               /\ (state'[x] = "ready" /\ x # Main) <=> (state[x] = "ready" /\ x # Main)
    BY Zenon, <1>1, <2>1, <2>3 DEF TInv
  <2> QED BY Zenon, <2>1, <2>2, <2>4, QuietList
<1>2. CASE state[u] # "done"
  <2>1. /\ Blocks(t, <<>>, "join") /\ join_waiters' = [join_waiters EXCEPT ![u] = Append(@, t)]
        /\ target' = [target EXCEPT ![t] = u] /\ mtx' = mtx /\ cnd' = cnd /\ once' = once
    BY Zenon, <1>2 DEF Joins
  <2>2. Woken(state, Readied(state, <<>>), {}) /\ ParksAt(Readied(state, <<>>), at, state', at', t, "join")
        /\ Lists(rq', Ready(state')) /\ Standing'
    BY <2>1, EmptyLists, BlocksStep DEF Places
  <2>3. ParksAt(state, at, state', at', t, "join")
    BY Zenon, <2>2 DEF ParksAt, Woken
  <2>4. Retargets(target, target', t, u)
    BY Zenon, <2>1 DEF TInv, Retargets
  <2>5. /\ join_waiters \in [Threads -> Seq(Threads)]
        /\ WaitInv(state, at, target, mtx.waiters, cnd, once.waiters, join_waiters)
    BY Zenon DEF TInv, Queue, ListInv
  <2>6. WaitInv(state', at', target', mtx.waiters, cnd, once.waiters, [join_waiters EXCEPT ![u] = Append(@, t)])
    BY Zenon, <2>3, <2>4, <2>5, ParkJoin
  <2> QED BY Zenon, <2>1, <2>2, <2>6 DEF ListInv, Standing
<1> QED BY Zenon, <1>1, <1>2

\* t parks at a place other than thrd_join, and nobody is woken.
LEMMA ParkList ==
  ASSUME TInv, ListInv, NEW t \in Threads, Runs(t), NEW p \in {"mtx", "once"}, Blocks(t, <<>>, p),
         UNCHANGED <<cnd, join_waiters, target>>,
         mtx'.waiters = (IF p = "mtx" THEN Append(mtx.waiters, t) ELSE mtx.waiters),
         once'.waiters = (IF p = "once" THEN Append(once.waiters, t) ELSE once.waiters)
  PROVE  ListInv'
<1>1. /\ Woken(state, Readied(state, <<>>), {}) /\ ParksAt(Readied(state, <<>>), at, state', at', t, p)
      /\ Lists(rq', Ready(state')) /\ Standing'
  <2>1. p \in Places \ {"user"}
    BY Zenon DEF Places
  <2> DEFINE ws == <<>>
             G == {}
  <2>2. Lists(ws, G) /\ Blocks(t, ws, p)
    BY Zenon, EmptyLists
  <2>3. \A x \in G : state[x] = "blocked"
    BY Zenon
  <2> HIDE DEF ws, G
  <2>4. /\ Woken(state, Readied(state, ws), G) /\ ParksAt(Readied(state, ws), at, state', at', t, p)
        /\ Lists(rq', Ready(state')) /\ Standing'
    BY Zenon, <2>1, <2>2, <2>3, BlocksStep
  <2> QED BY Zenon, <2>4 DEF ws, G
<1>2. ParksAt(state, at, state', at', t, p)
  BY Zenon, <1>1 DEF ParksAt, Woken
<1>3. WaitInv(state, at, target, mtx.waiters, cnd, once.waiters, join_waiters)
  BY Zenon DEF ListInv
<1>4. CASE p = "mtx"
  <2>1. WaitInv(state', at', target, Append(mtx.waiters, t), cnd, once.waiters, join_waiters)
    BY ZenonT(60), <1>2, <1>3, <1>4, ParkPlace
  <2> QED BY ZenonT(60), <1>1, <1>4, <2>1 DEF ListInv, Standing
<1>5. CASE p = "once"
  <2>1. WaitInv(state', at', target, mtx.waiters, cnd, Append(once.waiters, t), join_waiters)
    BY ZenonT(60), <1>2, <1>3, <1>5, ParkPlace
  <2> QED BY ZenonT(60), <1>1, <1>5, <2>1 DEF ListInv, Standing
<1> QED BY Zenon, <1>4, <1>5

LEMMA UnlockList ==
  ASSUME TInv, ListInv, mtx'.waiters = Rest(mtx.waiters), Wakes(Popped(mtx.waiters)),
         UNCHANGED <<once, lists, at, target>>
  PROVE  ListInv'
<1>1. WaitInv(state, at, target, mtx.waiters, cnd, once.waiters, join_waiters)
  BY Zenon DEF ListInv
<1>2. PICK G \in SUBSET Parked(state, at, "mtx") :
        Lists(Popped(mtx.waiters), G) /\ Lists(Rest(mtx.waiters), Parked(state, at, "mtx") \ G)
  <2>1. Lists(mtx.waiters, Parked(state, at, "mtx"))
    BY Zenon, <1>1 DEF WaitInv
  <2> QED BY Zenon, <2>1, PopLists
<1>3. \A x \in G : state[x] = "blocked"
  BY Zenon DEF Parked
<1>4. Woken(state, state', G) /\ Lists(rq', Ready(state')) /\ Standing'
  BY Zenon, <1>2, <1>3, WakesStep
<1>5. WaitInv(state', at, target, Rest(mtx.waiters), cnd, once.waiters, join_waiters)
  BY ZenonT(60), <1>1, <1>2, <1>4, WakeMtx
<1> QED BY ZenonT(60), <1>4, <1>5 DEF ListInv, Standing, lists

LEMMA WaitList ==
  ASSUME TInv, ListInv, NEW t \in Threads, cnd_wait(t)
  PROVE  ListInv'
<1>1. WaitInv(state, at, target, mtx.waiters, cnd, once.waiters, join_waiters) /\ Runs(t)
  BY Zenon DEF ListInv, cnd_wait, User
<1>2. PICK G \in SUBSET Parked(state, at, "mtx") :
        Lists(Popped(mtx.waiters), G) /\ Lists(Rest(mtx.waiters), Parked(state, at, "mtx") \ G)
  <2>1. Lists(mtx.waiters, Parked(state, at, "mtx"))
    BY Zenon, <1>1 DEF WaitInv
  <2> QED BY Zenon, <2>1, PopLists
<1>3. \A x \in G : state[x] = "blocked"
  BY Zenon DEF Parked
<1>4. /\ Blocks(t, Popped(mtx.waiters), "cnd") /\ cnd' = Append(cnd, t) /\ mtx' = Released
      /\ once' = once /\ join_waiters' = join_waiters /\ target' = target
  BY Zenon DEF cnd_wait
<1> DEFINE mid == Readied(state, Popped(mtx.waiters))
<1>5. Woken(state, mid, G) /\ ParksAt(mid, at, state', at', t, "cnd") /\ Lists(rq', Ready(state')) /\ Standing'
  BY Zenon, <1>1, <1>2, <1>3, <1>4, BlocksStep DEF Places
<1> HIDE DEF mid
<1>6. WaitInv(mid, at, target, Rest(mtx.waiters), cnd, once.waiters, join_waiters)
  BY Zenon, <1>1, <1>2, <1>5, WakeMtx
<1>7. WaitInv(state', at', target, Rest(mtx.waiters), Append(cnd, t), once.waiters, join_waiters)
  BY Zenon, <1>5, <1>6, ParkPlace
<1>8. mtx'.waiters = Rest(mtx.waiters)
  BY Zenon, <1>4 DEF Released, TInv, MtxType
<1> QED BY ZenonT(60), <1>4, <1>5, <1>7, <1>8 DEF ListInv, Standing

\* What a signal or a broadcast takes off the condition variable.
LEMMA NotifyLists ==
  ASSUME NEW S, Lists(cnd, S)
  PROVE  /\ Lists(cnd, S) /\ Lists(SubSeq(cnd, Len(cnd) + 1, Len(cnd)), S \ S)
         /\ SubSeq(cnd, Len(Popped(cnd)) + 1, Len(cnd)) = Rest(cnd)
<1>1. cnd \in Seq(Threads) /\ Len(cnd) \in Nat
  BY Zenon, InList
<1>2. Len(cnd) + 1 \in Int /\ Len(cnd) \in Int /\ Len(cnd) < Len(cnd) + 1
  BY <1>1
<1>3. SubSeq(cnd, Len(cnd) + 1, Len(cnd)) = <<>> /\ S \ S = {}
  BY <1>2
<1>4. SubSeq(cnd, Len(Popped(cnd)) + 1, Len(cnd)) = Rest(cnd)
  <2>1. CASE cnd = <<>>
    <3>1. Popped(cnd) = <<>> /\ Len(<<>>) = 0 /\ Len(cnd) = 0 /\ Rest(cnd) = <<>>
      BY Zenon, <2>1 DEF Popped, Rest
    <3>2. SubSeq(cnd, 0 + 1, 0) = <<>>
      OBVIOUS
    <3> QED BY Zenon, <3>1, <3>2
  <2>2. CASE cnd # <<>>
    <3>1. Popped(cnd) = <<Head(cnd)>> /\ Len(<<Head(cnd)>>) = 1 /\ Rest(cnd) = Tail(cnd) /\ 1 + 1 = 2
      BY <2>2 DEF Popped, Rest
    <3>2. Tail(cnd) = SubSeq(cnd, 2, Len(cnd))
      BY <1>1, <2>2
    <3> QED BY Zenon, <3>1, <3>2
  <2> QED BY Zenon, <2>1, <2>2
<1> QED BY Zenon, <1>3, <1>4, EmptyLists

LEMMA NotifyList ==
  ASSUME TInv, ListInv, NEW t \in Threads, cnd_signal(t) \/ cnd_broadcast(t)
  PROVE  ListInv'
<1> DEFINE S == Parked(state, at, "cnd")
<1>1. WaitInv(state, at, target, mtx.waiters, cnd, once.waiters, join_waiters) /\ Lists(cnd, S)
  BY ZenonT(60) DEF ListInv, WaitInv
<1>2. ASSUME NEW ws, NEW G \in SUBSET S, Notifies(t, ws), Lists(ws, G), Lists(cnd', S \ G) PROVE ListInv'
  <2>1. \A x \in G : state[x] = "blocked"
    BY Zenon DEF Parked
  <2>2. Wakes(ws) /\ at' = at /\ target' = target /\ mtx' = mtx /\ once' = once /\ join_waiters' = join_waiters
    BY Zenon, <1>2 DEF Notifies, prog
  <2>3. Woken(state, state', G) /\ Lists(rq', Ready(state')) /\ Standing'
    BY Zenon, <1>2, <2>1, <2>2, WakesStep
  <2>4. WaitInv(state', at, target, mtx.waiters, cnd', once.waiters, join_waiters)
    BY Zenon, <1>1, <1>2, <2>3, WakeCnd
  <2> QED BY ZenonT(60), <2>2, <2>3, <2>4 DEF ListInv, Standing
<1> HIDE DEF S
<1>3. CASE cnd_signal(t)
  <2>1. PICK G \in SUBSET S : Lists(Popped(cnd), G) /\ Lists(Rest(cnd), S \ G)
    BY Zenon, <1>1, PopLists
  <2>2. Notifies(t, Popped(cnd)) /\ cnd' = Rest(cnd)
    BY ZenonT(60), <1>1, <1>3, NotifyLists DEF cnd_signal, Notifies
  <2> QED BY Zenon, <1>2, <2>1, <2>2
<1>4. CASE cnd_broadcast(t)
  <2>1. Notifies(t, cnd) /\ Lists(cnd', S \ S) /\ S \in SUBSET S
    BY Zenon, <1>1, <1>4, NotifyLists DEF cnd_broadcast, Notifies
  <2> QED BY Zenon, <1>1, <1>2, <2>1
<1> QED BY Zenon, <1>3, <1>4

LEMMA LeaveOnceList ==
  ASSUME TInv, ListInv, NEW t \in Threads, LeaveOnce(t)
  PROVE  ListInv'
<1>1. /\ WaitInv(state, at, target, mtx.waiters, cnd, once.waiters, join_waiters)
      /\ Lists(once.waiters, Parked(state, at, "once")) /\ \A x \in Parked(state, at, "once") : state[x] = "blocked"
  BY Zenon DEF ListInv, WaitInv, Parked
<1>2. Wakes(once.waiters) /\ at' = at /\ target' = target /\ mtx' = mtx /\ cnd' = cnd /\ join_waiters' = join_waiters
  BY Zenon DEF LeaveOnce, lists
<1>3. Woken(state, state', Parked(state, at, "once")) /\ Lists(rq', Ready(state')) /\ Standing'
  BY Zenon, <1>1, <1>2, WakesStep
<1>4. WaitInv(state', at, target, mtx.waiters, cnd, <<>>, join_waiters)
  BY Zenon, <1>1, <1>3, WakeOnce
<1>5. once'.waiters = <<>>
  BY Zenon DEF LeaveOnce, TInv, OnceType
<1> QED BY ZenonT(60), <1>2, <1>3, <1>4, <1>5 DEF ListInv, Standing

LEMMA ListStep ==
  ASSUME TInv, ListInv, JoinInv, Next
  PROVE  ListInv'
<1> DEFINE Quiet(x) ==
             /\ state'[x] = "blocked" <=> state[x] = "blocked"
             /\ state[x] = "blocked" => at'[x] = at[x] /\ target'[x] = target[x]
             /\ state'[x] = "running" => state[x] = "running" \/ x = Main
             /\ (state'[x] = "ready" /\ x # Main) <=> (state[x] = "ready" /\ x # Main)
<1>1. CASE Pump
  BY ZenonT(60), <1>1, RunHeadList DEF Pump
<1>2. CASE MainResumes
  <2>1. /\ UNCHANGED <<cur, rq, cnd, join_waiters, mtx, once, at, target>>
        /\ state' = [state EXCEPT ![Main] = "running"] /\ state[Main] = "ready"
    BY Zenon, <1>2 DEF MainResumes, lists, prog
  <2>2. \A x \in Threads : Quiet(x)
    BY Zenon, <2>1 DEF TInv
  <2> QED BY Zenon, <2>1, <2>2, QuietList
<1>3. CASE Abort
  BY ZenonT(60), <1>3 DEF Abort, ListInv, sched, lists
<1>4. ASSUME NEW t \in Threads, RetryJoin(t) PROVE ListInv'
  BY Zenon, <1>4, JoinsList DEF RetryJoin, JoinInv, Threads
<1>5. ASSUME NEW t \in Threads, Runs(t), Contends(t) PROVE ListInv'
  <2>1. /\ Blocks(t, <<>>, "mtx") /\ UNCHANGED <<cnd, join_waiters, target>> /\ once' = once
        /\ mtx'.waiters = Append(mtx.waiters, t)
    BY Zenon, <1>5 DEF Contends, lists, TInv, MtxType
  <2> QED BY Zenon, <1>5, <2>1, ParkList
<1>6. ASSUME NEW t \in Threads, RetryLock(t) PROVE ListInv'
  <2>1. CASE Contends(t)
    BY Zenon, <1>5, <1>6, <2>1 DEF RetryLock
  <2>2. CASE ~Contends(t)
    <3>1. /\ UNCHANGED <<cur, rq, cnd, join_waiters, once, state, target>> /\ at' = [at EXCEPT ![t] = "user"]
          /\ state[t] = "running" /\ mtx'.waiters = mtx.waiters
      BY ZenonT(60), <1>6, <2>2 DEF RetryLock, Runs, Takes, sched, lists, TInv, MtxType
    <3>2. \A x \in Threads : Quiet(x)
      BY Zenon, <3>1 DEF TInv
    <3> QED BY Zenon, <3>1, <3>2, QuietList
  <2> QED BY Zenon, <2>1, <2>2
<1>7. ASSUME NEW t \in Threads, Runs(t), AwaitOnce(t) \/ PassOnce(t) \/ EnterOnce(t) PROVE ListInv'
  <2>1. CASE AwaitOnce(t)
    <3>1. /\ Blocks(t, <<>>, "once") /\ UNCHANGED <<cnd, join_waiters, target>> /\ mtx' = mtx
          /\ once'.waiters = Append(once.waiters, t)
      BY Zenon, <2>1 DEF AwaitOnce, lists, TInv, OnceType
    <3> QED BY Zenon, <1>7, <3>1, ParkList
  <2>2. CASE PassOnce(t)
    <3>1. /\ UNCHANGED <<cur, rq, cnd, join_waiters, once, mtx, state, target>> /\ at' = [at EXCEPT ![t] = "user"]
          /\ state[t] = "running"
      BY Zenon, <1>7, <2>2 DEF PassOnce, Runs, sched, lists
    <3>2. \A x \in Threads : Quiet(x)
      BY Zenon, <3>1 DEF TInv
    <3> QED BY Zenon, <3>1, <3>2, QuietList
  <2>3. CASE EnterOnce(t)
    <3>1. /\ UNCHANGED <<cur, rq, cnd, join_waiters, mtx, state, target, at>>
          /\ once'.waiters = once.waiters
      BY Zenon, <2>3 DEF EnterOnce, sched, lists, prog, TInv, OnceType
    <3> QED BY Zenon, <3>1 DEF ListInv
  <2> QED BY Zenon, <1>7, <2>1, <2>2, <2>3
<1>8. ASSUME NEW t \in Threads, RetryOnce(t) \/ call_once(t) PROVE ListInv'
  BY Zenon, <1>7, <1>8 DEF RetryOnce, call_once, User
<1>9. ASSUME NEW t \in Threads, thrd_yield(t) PROVE ListInv'
  <2>1. CASE t = Main
    BY ZenonT(60), <1>9, <2>1, RunHeadList DEF thrd_yield, User, Runs
  <2>2. CASE t # Main
    <3>1. /\ t \in Spawned /\ state[t] = "running" /\ t = cur /\ cur' = Main
          /\ state' = [state EXCEPT ![t] = "ready"] /\ rq' = Queued(<<t>>)
          /\ UNCHANGED <<mtx, once, lists, at, target>>
      BY Zenon, <1>9, <2>2 DEF thrd_yield, User, Runs, Threads, prog
    <3> QED BY ZenonT(60), <3>1, ReadyList
  <2> QED BY Zenon, <2>1, <2>2
<1>10. ASSUME NEW t \in Threads, thrd_exit(t) PROVE ListInv'
  <2>1. CASE t = Main
    BY Zenon, <1>10, <2>1 DEF thrd_exit, ListInv, sched
  <2>2. CASE t # Main
    BY Zenon, <1>10, <2>2, FinishesList DEF thrd_exit, User
  <2> QED BY SMTT(60), <2>1, <2>2
<1>11. ASSUME NEW t \in Threads, NEW u \in Spawned, thrd_create(t, u) PROVE ListInv'
  BY ZenonT(60), <1>11, ReadyList DEF thrd_create, prog
<1>12. ASSUME NEW t \in Threads, NEW u \in Spawned, thrd_join(t, u) PROVE ListInv'
  BY Zenon, <1>12, JoinsList DEF thrd_join, User, Threads
<1>13. ASSUME NEW t \in Threads, NEW u \in Spawned, thrd_detach(t, u) PROVE ListInv'
  <2>1. /\ UNCHANGED <<cur, rq, cnd, join_waiters, mtx, once, at, target>>
        /\ state' = IF state[u] = "done" THEN [state EXCEPT ![u] = "freed"] ELSE state
    BY Zenon, <1>13 DEF thrd_detach, lists, prog
  <2>2. \A x \in Threads : Quiet(x)
    BY Zenon, <2>1 DEF TInv
  <2> QED BY Zenon, <2>1, <2>2, QuietList
<1>14. ASSUME NEW t \in Threads, (Reenters(t) \/ Takes(t, 1)) /\ Locked(t) PROVE ListInv'
  <2>1. mtx'.waiters = mtx.waiters
    BY Zenon, <1>14 DEF Reenters, Takes, TInv, MtxType
  <2> QED BY Zenon, <1>14, <2>1 DEF Locked, ListInv, sched, lists
<1>15. ASSUME NEW t \in Threads, mtx_lock(t) \/ mtx_trylock(t) PROVE ListInv'
  BY Zenon, <1>5, <1>14, <1>15 DEF mtx_lock, mtx_trylock, User
<1>16. ASSUME NEW t \in Threads, mtx_unlock(t) PROVE ListInv'
  <2>1. CASE mtx.recursive /\ mtx.count > 1
    <3>1. mtx'.waiters = mtx.waiters
      BY Zenon, <1>16, <2>1 DEF mtx_unlock, TInv, MtxType
    <3> QED BY Zenon, <1>16, <2>1, <3>1 DEF mtx_unlock, ListInv, sched, lists
  <2>2. CASE ~(mtx.recursive /\ mtx.count > 1)
    <3>1. mtx'.waiters = Rest(mtx.waiters)
      BY ZenonT(60), <1>16, <2>2 DEF mtx_unlock, Released, TInv, MtxType
    <3> QED BY <1>16, <2>2, <3>1, UnlockList DEF mtx_unlock
  <2> QED BY Zenon, <2>1, <2>2
<1>17. ASSUME NEW t \in Threads, cnd_wait(t) \/ cnd_signal(t) \/ cnd_broadcast(t) \/ LeaveOnce(t) PROVE ListInv'
  BY <1>17, WaitList, NotifyList, LeaveOnceList
<1>18. CASE Ended
  BY Zenon, <1>18 DEF Ended, vars, ListInv
<1> QED BY <1>1, <1>2, <1>3, <1>4, <1>6, <1>8, <1>9, <1>10, <1>11, <1>12, <1>13, <1>15, <1>16, <1>17, <1>18
        DEF Next, Library, Program

-----------------------------------------------------------------------------
(* Types.                                                                  *)

LEMMA BlocksType ==
  ASSUME TInv, NEW t \in Threads, NEW ws, NEW place \in Places, Blocks(t, ws, place)
  PROVE  state' \in [Threads -> States] /\ at' \in [Threads -> Places] /\ cur' \in Threads
BY Zenon DEF TInv, Blocks, Readied, States, Threads

LEMMA WakesType ==
  ASSUME TInv, NEW ws, Wakes(ws)
  PROVE  state' \in [Threads -> States] /\ cur' \in Threads
BY Zenon DEF TInv, Wakes, Readied, States

LEMMA QueueOps ==
  /\ <<>> \in Queue
  /\ \A q \in Queue : Rest(q) \in Queue /\ \A t \in Threads : Append(q, t) \in Queue
BY DEF Queue, Rest

LEMMA ReleasedType ==
  ASSUME TInv, mtx' = Released
  PROVE  mtx' \in MtxType
<1>1. Rest(mtx.waiters) \in Queue
  BY Zenon, QueueOps DEF TInv, MtxType
<1> QED BY Zenon, <1>1 DEF TInv, Released, MtxType

LEMMA AppendType ==
  ASSUME TInv, NEW t \in Threads
  PROVE  /\ [mtx EXCEPT !.waiters = Append(@, t)] \in MtxType
         /\ [once EXCEPT !.waiters = Append(@, t)] \in OnceType
         /\ \A u \in Threads : [join_waiters EXCEPT ![u] = Append(@, t)] \in [Threads -> Queue]
<1>1. Append(mtx.waiters, t) \in Queue /\ Append(once.waiters, t) \in Queue
  BY Zenon, QueueOps DEF TInv, MtxType, OnceType
<1>2. \A u \in Threads : Append(join_waiters[u], t) \in Queue
  BY Zenon, QueueOps DEF TInv
<1>3. [mtx EXCEPT !.waiters = Append(@, t)] \in MtxType
  BY Zenon, <1>1 DEF TInv, MtxType
<1>4. [once EXCEPT !.waiters = Append(@, t)] \in OnceType
  BY ZenonT(60), <1>1 DEF TInv, OnceType
<1>5. \A u \in Threads : [join_waiters EXCEPT ![u] = Append(@, t)] \in [Threads -> Queue]
  BY Zenon, <1>2 DEF TInv
<1> QED BY Zenon, <1>3, <1>4, <1>5

LEMMA TypeStep ==
  ASSUME TInv, ListInv, JoinInv, Next
  PROVE  TInv'
<1>1. ASSUME RunHead PROVE TInv'
  <2>1. Head(rq) \in Threads
    BY ZenonT(60), <1>1, TailLists DEF RunHead, ListInv, Ready
  <2> QED BY Zenon, <1>1, <2>1 DEF RunHead, TInv, lists, prog, States
<1>2. CASE Pump
  BY Zenon, <1>1, <1>2 DEF Pump
<1>3. CASE MainResumes
  BY Zenon, <1>3 DEF MainResumes, TInv, lists, prog, States
<1>4. CASE Abort
  BY Zenon, <1>4 DEF Abort, TInv, sched, lists
<1>5. ASSUME NEW t \in Threads, NEW u \in Threads, Joins(t, u) PROVE TInv'
  <2>1. CASE state[u] = "done"
    BY <1>5, <2>1 DEF Joins, TInv, States, Places
  <2>2. CASE state[u] # "done"
    <3>1. Blocks(t, <<>>, "join")
      BY Zenon, <1>5, <2>2 DEF Joins
    <3>2. state' \in [Threads -> States] /\ at' \in [Threads -> Places] /\ cur' \in Threads
      BY Zenon, <3>1, BlocksType DEF Places
    <3>3. join_waiters' \in [Threads -> Queue]
      <4>1. join_waiters' = [join_waiters EXCEPT ![u] = Append(@, t)]
        BY Zenon, <1>5, <2>2 DEF Joins
      <4>2. Append(join_waiters[u], t) \in Queue /\ join_waiters \in [Threads -> Queue]
        BY Zenon, QueueOps DEF TInv
      <4> QED BY Zenon, <4>1, <4>2
    <3>4. target' \in [Threads -> Threads \cup {Nobody}]
      BY Zenon, <1>5, <2>2 DEF Joins, TInv
    <3> QED BY Zenon, <1>5, <3>2, <3>3, <3>4 DEF Joins, TInv
  <2> QED BY Zenon, <2>1, <2>2
<1>6. ASSUME NEW t \in Threads, RetryJoin(t) PROVE TInv'
  BY Zenon, <1>5, <1>6 DEF RetryJoin, JoinInv, Threads
<1>7. ASSUME NEW t \in Threads, Contends(t) PROVE TInv'
  <2>1. Blocks(t, <<>>, "mtx")
    BY Zenon, <1>7 DEF Contends
  <2>2. state' \in [Threads -> States] /\ at' \in [Threads -> Places] /\ cur' \in Threads
    BY Zenon, <2>1, BlocksType DEF Places
  <2>3. mtx' \in MtxType
    BY Zenon, <1>7, AppendType DEF Contends
  <2> QED BY Zenon, <1>7, <2>2, <2>3 DEF Contends, TInv, lists
<1>8. ASSUME NEW t \in Threads, NEW n \in Nat, Takes(t, n) PROVE mtx' \in MtxType
  BY Zenon, <1>8 DEF Takes, TInv, MtxType
<1>9. ASSUME NEW t \in Threads, RetryLock(t) PROVE TInv'
  <2>1. CASE Contends(t)
    BY Zenon, <1>7, <2>1
  <2>2. CASE ~Contends(t)
    <3>1. mtx' \in MtxType
      <4>1. (IF depth[t] > 0 THEN depth[t] ELSE 1) \in Nat
        BY Zenon DEF TInv
      <4> QED BY <1>8, <1>9, <2>2, <4>1 DEF RetryLock
    <3>2. depth' \in [Threads -> Nat] /\ held' \in [Threads -> Nat] /\ at' \in [Threads -> Places]
      BY <1>9, <2>2 DEF RetryLock, TInv, Places
    <3> QED BY <1>9, <2>2, <3>1, <3>2 DEF RetryLock, TInv, sched, lists
  <2> QED BY Zenon, <2>1, <2>2
<1>10. ASSUME NEW t \in Threads, AwaitOnce(t) \/ PassOnce(t) PROVE TInv'
  <2>1. CASE AwaitOnce(t)
    <3>1. Blocks(t, <<>>, "once")
      BY Zenon, <2>1 DEF AwaitOnce
    <3>2. state' \in [Threads -> States] /\ at' \in [Threads -> Places] /\ cur' \in Threads
      BY Zenon, <3>1, BlocksType DEF Places
    <3>3. once' \in OnceType
      BY Zenon, <2>1, AppendType DEF AwaitOnce
    <3> QED BY Zenon, <2>1, <3>2, <3>3 DEF AwaitOnce, TInv, lists
  <2>2. CASE PassOnce(t)
    BY Zenon, <2>2 DEF PassOnce, TInv, sched, lists, Places
  <2> QED BY Zenon, <1>10, <2>1, <2>2
<1>11. ASSUME NEW t \in Threads, RetryOnce(t) \/ call_once(t) PROVE TInv'
  <2>1. CASE EnterOnce(t)
    <3>1. once' \in OnceType
      <4>1. once' = [once EXCEPT !.state = 1, !.owner = t] /\ once \in OnceType
        BY Zenon, <2>1 DEF EnterOnce, TInv
      <4> QED BY Zenon, <4>1 DEF OnceType
    <3> QED BY Zenon, <2>1, <3>1 DEF EnterOnce, TInv, sched, lists, prog
  <2> QED BY Zenon, <1>10, <1>11, <2>1 DEF RetryOnce, call_once
<1>12. ASSUME NEW t \in Threads, thrd_yield(t) PROVE TInv'
  BY Zenon, <1>1, <1>12 DEF thrd_yield, TInv, lists, prog, States, Threads
<1>13. ASSUME NEW t \in Threads, thrd_exit(t) PROVE TInv'
  <2>1. CASE t = Main
    BY Zenon, <1>13, <2>1 DEF thrd_exit, TInv, sched
  <2>2. CASE t # Main
    <3>1. state' \in [Threads -> States]
      BY Zenon, <1>13, <2>2 DEF thrd_exit, Finishes, TInv, Readied, States
    <3>2. join_waiters' \in [Threads -> Queue]
      BY Zenon, <1>13, <2>2, QueueOps DEF thrd_exit, Finishes, TInv
    <3> QED BY <1>13, <2>2, <3>1, <3>2 DEF thrd_exit, TInv, Threads
  <2> QED BY Zenon, <2>1, <2>2
<1>14. ASSUME NEW t \in Threads, NEW u \in Spawned, thrd_create(t, u) \/ thrd_detach(t, u) PROVE TInv'
  BY <1>14 DEF thrd_create, thrd_detach, TInv, lists, prog, States, Threads
<1>15. ASSUME NEW t \in Threads, NEW u \in Spawned, thrd_join(t, u) PROVE TInv'
  BY Zenon, <1>5, <1>15 DEF thrd_join, Threads
<1>16. ASSUME NEW t \in Threads, (Reenters(t) \/ Takes(t, 1)) /\ Locked(t) PROVE TInv'
  <2>1. mtx' \in MtxType
    BY <1>8, <1>16 DEF Reenters, TInv, MtxType
  <2>2. held' \in [Threads -> Nat]
    BY <1>16 DEF Locked, TInv
  <2> QED BY Zenon, <1>16, <2>1, <2>2 DEF Locked, TInv, sched, lists
<1>17. ASSUME NEW t \in Threads, mtx_lock(t) \/ mtx_trylock(t) PROVE TInv'
  BY Zenon, <1>7, <1>16, <1>17 DEF mtx_lock, mtx_trylock
<1>18. ASSUME NEW t \in Threads, mtx_unlock(t) PROVE TInv'
  <2>1. held' \in [Threads -> Nat]
    BY <1>18 DEF mtx_unlock, TInv
  <2>2. CASE mtx.recursive /\ mtx.count > 1
    <3>1. mtx' \in MtxType
      BY <1>18, <2>2 DEF mtx_unlock, TInv, MtxType
    <3> QED BY Zenon, <1>18, <2>1, <2>2, <3>1 DEF mtx_unlock, TInv, sched, lists
  <2>3. CASE ~(mtx.recursive /\ mtx.count > 1)
    <3>1. mtx' \in MtxType
      BY Zenon, <1>18, <2>3, ReleasedType DEF mtx_unlock
    <3>2. state' \in [Threads -> States] /\ cur' \in Threads
      BY Zenon, <1>18, <2>3, WakesType DEF mtx_unlock
    <3> QED BY Zenon, <1>18, <2>1, <2>3, <3>1, <3>2 DEF mtx_unlock, TInv, lists
  <2> QED BY <2>2, <2>3
<1>19. ASSUME NEW t \in Threads, cnd_wait(t) PROVE TInv'
  <2>1. Blocks(t, Popped(mtx.waiters), "cnd")
    BY Zenon, <1>19 DEF cnd_wait
  <2>2. state' \in [Threads -> States] /\ at' \in [Threads -> Places] /\ cur' \in Threads
    BY Zenon, <2>1, BlocksType DEF Places
  <2>3. mtx' \in MtxType
    BY Zenon, <1>19, ReleasedType DEF cnd_wait
  <2>4. depth' \in [Threads -> Nat]
    BY Zenon, <1>19 DEF cnd_wait, TInv, MtxType
  <2> QED BY <1>19, <2>2, <2>3, <2>4 DEF cnd_wait, TInv
<1>20. ASSUME NEW t \in Threads, cnd_signal(t) \/ cnd_broadcast(t) PROVE TInv'
  <2>1. PICK ws : Notifies(t, ws)
    BY Zenon, <1>20 DEF cnd_signal, cnd_broadcast
  <2>2. state' \in [Threads -> States] /\ cur' \in Threads
    BY Zenon, <2>1, WakesType DEF Notifies
  <2> QED BY Zenon, <2>1, <2>2 DEF Notifies, TInv, prog
<1>21. ASSUME NEW t \in Threads, LeaveOnce(t) PROVE TInv'
  <2>1. state' \in [Threads -> States] /\ cur' \in Threads
    BY Zenon, <1>21, WakesType DEF LeaveOnce
  <2>2. once' \in OnceType
    <3>1. once' = [once EXCEPT !.state = 2, !.waiters = <<>>] /\ once \in OnceType
      BY Zenon, <1>21 DEF LeaveOnce, TInv
    <3> QED BY Zenon, <3>1, QueueOps DEF OnceType
  <2> QED BY Zenon, <1>21, <2>1, <2>2 DEF LeaveOnce, TInv, lists
<1>22. CASE Ended
  BY Zenon, <1>22 DEF Ended, vars, TInv
<1> QED BY SMTT(20), <1>2, <1>3, <1>4, <1>6, <1>9, <1>11, <1>12, <1>13, <1>14, <1>15, <1>17, <1>18, <1>19, <1>20, <1>21, <1>22
        DEF Next, Library, Program
-----------------------------------------------------------------------------
(* Joins.                                                                  *)

LEMMA QuietJoin ==
  ASSUME TInv, JoinInv, UNCHANGED <<target, detached>>,
         \A x \in Threads : /\ at'[x] = "join" <=> at[x] = "join"
                            /\ at[x] = "join" /\ state'[x] = "blocked" => state[x] = "blocked"
                            /\ state'[x] \in {"none", "freed", "done"} => state'[x] = state[x]
  PROVE  JoinInv'
BY DEF TInv, JoinInv, Threads

LEMMA WakesJoin ==
  ASSUME TInv, JoinInv, NEW ws, Wakes(ws), UNCHANGED <<target, detached, at>>
  PROVE  JoinInv'
<1>1. \A x \in Threads : state'[x] = "ready" \/ state'[x] = state[x]
  BY Zenon DEF Wakes, Readied
<1> QED BY Zenon, <1>1, QuietJoin

LEMMA BlocksJoin ==
  ASSUME TInv, JoinInv, NEW t \in Threads, at[t] # "join", NEW ws, NEW p \in Places \ {"join"},
         Blocks(t, ws, p), UNCHANGED <<target, detached>>
  PROVE  JoinInv'
<1>1. \A x \in Threads : state'[x] \in {"ready", "blocked"} \/ state'[x] = state[x]
  BY Zenon DEF Blocks, Readied, TInv
<1>2. \A x \in Threads : x # t => at'[x] = at[x] /\ (state'[x] = "blocked" => state[x] = "blocked")
  BY Zenon DEF Blocks, Readied, TInv
<1>3. at'[t] = p /\ p # "join"
  BY Zenon DEF Blocks, TInv
<1> QED BY Zenon, <1>1, <1>2, <1>3, QuietJoin

LEMMA ExitJoin ==
  ASSUME TInv, ListInv, JoinInv, NEW t \in Threads, User(t), t # Main, Finishes(t),
         UNCHANGED <<detached, at, target>>
  PROVE  JoinInv'
<1>1. Range(join_waiters[t]) = Joiners(state, at, target, t)
  BY Zenon DEF ListInv, WaitInv, Lists
<1>2. \A x \in Threads : state'[x] = IF x = t THEN (IF t \in detached THEN "freed" ELSE "done")
                                     ELSE IF x \in Joiners(state, at, target, t) THEN "ready" ELSE state[x]
  BY Zenon, <1>1 DEF Finishes, Readied, TInv
<1>3. ASSUME NEW x \in Threads, at[x] = "join"
      PROVE  /\ target[x] \in Spawned \ (detached \cup {x}) /\ state'[target[x]] \notin {"none", "freed"}
             /\ state'[x] = "blocked" => state'[target[x]] # "done"
  <2>1. target[x] \in Spawned \ (detached \cup {x}) /\ state[target[x]] \notin {"none", "freed"} /\ target[x] \in Threads
    BY Zenon, <1>3 DEF JoinInv, Threads
  <2>2. CASE target[x] = t
    <3>1. x # t /\ t \notin detached
      BY Zenon, <2>1, <2>2
    <3>2. state[x] = "blocked" => x \in Joiners(state, at, target, t)
      BY Zenon, <1>3, <2>2 DEF Joiners
    <3> QED BY Zenon, <1>2, <2>1, <2>2, <3>1, <3>2
  <2>3. CASE target[x] # t
    BY Zenon, <1>2, <1>3, <2>1, <2>3 DEF JoinInv, User, Runs
  <2> QED BY Zenon, <2>2, <2>3
<1> QED BY Zenon, <1>3 DEF JoinInv

LEMMA JoinsJoin ==
  ASSUME TInv, JoinInv, NEW t \in Threads, Runs(t), NEW u \in Spawned, u # t, u \notin detached,
         state[u] \notin {"none", "freed"}, \A x \in Threads : x # t => target[x] # u, Joins(t, u)
  PROVE  JoinInv'
<1> u \in Threads /\ u # Nobody
  BY Zenon, ThreadsAssumption DEF Threads
<1>0. detached' = detached
  BY Zenon DEF Joins
<1>1. CASE state[u] = "done"
  <2>1. /\ \A x \in Threads : state'[x] = IF x = u THEN "freed" ELSE state[x]
        /\ \A x \in Threads : at'[x] = IF x = t THEN "user" ELSE at[x]
        /\ \A x \in Threads : target'[x] = IF x = t THEN Nobody ELSE target[x]
    BY <1>1 DEF Joins, TInv
  <2>2. \A x \in Threads : x # t /\ at[x] = "join" => target[x] # u /\ target[x] \in Threads
    BY Zenon DEF JoinInv, Threads
  <2> QED BY <1>0, <2>1, <2>2 DEF JoinInv
<1>2. CASE state[u] # "done"
  <2>1. /\ \A x \in Threads : state'[x] = IF x = t THEN "blocked" ELSE state[x]
        /\ \A x \in Threads : at'[x] = IF x = t THEN "join" ELSE at[x]
        /\ \A x \in Threads : target'[x] = IF x = t THEN u ELSE target[x]
    BY <1>2 DEF Joins, TInv, Blocks, Readied, Range
  <2>2. \A x \in Threads : at[x] = "join" => target[x] \in Threads
    BY Zenon DEF JoinInv, Threads
  <2> QED BY <1>0, <1>2, <2>1, <2>2 DEF JoinInv
<1> QED BY Zenon, <1>1, <1>2

LEMMA JoinStep ==
  ASSUME TInv, ListInv, JoinInv, Next
  PROVE  JoinInv'
<1>0. ASSUME RunHead PROVE JoinInv'
  <2>1. UNCHANGED <<at, target, detached>> /\ state' = [state EXCEPT ![Head(rq)] = "running"]
    BY Zenon, <1>0 DEF RunHead, prog
  <2>2. \A x \in Threads : state'[x] = "running" \/ state'[x] = state[x]
    BY Zenon, <2>1 DEF TInv
  <2> QED BY Zenon, <2>1, <2>2, QuietJoin
<1>1. CASE Pump
  BY Zenon, <1>0, <1>1 DEF Pump
<1>2. CASE MainResumes
  <2>1. UNCHANGED <<at, target, detached>> /\ state' = [state EXCEPT ![Main] = "running"]
    BY Zenon, <1>2 DEF MainResumes, prog
  <2>2. \A x \in Threads : state'[x] = "running" \/ state'[x] = state[x]
    BY Zenon, <2>1 DEF TInv
  <2> QED BY Zenon, <2>1, <2>2, QuietJoin
<1>3. ASSUME UNCHANGED <<state, at, target, detached>> PROVE JoinInv'
  BY Zenon, <1>3 DEF JoinInv
<1>4. CASE Abort
  BY Zenon, <1>3, <1>4 DEF Abort, sched
<1>5. ASSUME NEW t \in Threads, RetryJoin(t) PROVE JoinInv'
  <2>1. /\ target[t] \in Spawned /\ target[t] # t /\ target[t] \notin detached
        /\ state[target[t]] \notin {"none", "freed"} /\ \A x \in Threads : x # t => target[x] # target[t]
    BY Zenon, <1>5, ThreadsAssumption DEF RetryJoin, JoinInv, Threads
  <2> QED BY Zenon, <1>5, <2>1, JoinsJoin DEF RetryJoin
<1>6. ASSUME NEW t \in Threads, at[t] # "join", Contends(t) \/ AwaitOnce(t) PROVE JoinInv'
  BY Zenon, <1>6, BlocksJoin DEF Contends, AwaitOnce, Places
<1>7. ASSUME NEW t \in Threads, at[t] # "join", at' = [at EXCEPT ![t] = "user"],
             UNCHANGED <<state, target, detached>>
      PROVE  JoinInv'
  <2>1. \A x \in Threads : at'[x] = "join" <=> at[x] = "join"
    BY Zenon, <1>7 DEF TInv
  <2> QED BY Zenon, <1>7, <2>1, QuietJoin
<1>8. ASSUME NEW t \in Threads, RetryLock(t) PROVE JoinInv'
  BY Zenon, <1>6, <1>7, <1>8 DEF RetryLock, sched
<1>9. ASSUME NEW t \in Threads, RetryOnce(t) \/ call_once(t) PROVE JoinInv'
  BY Zenon, <1>3, <1>6, <1>7, <1>9 DEF RetryOnce, call_once, User, EnterOnce, PassOnce, sched, prog
<1>10. ASSUME NEW t \in Threads, thrd_yield(t) PROVE JoinInv'
  <2>1. CASE t = Main
    BY Zenon, <1>0, <1>10, <2>1 DEF thrd_yield
  <2>2. CASE t # Main
    <3>1. UNCHANGED <<at, target, detached>> /\ state' = [state EXCEPT ![t] = "ready"]
      BY Zenon, <1>10, <2>2 DEF thrd_yield, prog
    <3>2. \A x \in Threads : state'[x] = "ready" \/ state'[x] = state[x]
      BY Zenon, <3>1 DEF TInv
    <3> QED BY Zenon, <3>1, <3>2, QuietJoin
  <2> QED BY Zenon, <2>1, <2>2
<1>11. ASSUME NEW t \in Threads, thrd_exit(t) PROVE JoinInv'
  BY Zenon, <1>3, <1>11, ExitJoin DEF thrd_exit, sched
<1>12. ASSUME NEW t \in Threads, NEW u \in Spawned, thrd_create(t, u) PROVE JoinInv'
  <2>1. UNCHANGED <<at, target, detached>> /\ state' = [state EXCEPT ![u] = "ready"]
    BY Zenon, <1>12 DEF thrd_create, prog
  <2>2. \A x \in Threads : state'[x] = "ready" \/ state'[x] = state[x]
    BY Zenon, <2>1 DEF TInv
  <2> QED BY Zenon, <2>1, <2>2, QuietJoin
<1>13. ASSUME NEW t \in Threads, NEW u \in Spawned, thrd_join(t, u) PROVE JoinInv'
  BY Zenon, <1>13, JoinsJoin DEF thrd_join, User, Joinable
<1>14. ASSUME NEW t \in Threads, NEW u \in Spawned, thrd_detach(t, u) PROVE JoinInv'
  <2>1. /\ UNCHANGED <<at, target>> /\ detached' = detached \cup {u} /\ \A x \in Threads : target[x] # u
        /\ \A x \in Threads : x # u => state'[x] = state[x]
        /\ state'[u] = state[u] \/ state'[u] = "freed"
    BY Zenon, <1>14 DEF thrd_detach, prog, Joinable, TInv, Threads
  <2>2. \A x \in Threads : at[x] = "join" => target[x] \in Threads
    BY Zenon DEF JoinInv, Threads
  <2>3. ASSUME NEW x \in Threads, state'[x] = "blocked" PROVE state[x] = "blocked"
    BY Zenon, <2>1, <2>3
  <2> QED BY <2>1, <2>2, <2>3 DEF JoinInv
<1>15. ASSUME NEW t \in Threads, mtx_lock(t) \/ mtx_trylock(t) PROVE JoinInv'
  BY Zenon, <1>3, <1>6, <1>15 DEF mtx_lock, mtx_trylock, User, Locked, sched
<1>16. ASSUME NEW t \in Threads, mtx_unlock(t) PROVE JoinInv'
  BY Zenon, <1>3, <1>16, WakesJoin DEF mtx_unlock, sched
<1>17. ASSUME NEW t \in Threads, cnd_wait(t) PROVE JoinInv'
  BY Zenon, <1>17, BlocksJoin DEF cnd_wait, User, Places
<1>18. ASSUME NEW t \in Threads, cnd_signal(t) \/ cnd_broadcast(t) \/ LeaveOnce(t) PROVE JoinInv'
  BY Zenon, <1>18, WakesJoin DEF cnd_signal, cnd_broadcast, Notifies, LeaveOnce, prog
<1>19. CASE Ended
  BY Zenon, <1>3, <1>19 DEF Ended, vars
<1> QED BY <1>1, <1>2, <1>4, <1>5, <1>8, <1>9, <1>10, <1>11, <1>12, <1>13, <1>14, <1>15, <1>16, <1>17, <1>18, <1>19
        DEF Next, Library, Program

-----------------------------------------------------------------------------
(* The mutex, and the flag of call_once.                                   *)

LEMMA QuietHeld ==
  ASSUME TInv, HeldInv, UNCHANGED <<depth, held, passed>>,
         mtx'.owner = mtx.owner, mtx'.locked = mtx.locked, mtx'.count = mtx.count,
         mtx'.recursive = mtx.recursive, once'.state = once.state,
         \A x \in Threads : at'[x] \in {"mtx", "cnd"} <=> at[x] \in {"mtx", "cnd"}
  PROVE  HeldInv'
BY Zenon DEF HeldInv

LEMMA SameHeld ==
  ASSUME HeldInv, UNCHANGED <<depth, held, passed, mtx, once, at>>
  PROVE  HeldInv'
BY Zenon DEF HeldInv

\* Who holds nothing in user code does not own the mutex.
LEMMA ContendsHeld ==
  ASSUME TInv, HeldInv, NEW t \in Threads, Contends(t),
         at[t] \in {"mtx", "cnd"} \/ (at[t] = "user" /\ held[t] = 0)
  PROVE  HeldInv'
<1>1. /\ mtx'.owner = mtx.owner /\ mtx'.locked = mtx.locked /\ mtx'.count = mtx.count
      /\ mtx'.recursive = mtx.recursive /\ UNCHANGED <<depth, held, passed, once>>
  BY Zenon DEF Contends, TInv, MtxType
<1>2. \A x \in Threads : at'[x] = IF x = t THEN "mtx" ELSE at[x]
  BY Zenon DEF Contends, Blocks, TInv
<1>3. held[t] = depth[t] /\ mtx.owner # t
  BY ThreadsAssumption DEF HeldInv, TInv, MtxType, Threads
<1> QED BY <1>1, <1>2, <1>3 DEF HeldInv

LEMMA RetryHeld ==
  ASSUME TInv, HeldInv, NEW t \in Threads, RetryLock(t), ~Contends(t)
  PROVE  HeldInv'
<1> DEFINE n == IF depth[t] > 0 THEN depth[t] ELSE 1
<1>1. /\ ~mtx.locked /\ mtx'.owner = t /\ mtx'.locked = TRUE /\ mtx'.count = n
      /\ mtx'.recursive = mtx.recursive /\ UNCHANGED <<passed, once>>
      /\ at' = [at EXCEPT ![t] = "user"] /\ depth' = [depth EXCEPT ![t] = 0]
      /\ held' = [held EXCEPT ![t] = IF depth[t] > 0 THEN @ ELSE 1] /\ at[t] \in {"mtx", "cnd"}
  <2>1. /\ Takes(t, n) /\ UNCHANGED <<passed, once>> /\ at[t] \in {"mtx", "cnd"}
        /\ at' = [at EXCEPT ![t] = "user"] /\ depth' = [depth EXCEPT ![t] = 0]
        /\ held' = [held EXCEPT ![t] = IF depth[t] > 0 THEN @ ELSE 1]
    BY Zenon DEF RetryLock
  <2> HIDE DEF n
  <2>2. mtx \in MtxType /\ ~mtx.locked
        /\ mtx' = [mtx EXCEPT !.locked = TRUE, !.owner = t, !.count = n]
    BY Zenon, <2>1 DEF Takes, TInv
  <2>3. mtx'.owner = t /\ mtx'.locked = TRUE /\ mtx'.count = n /\ mtx'.recursive = mtx.recursive
    BY Zenon, <2>2 DEF MtxType
  <2> QED BY Zenon, <2>1, <2>2, <2>3
<1>2. depth[t] \in Nat /\ held[t] = depth[t] /\ t # Nobody /\ mtx.owner = Nobody
  BY Zenon, <1>1, ThreadsAssumption DEF HeldInv, TInv, Threads
<1>3. n > 0 /\ n \in Nat /\ held'[t] = n /\ depth'[t] = 0 /\ at'[t] = "user" /\ (~mtx.recursive => n <= 1)
  BY <1>1, <1>2 DEF HeldInv, TInv
<1>4. \A x \in Threads : x # t => held'[x] = held[x] /\ depth'[x] = depth[x] /\ at'[x] = at[x]
  BY Zenon, <1>1 DEF TInv
<1> HIDE DEF n
<1>5. ASSUME NEW x \in Threads
      PROVE  IF at'[x] \in {"mtx", "cnd"} THEN held'[x] = depth'[x] /\ mtx'.owner # x
             ELSE depth'[x] = 0 /\ (held'[x] > 0 => mtx'.owner = x)
  <2>1. CASE x = t
    BY Zenon, <1>1, <1>3, <2>1
  <2>2. CASE x # t
    <3>1. at[x] \notin {"mtx", "cnd"} => depth[x] = 0 /\ ~(held[x] > 0)
      BY Zenon, <1>2, ThreadsAssumption DEF HeldInv, Threads
    <3> QED BY <1>1, <1>4, <2>2, <3>1 DEF HeldInv
  <2> QED BY Zenon, <2>1, <2>2
<1>6. ~mtx'.recursive => mtx'.count <= 1 /\ \A x \in Threads : depth'[x] <= 1
  <2>1. ~mtx.recursive => \A x \in Threads : depth[x] <= 1
    BY Zenon DEF HeldInv
  <2> QED BY <1>1, <1>3, <1>4, <2>1
<1>7. (mtx'.locked <=> mtx'.owner # Nobody) /\ mtx'.owner # Nobody
  BY Zenon, <1>1, <1>2
<1> QED BY Zenon, <1>1, <1>3, <1>5, <1>6, <1>7 DEF HeldInv

LEMMA LockHeld ==
  ASSUME TInv, HeldInv, NEW t \in Threads, User(t), Reenters(t) \/ Takes(t, 1), Locked(t)
  PROVE  HeldInv'
<1>0. /\ UNCHANGED <<passed, once, at, depth>> /\ at[t] = "user" /\ held' = [held EXCEPT ![t] = @ + 1]
      /\ t # Nobody /\ held[t] \in Nat /\ mtx.count \in Nat
  BY Zenon, ThreadsAssumption DEF Locked, User, TInv, MtxType, Threads
<1>1. mtx'.recursive = mtx.recursive /\ mtx'.owner = t /\ mtx'.locked = TRUE
  BY Zenon DEF Reenters, Takes, TInv, MtxType
<1>2. mtx'.count = held[t] + 1 /\ (~mtx.recursive => mtx'.count <= 1) /\ mtx.owner \in {Nobody, t}
  <2>1. CASE Reenters(t)
    BY Zenon, <1>0, <2>1 DEF Reenters, TInv, MtxType, HeldInv
  <2>2. CASE Takes(t, 1)
    <3>1. mtx'.count = 1 /\ mtx.owner = Nobody
      BY Zenon, <2>2 DEF Takes, TInv, MtxType, HeldInv
    <3>2. held[t] = 0
      BY <1>0, <3>1 DEF HeldInv
    <3> QED BY <3>1, <3>2
  <2> QED BY Zenon, <2>1, <2>2
<1>3. held'[t] = held[t] + 1 /\ \A x \in Threads : x # t => held'[x] = held[x]
  BY Zenon, <1>0 DEF TInv
<1>4. \A x \in Threads : x # t /\ at[x] \notin {"mtx", "cnd"} => ~(held[x] > 0)
  BY <1>2, ThreadsAssumption DEF HeldInv, Threads
<1> QED BY <1>0, <1>1, <1>2, <1>3, <1>4 DEF HeldInv

LEMMA ReleaseHeld ==
  ASSUME TInv, HeldInv, NEW t \in Threads, User(t), held[t] > 0
  PROVE  /\ mtx.owner = t /\ t # Nobody /\ mtx.locked /\ mtx.count = held[t] /\ depth[t] = 0
         /\ (~mtx.recursive \/ ~(mtx.count > 1)) => mtx.count = 1
BY ThreadsAssumption DEF HeldInv, User, TInv, MtxType, Threads

LEMMA UnlockHeld ==
  ASSUME TInv, HeldInv, NEW t \in Threads, mtx_unlock(t)
  PROVE  HeldInv'
<1>0. /\ UNCHANGED <<passed, once, at, depth>> /\ at[t] = "user" /\ held' = [held EXCEPT ![t] = @ - 1]
      /\ held[t] > 0 /\ held[t] \in Nat /\ mtx.count \in Nat
  BY Zenon DEF mtx_unlock, User, TInv, MtxType
<1>1. /\ mtx.owner = t /\ t # Nobody /\ mtx.locked /\ mtx.count = held[t] /\ depth[t] = 0
      /\ (~mtx.recursive \/ ~(mtx.count > 1)) => mtx.count = 1
  BY Zenon, ReleaseHeld DEF mtx_unlock
<1>2. held'[t] = held[t] - 1 /\ \A x \in Threads : x # t => held'[x] = held[x]
  BY Zenon, <1>0 DEF TInv
<1>3. \A x \in Threads : x # t /\ at[x] \notin {"mtx", "cnd"} => ~(held[x] > 0)
  BY ZenonT(30), <1>1 DEF HeldInv
<1>4. CASE mtx.recursive /\ mtx.count > 1
  <2>1. /\ mtx'.owner = mtx.owner /\ mtx'.locked = mtx.locked /\ mtx'.recursive = mtx.recursive
        /\ mtx'.count = mtx.count - 1
    BY Zenon, <1>4 DEF mtx_unlock, TInv, MtxType
  <2> QED BY <1>0, <1>1, <1>2, <1>3, <1>4, <2>1 DEF HeldInv
<1>5. CASE ~(mtx.recursive /\ mtx.count > 1)
  <2>1. /\ mtx'.owner = Nobody /\ mtx'.locked = FALSE /\ mtx'.recursive = mtx.recursive
        /\ mtx'.count = 0
    BY ZenonT(60), <1>5 DEF mtx_unlock, Released, TInv, MtxType
  <2>2. held'[t] = 0 /\ \A x \in Threads : at[x] \in {"mtx", "cnd"} => Nobody # x
    BY <1>0, <1>1, <1>2, <1>5, ThreadsAssumption DEF Threads
  <2> QED BY <1>0, <1>1, <1>2, <1>3, <2>1, <2>2 DEF HeldInv
<1> QED BY Zenon, <1>4, <1>5

LEMMA WaitHeld ==
  ASSUME TInv, HeldInv, NEW t \in Threads, cnd_wait(t)
  PROVE  HeldInv'
<1>0. /\ UNCHANGED <<passed, once, held>> /\ held[t] > 0 /\ held[t] \in Nat /\ mtx.count \in Nat
      /\ \A x \in Threads : at'[x] = IF x = t THEN "cnd" ELSE at[x]
      /\ \A x \in Threads : depth'[x] = IF x = t THEN mtx.count ELSE depth[x]
  BY Zenon DEF cnd_wait, Blocks, TInv, MtxType
<1>1. mtx.owner = t /\ mtx.count = held[t]
  BY Zenon, ReleaseHeld DEF cnd_wait
<1>2. mtx'.owner = Nobody /\ mtx'.locked = FALSE /\ mtx'.recursive = mtx.recursive /\ mtx'.count = 0
  BY Zenon DEF cnd_wait, Released, TInv, MtxType
<1>3. \A x \in Threads : Nobody # x /\ (x # t /\ at[x] \notin {"mtx", "cnd"} => ~(held[x] > 0))
  BY Zenon, <1>1, ThreadsAssumption DEF HeldInv, Threads
<1>4. ~mtx.recursive => mtx.count <= 1
  BY Zenon DEF HeldInv
<1> QED BY <1>0, <1>1, <1>2, <1>3, <1>4 DEF HeldInv

LEMMA HeldStep ==
  ASSUME TInv, JoinInv, HeldInv, Next
  PROVE  HeldInv'
<1>1. ASSUME RunHead \/ MainResumes \/ Abort \/ Ended PROVE HeldInv'
  BY Zenon, <1>1, SameHeld DEF RunHead, MainResumes, Abort, Ended, vars, prog
<1>2. CASE Pump
  BY Zenon, <1>1, <1>2 DEF Pump
<1>3. ASSUME NEW t \in Threads, NEW u, at[t] \in {"user", "join"}, Joins(t, u) PROVE HeldInv'
  <2>1. UNCHANGED <<mtx, once, depth, held, passed>>
    BY Zenon, <1>3 DEF Joins
  <2>2. \A x \in Threads : at'[x] \in {"mtx", "cnd"} <=> at[x] \in {"mtx", "cnd"}
    BY <1>3 DEF Joins, Blocks, TInv
  <2> QED BY Zenon, <2>1, <2>2, QuietHeld
<1>4. ASSUME NEW t \in Threads, RetryJoin(t) PROVE HeldInv'
  BY <1>3, <1>4 DEF RetryJoin
<1>5. ASSUME NEW t \in Threads, RetryLock(t) PROVE HeldInv'
  BY Zenon, <1>5, ContendsHeld, RetryHeld DEF RetryLock
<1>6. ASSUME NEW t \in Threads, RetryOnce(t) \/ call_once(t) PROVE HeldInv'
  <2>0. at[t] \in {"user", "once"} /\ (AwaitOnce(t) \/ PassOnce(t) \/ EnterOnce(t))
    BY Zenon, <1>6 DEF RetryOnce, call_once, User
  <2>1. CASE AwaitOnce(t)
    <3>1. UNCHANGED <<mtx, depth, held, passed>> /\ once'.state = once.state
      BY Zenon, <2>1 DEF AwaitOnce, TInv, OnceType
    <3>2. \A x \in Threads : at'[x] \in {"mtx", "cnd"} <=> at[x] \in {"mtx", "cnd"}
      BY Zenon, <2>0, <2>1 DEF AwaitOnce, Blocks, TInv
    <3> QED BY Zenon, <3>1, <3>2, QuietHeld
  <2>2. CASE PassOnce(t)
    <3>1. UNCHANGED <<mtx, once, depth, held>> /\ once.state = 2
      BY Zenon, <2>2 DEF PassOnce
    <3>2. \A x \in Threads : at'[x] \in {"mtx", "cnd"} <=> at[x] \in {"mtx", "cnd"}
      BY Zenon, <2>0, <2>2 DEF PassOnce, TInv
    <3> QED BY Zenon, <3>1, <3>2 DEF HeldInv
  <2>3. CASE EnterOnce(t)
    <3>1. UNCHANGED <<mtx, depth, held, passed, at>> /\ once.state = 0
      BY Zenon, <2>3 DEF EnterOnce, prog
    <3> QED BY <3>1 DEF HeldInv
  <2> QED BY Zenon, <2>0, <2>1, <2>2, <2>3
<1>7. ASSUME NEW t \in Threads, thrd_yield(t) \/ thrd_exit(t) PROVE HeldInv'
  BY Zenon, <1>1, <1>7, SameHeld DEF thrd_yield, thrd_exit, prog
<1>8. ASSUME NEW t \in Threads, NEW u \in Spawned, thrd_create(t, u) \/ thrd_join(t, u) \/ thrd_detach(t, u) PROVE HeldInv'
  BY <1>3, <1>8, SameHeld DEF thrd_create, thrd_join, thrd_detach, User, prog
<1>9. ASSUME NEW t \in Threads, mtx_lock(t) \/ mtx_trylock(t) PROVE HeldInv'
  <2>1. CASE held[t] = 0 /\ Contends(t)
    BY Zenon, <1>9, <2>1, ContendsHeld DEF mtx_lock, mtx_trylock, User
  <2> QED BY Zenon, <1>9, <2>1, LockHeld DEF mtx_lock, mtx_trylock
<1>10. ASSUME NEW t \in Threads, mtx_unlock(t) \/ cnd_wait(t) PROVE HeldInv'
  BY Zenon, <1>10, UnlockHeld, WaitHeld
<1>11. ASSUME NEW t \in Threads, cnd_signal(t) \/ cnd_broadcast(t) PROVE HeldInv'
  BY Zenon, <1>11, SameHeld DEF cnd_signal, cnd_broadcast, Notifies, prog
<1>12. ASSUME NEW t \in Threads, LeaveOnce(t) PROVE HeldInv'
  <2>1. UNCHANGED <<mtx, depth, held, at>> /\ once'.state = 2
    BY Zenon, <1>12 DEF LeaveOnce, TInv, OnceType
  <2> QED BY Zenon, <2>1 DEF HeldInv
<1> QED BY SMTT(20), <1>1, <1>2, <1>4, <1>5, <1>6, <1>7, <1>8, <1>9, <1>10, <1>11, <1>12 DEF Next, Library, Program
-----------------------------------------------------------------------------
(* Wakeups.                                                                *)

\* The thread that was readied is still about to look at the lock.
LEMMA QuietWake ==
  ASSUME NoLostWakeup, mtx'.locked = mtx.locked, mtx'.waiters = mtx.waiters,
         \A x \in Threads : at[x] \in {"mtx", "cnd"} /\ state[x] \in {"ready", "running"} =>
                              at'[x] = at[x] /\ state'[x] \in {"ready", "running"}
  PROVE  NoLostWakeup'
BY Zenon DEF NoLostWakeup

LEMMA WakesWake ==
  ASSUME TInv, NoLostWakeup, NEW ws, Wakes(ws), mtx' = mtx, at' = at
  PROVE  NoLostWakeup'
<1>1. \A x \in Threads : state'[x] = "ready" \/ state'[x] = state[x]
  BY Zenon DEF Wakes, Readied
<1> QED BY Zenon, <1>1, QuietWake

LEMMA ReleaseWake ==
  ASSUME TInv, ListInv, mtx' = Released, NEW s2, s2 = Readied(state, Popped(mtx.waiters)),
         \A x \in Threads : state[x] = "blocked" => state'[x] = s2[x] /\ at'[x] = at[x]
  PROVE  NoLostWakeup'
<1>1. Lists(mtx.waiters, Parked(state, at, "mtx"))
  BY Zenon DEF ListInv, WaitInv
<1>2. CASE mtx.waiters = <<>>
  <2>1. mtx'.waiters = <<>>
    BY Zenon, <1>2 DEF Released, Rest, TInv, MtxType
  <2> QED BY Zenon, <2>1 DEF NoLostWakeup
<1>3. CASE mtx.waiters # <<>>
  <2> DEFINE h == Head(mtx.waiters)
  <2>1. h \in Parked(state, at, "mtx") /\ Popped(mtx.waiters) = <<h>>
    BY Zenon, <1>1, <1>3, TailLists DEF Popped
  <2> HIDE DEF h
  <2>2. Range(<<h>>) = {h}
    BY DEF Range
  <2>3. h \in Threads /\ state[h] = "blocked" /\ at[h] = "mtx"
    BY Zenon, <2>1 DEF Parked
  <2>4. s2[h] = "ready"
    BY Zenon, <2>1, <2>2, <2>3 DEF Readied
  <2> QED BY Zenon, <2>3, <2>4 DEF NoLostWakeup
<1> QED BY Zenon, <1>2, <1>3

LEMMA WakeupStep ==
  ASSUME TInv, ListInv, JoinInv, HeldInv, NoLostWakeup, Next
  PROVE  NoLostWakeup'
<1>1. ASSUME NEW u \in Threads, NEW s \in {"ready", "running"}, state' = [state EXCEPT ![u] = s],
             UNCHANGED <<mtx, at>>
      PROVE  NoLostWakeup'
  <2>1. \A x \in Threads : state'[x] \in {"ready", "running"} \/ state'[x] = state[x]
    BY Zenon, <1>1 DEF TInv
  <2> QED BY Zenon, <1>1, <2>1, QuietWake
<1>2. ASSUME RunHead PROVE NoLostWakeup'
  <2>1. Head(rq) \in Threads
    BY Zenon, <1>2, TailLists DEF RunHead, ListInv, Ready
  <2> QED BY Zenon, <1>1, <1>2, <2>1 DEF RunHead, prog
<1>3. CASE Pump \/ MainResumes
  BY Zenon, <1>1, <1>2, <1>3 DEF Pump, MainResumes, prog, Threads
<1>4. ASSUME UNCHANGED <<mtx, at, state>> PROVE NoLostWakeup'
  BY Zenon, <1>4 DEF NoLostWakeup
<1>5. CASE Abort \/ Ended
  BY Zenon, <1>4, <1>5 DEF Abort, Ended, sched, vars
<1>6. ASSUME NEW t \in Threads, NEW u \in Threads, at[t] \in {"user", "join"}, Joins(t, u) PROVE NoLostWakeup'
  <2>1. mtx' = mtx /\ \A x \in Threads : x # t => at'[x] = at[x] /\ (state'[x] = state[x] \/ (x = u /\ state[u] = "done"))
    BY <1>6 DEF Joins, Blocks, Readied, Range, TInv
  <2> QED BY Zenon, <1>6, <2>1, QuietWake
<1>7. ASSUME mtx'.locked PROVE NoLostWakeup'
  BY Zenon, <1>7 DEF NoLostWakeup
<1>8. ASSUME NEW t \in Threads, Contends(t) \/ Reenters(t) \/ Takes(t, 1) \/ RetryLock(t) PROVE NoLostWakeup'
  BY Zenon, <1>7, <1>8 DEF Contends, Reenters, Takes, RetryLock, TInv, MtxType
<1>9. ASSUME NEW t \in Threads, RetryOnce(t) \/ call_once(t) PROVE NoLostWakeup'
  <2>1. /\ mtx' = mtx /\ at[t] \in {"user", "once"}
        /\ \A x \in Threads : x # t => at'[x] = at[x] /\ state'[x] = state[x]
    BY <1>9 DEF RetryOnce, call_once, User, AwaitOnce, PassOnce, EnterOnce, Blocks, Readied, Range, TInv, sched, prog
  <2> QED BY Zenon, <2>1, QuietWake
<1>10. ASSUME NEW t \in Threads, thrd_yield(t) PROVE NoLostWakeup'
  BY Zenon, <1>1, <1>2, <1>10 DEF thrd_yield, prog
<1>11. ASSUME NEW t \in Threads, thrd_exit(t) PROVE NoLostWakeup'
  <2>1. /\ mtx' = mtx /\ at[t] = "user" /\ at' = at
        /\ \A x \in Threads : x # t => state'[x] = "ready" \/ state'[x] = state[x]
    BY ZenonT(60), <1>11 DEF thrd_exit, User, Finishes, Readied, TInv, sched
  <2> QED BY Zenon, <2>1, QuietWake
<1>12. ASSUME NEW t \in Threads, NEW u \in Spawned, thrd_create(t, u) \/ thrd_join(t, u) PROVE NoLostWakeup'
  BY Zenon, <1>1, <1>6, <1>12 DEF thrd_create, thrd_join, User, prog, Threads
<1>13. ASSUME NEW t \in Threads, NEW u \in Spawned, thrd_detach(t, u) PROVE NoLostWakeup'
  <2>1. mtx' = mtx /\ at' = at /\ \A x \in Threads : state'[x] = state[x] \/ state[x] = "done"
    BY Zenon, <1>13 DEF thrd_detach, TInv, prog
  <2> QED BY Zenon, <2>1, QuietWake
<1>14. ASSUME NEW t \in Threads, mtx_lock(t) \/ mtx_trylock(t) PROVE NoLostWakeup'
  BY Zenon, <1>8, <1>14 DEF mtx_lock, mtx_trylock
<1>15. ASSUME NEW t \in Threads, mtx_unlock(t) PROVE NoLostWakeup'
  <2>1. CASE mtx.recursive /\ mtx.count > 1
    <3>1. mtx.locked /\ mtx'.locked = mtx.locked
      BY Zenon, <1>15, <2>1, ReleaseHeld DEF mtx_unlock, TInv, MtxType
    <3> QED BY Zenon, <1>7, <3>1
  <2>2. CASE ~(mtx.recursive /\ mtx.count > 1)
    BY Zenon, <1>15, <2>2, ReleaseWake DEF mtx_unlock, Wakes
  <2> QED BY Zenon, <2>1, <2>2
<1>16. ASSUME NEW t \in Threads, cnd_wait(t) PROVE NoLostWakeup'
  <2> DEFINE s2 == Readied(state, Popped(mtx.waiters))
  <2>1. \A x \in Threads : x # t => state'[x] = s2[x] /\ at'[x] = at[x]
    BY Zenon, <1>16 DEF cnd_wait, Blocks, Readied, TInv
  <2>2. state[t] # "blocked" /\ mtx' = Released
    BY Zenon, <1>16 DEF cnd_wait, User, Runs
  <2> HIDE DEF s2
  <2>3. s2 = Readied(state, Popped(mtx.waiters))
    BY Zenon DEF s2
  <2> QED BY Zenon, <2>1, <2>2, <2>3, ReleaseWake
<1>17. ASSUME NEW t \in Threads, cnd_signal(t) \/ cnd_broadcast(t) \/ LeaveOnce(t) PROVE NoLostWakeup'
  BY Zenon, <1>17, WakesWake DEF cnd_signal, cnd_broadcast, Notifies, LeaveOnce, prog
<1>18. ASSUME NEW t \in Threads, RetryJoin(t) PROVE NoLostWakeup'
  BY Zenon, <1>6, <1>18 DEF RetryJoin, JoinInv, Threads
<1> QED BY Zenon, <1>3, <1>5, <1>8, <1>9, <1>10, <1>11, <1>12, <1>13, <1>14, <1>15, <1>16, <1>17, <1>18
        DEF Next, Library, Program

\* Nothing but block_current ends the program with an abort.
LEMMA AbortStep ==
  ASSUME TInv, ListInv, AbortIsDeadlock, Next
  PROVE  AbortIsDeadlock'
<1>1. CASE Abort
  <2>1. rq = <<>> /\ state' = state /\ cur = Main /\ state[Main] = "blocked" /\ Lists(rq, Ready(state))
    BY Zenon, <1>1 DEF Abort, sched, ListInv
  <2>2. Ready(state) = {}
    BY Zenon, <2>1, InList
  <2>3. \A t \in Threads : state[t] \notin {"ready", "running"}
    BY Zenon, <2>1, <2>2 DEF Ready, ListInv
  <2> QED BY Zenon, <2>1, <2>3 DEF AbortIsDeadlock, TInv, States
<1>2. CASE Ended
  BY Zenon, <1>2 DEF Ended, vars, AbortIsDeadlock
<1>3. ASSUME over' # "abort" PROVE AbortIsDeadlock'
  BY Zenon, <1>3 DEF AbortIsDeadlock
<1>4. CASE Pump \/ MainResumes
  BY Zenon, <1>3, <1>4 DEF Pump, RunHead, MainResumes, prog
<1>5. ASSUME NEW t \in Threads, RetryJoin(t) \/ RetryLock(t) \/ RetryOnce(t) PROVE AbortIsDeadlock'
  BY Zenon, <1>3, <1>5 DEF RetryJoin, RetryLock, RetryOnce, Joins, Contends, AwaitOnce, PassOnce, Runs
<1>6. ASSUME NEW t \in Threads, thrd_yield(t) \/ thrd_exit(t) PROVE AbortIsDeadlock'
  BY Zenon, <1>3, <1>6 DEF thrd_yield, thrd_exit, RunHead, User, Runs, prog
<1>7. ASSUME NEW t \in Threads, NEW u \in Spawned, thrd_create(t, u) \/ thrd_join(t, u) \/ thrd_detach(t, u)
      PROVE  AbortIsDeadlock'
  BY Zenon, <1>3, <1>7 DEF thrd_create, thrd_join, thrd_detach, Joins, User, Runs, prog
<1>8. ASSUME NEW t \in Threads, mtx_lock(t) \/ mtx_trylock(t) \/ mtx_unlock(t) PROVE AbortIsDeadlock'
  BY Zenon, <1>3, <1>8 DEF mtx_lock, mtx_trylock, mtx_unlock, Contends, Locked, User, Runs
<1>9. ASSUME NEW t \in Threads, cnd_wait(t) \/ cnd_signal(t) \/ cnd_broadcast(t) PROVE AbortIsDeadlock'
  BY Zenon, <1>3, <1>9 DEF cnd_wait, cnd_signal, cnd_broadcast, Notifies, User, Runs, prog
<1>10. ASSUME NEW t \in Threads, call_once(t) \/ LeaveOnce(t) PROVE AbortIsDeadlock'
  BY Zenon, <1>3, <1>10 DEF call_once, EnterOnce, AwaitOnce, PassOnce, LeaveOnce, User, Runs, prog
<1> QED BY SMTT(20), <1>1, <1>2, <1>4, <1>5, <1>6, <1>7, <1>8, <1>9, <1>10 DEF Next, Library, Program
-----------------------------------------------------------------------------
(* The theorems.                                                           *)

LEMMA ThreadsStart ==
  ASSUME Init
  PROVE  ThreadsInv
<1> Threads # {} /\ Main \in Threads /\ Nobody \notin Threads
  BY Zenon, ThreadsAssumption DEF Threads
<1>1. TInv
  <2>1. mtx \in MtxType
    BY QueueOps DEF Init, MtxType
  <2>2. once \in OnceType
    BY Zenon, QueueOps DEF Init, OnceType
  <2>3. join_waiters \in [Threads -> Queue]
    BY Zenon, QueueOps DEF Init
  <2> QED BY ZenonT(60), <2>1, <2>2, <2>3 DEF Init, TInv, States, Places
<1>2. ListInv
  <2>1. /\ Ready(state) = {} /\ \A p : Parked(state, at, p) = {}
        /\ \A u : Joiners(state, at, target, u) = {}
    BY Zenon DEF Init, Ready, Parked, Joiners
  <2>2. /\ rq = <<>> /\ mtx.waiters = <<>> /\ cnd = <<>> /\ once.waiters = <<>>
        /\ \A u \in Threads : join_waiters[u] = <<>>
    BY DEF Init
  <2>3. \A t \in Threads : state[t] # "blocked" /\ (state[t] = "running" => t = Main)
    BY Zenon DEF Init
  <2> QED BY ZenonT(60), <2>1, <2>2, <2>3, EmptyLists DEF ListInv, WaitInv
<1>3. JoinInv
  BY Zenon DEF Init, JoinInv
<1>4. HeldInv
  BY DEF Init, HeldInv
<1>5. NoLostWakeup /\ AbortIsDeadlock
  BY DEF Init, NoLostWakeup, AbortIsDeadlock
<1> QED BY Zenon, <1>1, <1>2, <1>3, <1>4, <1>5 DEF ThreadsInv

LEMMA ThreadsStep ==
  ASSUME ThreadsInv, [Next]_vars
  PROVE  ThreadsInv'
<1>1. CASE Next
  BY Zenon, <1>1, TypeStep, ListStep, JoinStep, HeldStep, WakeupStep, AbortStep DEF ThreadsInv
<1>2. CASE UNCHANGED vars
  <2>1. TInv' /\ ListInv' /\ JoinInv'
    BY Zenon, <1>2 DEF ThreadsInv, vars, TInv, ListInv, JoinInv
  <2>2. HeldInv' /\ NoLostWakeup' /\ AbortIsDeadlock'
    BY Zenon, <1>2 DEF ThreadsInv, vars, HeldInv, NoLostWakeup, AbortIsDeadlock
  <2> QED BY Zenon, <2>1, <2>2 DEF ThreadsInv
<1> QED BY Zenon, <1>1, <1>2

LEMMA ThreadsInvariant == Spec => []ThreadsInv
<1>1. Init => ThreadsInv
  BY Zenon, ThreadsStart
<1>2. ThreadsInv /\ [Next]_vars => ThreadsInv'
  BY Zenon, ThreadsStep
<1> QED BY <1>1, <1>2, PTL DEF Spec

\* A list that holds the threads of S holds each of them once.
LEMMA OnceIn ==
  ASSUME NEW q, NEW S, Lists(q, S), NEW t \in S
  PROVE  Once(t, q)
<1>1. /\ q \in Seq(Threads) /\ \A x : x \in S <=> \E i \in 1 .. Len(q) : q[i] = x
      /\ \A i, j \in 1 .. Len(q) : q[i] = q[j] => i = j
  BY Zenon, InList
<1>2. DOMAIN q = 1 .. Len(q)
  BY <1>1
<1>3. PICK i \in 1 .. Len(q) : q[i] = t
  BY Zenon, <1>1
<1>4. \A j \in DOMAIN q : q[j] = t <=> j = i
  BY Zenon, <1>1, <1>2, <1>3
<1> QED BY <1>2, <1>3, <1>4 DEF Once

LEMMA ListsAreOne ==
  ASSUME TInv, ListInv, JoinInv
  PROVE  OneList
<1> DEFINE P(p) == Parked(state, at, p)
           J(u) == Joiners(state, at, target, u)
<1>1. /\ Lists(rq, Ready(state)) /\ Lists(mtx.waiters, P("mtx")) /\ Lists(cnd, P("cnd"))
      /\ Lists(once.waiters, P("once")) /\ \A u \in Threads : Lists(join_waiters[u], J(u))
  BY Zenon DEF ListInv, WaitInv
<1>2. \A r : r \in WaitLists <=> r \in {mtx.waiters, cnd, once.waiters} \/ \E u \in Threads : r = join_waiters[u]
  BY Zenon DEF WaitLists, Range, TInv
<1>3. ASSUME NEW t \in Threads
      PROVE  IF state[t] = "ready" /\ t # Main THEN Once(t, rq) ELSE t \notin Range(rq)
  <2>1. t \in Ready(state) <=> state[t] = "ready" /\ t # Main
    BY Zenon DEF Ready
  <2>2. Range(rq) = Ready(state)
    BY Zenon, <1>1 DEF Lists
  <2> QED BY Zenon, <1>1, <2>1, <2>2, OnceIn
<1>4. ASSUME NEW t \in Threads, state[t] # "blocked", NEW q \in WaitLists PROVE t \notin Range(q)
  <2>1. (\A p : t \notin P(p)) /\ \A u : t \notin J(u)
    BY Zenon, <1>4 DEF Parked, Joiners
  <2> HIDE DEF P, J
  <2> QED BY SMTT(20), <1>1, <1>2, <2>1 DEF Lists
<1>5. ASSUME NEW t \in Threads, state[t] = "blocked"
      PROVE  \E q \in WaitLists : Once(t, q) /\ \A r \in WaitLists \ {q} : t \notin Range(r)
  <2>1. at[t] \in {"mtx", "cnd", "once", "join"} /\ (\A p : t \in P(p) <=> at[t] = p)
    BY Zenon, <1>5 DEF TInv, ListInv, Places, Parked
  <2>2. (\A u : t \in J(u) <=> at[t] = "join" /\ target[t] = u) /\ (at[t] = "join" => target[t] \in Threads)
    BY Zenon, <1>5 DEF Joiners, JoinInv, Threads
  <2> HIDE DEF P, J
  <2>3. /\ Range(mtx.waiters) = P("mtx") /\ Range(cnd) = P("cnd") /\ Range(once.waiters) = P("once")
        /\ \A u \in Threads : Range(join_waiters[u]) = J(u)
    BY ZenonT(30), <1>1 DEF Lists
  <2>4. CASE at[t] = "mtx"
    <3>1. Once(t, mtx.waiters)
      BY Zenon, <1>1, <2>1, <2>4, OnceIn
    <3> QED BY SMTT(60), <1>2, <2>1, <2>2, <2>3, <2>4, <3>1
  <2>5. CASE at[t] = "cnd"
    <3>1. Once(t, cnd)
      BY Zenon, <1>1, <2>1, <2>5, OnceIn
    <3> QED BY SMTT(60), <1>2, <2>1, <2>2, <2>3, <2>5, <3>1
  <2>6. CASE at[t] = "once"
    <3>1. Once(t, once.waiters)
      BY Zenon, <1>1, <2>1, <2>6, OnceIn
    <3> QED BY SMTT(60), <1>2, <2>1, <2>2, <2>3, <2>6, <3>1
  <2>7. CASE at[t] = "join"
    <3>1. Once(t, join_waiters[target[t]])
      BY Zenon, <1>1, <2>2, <2>7, OnceIn
    <3> QED BY SMTT(60), <1>2, <2>1, <2>2, <2>3, <2>7, <3>1
  <2> QED BY Zenon, <2>1, <2>4, <2>5, <2>6, <2>7
<1>6. ASSUME NEW t \in Threads, at[t] = "join", state[t] = "blocked"
      PROVE  state[target[t]] \in {"ready", "running", "blocked"}
  <2>1. target[t] \in Threads /\ state[target[t]] \notin {"none", "freed", "done"}
    BY Zenon, <1>6 DEF JoinInv, Threads
  <2> QED BY Zenon, <2>1 DEF TInv, States
<1> QED BY Zenon, <1>3, <1>4, <1>5, <1>6 DEF OneList

-----------------------------------------------------------------------------
(* The monitor.                                                            *)

\* A step that leaves the mutex, the depths and the condition variable alone.
LEMMA QuietMonitor ==
  ASSUME mtx'.owner = mtx.owner, mtx'.count = mtx.count, depth' = depth, cnd' = cnd
  PROVE  UNCHANGED M!mvars
BY Zenon DEF M!mvars

LEMMA LockMonitor ==
  ASSUME TInv, HeldInv, NEW t \in Threads, User(t), Reenters(t) \/ Takes(t, 1), Locked(t)
  PROVE  M!Enter(t) \/ M!Reenter(t)
<1>1. UNCHANGED <<depth, cnd>> /\ depth[t] = 0
  BY Zenon DEF Locked, lists, HeldInv, User
<1>2. CASE Takes(t, 1)
  <2>1. mtx.owner = Nobody /\ mtx'.owner = t /\ mtx'.count = 1
    BY Zenon, <1>2 DEF Takes, HeldInv, TInv, MtxType
  <2> QED BY Zenon, <1>1, <2>1 DEF M!Enter
<1>3. CASE Reenters(t)
  <2>1. mtx.owner = t /\ mtx'.owner = t /\ mtx'.count = mtx.count + 1
    BY Zenon, <1>3 DEF Reenters, TInv, MtxType
  <2> QED BY Zenon, <1>1, <2>1 DEF M!Reenter
<1> QED BY Zenon, <1>2, <1>3

LEMMA RetryMonitor ==
  ASSUME TInv, ListInv, HeldInv, NEW t \in Threads, RetryLock(t), ~Contends(t)
  PROVE  M!Enter(t) \/ M!Regain(t)
<1>1. /\ mtx.owner = Nobody /\ mtx'.owner = t /\ mtx'.count = (IF depth[t] > 0 THEN depth[t] ELSE 1)
      /\ cnd' = cnd /\ depth' = [depth EXCEPT ![t] = 0]
  BY ZenonT(60) DEF RetryLock, Takes, HeldInv, TInv, MtxType, lists
<1>2. t \notin Range(cnd)
  BY Zenon DEF ListInv, WaitInv, Lists, Parked, RetryLock, Runs
<1>3. CASE depth[t] > 0
  BY Zenon, <1>1, <1>2, <1>3 DEF M!Regain
<1>4. CASE ~(depth[t] > 0)
  <2>1. depth[t] = 0
    BY SMTT(60), <1>4 DEF TInv
  <2>2. depth' = depth
    BY Zenon, <1>1, <2>1 DEF TInv
  <2> QED BY <1>1, <2>1, <2>2 DEF M!Enter
<1> QED BY Zenon, <1>3, <1>4

LEMMA UnlockMonitor ==
  ASSUME TInv, HeldInv, NEW t \in Threads, mtx_unlock(t)
  PROVE  M!Leave(t)
<1>1. /\ mtx.owner = t /\ mtx.count \in Nat /\ mtx.count > 0
      /\ (~mtx.recursive \/ ~(mtx.count > 1)) => mtx.count = 1
  BY Zenon, ReleaseHeld DEF mtx_unlock, TInv, MtxType
<1>2. UNCHANGED <<depth, cnd>>
  BY Zenon DEF mtx_unlock, lists
<1>3. CASE mtx.recursive /\ mtx.count > 1
  <2>1. mtx'.owner = t /\ mtx'.count = mtx.count - 1
    BY Zenon, <1>1, <1>3 DEF mtx_unlock, TInv, MtxType
  <2> QED BY <1>1, <1>2, <1>3, <2>1 DEF M!Leave
<1>4. CASE ~(mtx.recursive /\ mtx.count > 1)
  <2>1. mtx'.owner = Nobody /\ mtx'.count = 0 /\ mtx.count = 1
    BY Zenon, <1>1, <1>4 DEF mtx_unlock, Released, TInv, MtxType
  <2> QED BY <1>1, <1>2, <2>1 DEF M!Leave
<1> QED BY Zenon, <1>3, <1>4

LEMMA WaitMonitor ==
  ASSUME TInv, ListInv, HeldInv, NEW t \in Threads, cnd_wait(t)
  PROVE  M!Wait(t)
<1>1. mtx.owner = t
  BY Zenon, ReleaseHeld DEF cnd_wait
<1>2. mtx'.owner = Nobody /\ mtx'.count = 0 /\ depth' = [depth EXCEPT ![t] = mtx.count]
  BY Zenon DEF cnd_wait, Released, TInv, MtxType
<1>3. Lists(cnd, Parked(state, at, "cnd")) /\ t \notin Parked(state, at, "cnd")
  BY Zenon DEF ListInv, WaitInv, Parked, cnd_wait, User, Runs
<1>4. Lists(Append(cnd, t), Parked(state, at, "cnd") \cup {t}) /\ cnd' = Append(cnd, t)
  BY Zenon, <1>3, AppendLists DEF cnd_wait
<1>5. Range(cnd') = Range(cnd) \cup {t}
  BY Zenon, <1>3, <1>4 DEF Lists
<1> QED BY Zenon, <1>1, <1>2, <1>5 DEF M!Wait

LEMMA NotifyMonitor ==
  ASSUME TInv, ListInv, NEW t \in Threads, cnd_signal(t) \/ cnd_broadcast(t)
  PROVE  M!Notify \/ M!NotifyAll \/ UNCHANGED M!mvars
<1> DEFINE S == Parked(state, at, "cnd")
<1>1. Lists(cnd, S)
  BY Zenon DEF ListInv, WaitInv
<1> HIDE DEF S
<1>2. mtx' = mtx /\ depth' = depth
  BY Zenon DEF cnd_signal, cnd_broadcast, Notifies, prog
<1>3. CASE cnd_broadcast(t)
  <2>1. Lists(SubSeq(cnd, Len(cnd) + 1, Len(cnd)), S \ S)
    BY Zenon, <1>1, NotifyLists
  <2>2. Range(cnd') = {}
    BY ZenonT(60), <1>3, <2>1 DEF cnd_broadcast, Notifies, Lists
  <2> QED BY Zenon, <1>2, <2>2 DEF M!NotifyAll
<1>4. CASE cnd_signal(t)
  <2>1. cnd' = Rest(cnd)
    BY Zenon, <1>1, <1>4, NotifyLists DEF cnd_signal, Notifies
  <2>2. CASE cnd = <<>>
    BY Zenon, <1>2, <2>1, <2>2, QuietMonitor DEF Rest
  <2>3. CASE cnd # <<>>
    <3>1. Head(cnd) \in S /\ Lists(Tail(cnd), S \ {Head(cnd)}) /\ cnd' = Tail(cnd)
      BY Zenon, <1>1, <2>1, <2>3, TailLists DEF Rest
    <3>2. Head(cnd) \in Range(cnd) /\ Range(cnd') = Range(cnd) \ {Head(cnd)}
      BY ZenonT(60), <1>1, <3>1 DEF Lists
    <3> QED BY Zenon, <1>2, <3>2 DEF M!Notify
  <2> QED BY Zenon, <2>2, <2>3
<1> QED BY Zenon, <1>3, <1>4

LEMMA MonitorStep ==
  ASSUME ThreadsInv, [Next]_vars
  PROVE  [M!Next]_(M!mvars)
<1> USE DEF ThreadsInv
<1>1. CASE UNCHANGED vars
  BY Zenon, <1>1, QuietMonitor DEF vars
<1>2. CASE Pump \/ MainResumes \/ Abort \/ Ended
  BY Zenon, <1>2, QuietMonitor DEF Pump, RunHead, MainResumes, Abort, Ended, vars, lists, prog
<1>3. ASSUME NEW t \in Threads, Contends(t) PROVE UNCHANGED M!mvars
  <2>1. mtx'.owner = mtx.owner /\ mtx'.count = mtx.count /\ UNCHANGED <<depth, cnd>>
    BY Zenon, <1>3 DEF Contends, TInv, MtxType, lists
  <2> QED BY Zenon, <2>1, QuietMonitor
<1>4. ASSUME NEW t \in Threads, RetryJoin(t) \/ RetryLock(t) \/ RetryOnce(t) PROVE [M!Next]_(M!mvars)
  <2>1. CASE RetryJoin(t) \/ RetryOnce(t)
    BY Zenon, <2>1, QuietMonitor DEF RetryJoin, Joins, RetryOnce, AwaitOnce, PassOnce, lists
  <2>2. CASE RetryLock(t) /\ Contends(t)
    BY Zenon, <1>3, <2>2
  <2>3. CASE RetryLock(t) /\ ~Contends(t)
    BY Zenon, <2>3, RetryMonitor DEF M!Next
  <2> QED BY Zenon, <1>4, <2>1, <2>2, <2>3
<1>5. ASSUME NEW t \in Threads, thrd_yield(t) \/ thrd_exit(t) \/ call_once(t) \/ LeaveOnce(t) PROVE UNCHANGED M!mvars
  BY Zenon, <1>5, QuietMonitor DEF thrd_yield, RunHead, thrd_exit, call_once, EnterOnce, AwaitOnce, PassOnce, LeaveOnce, lists, prog
<1>6. ASSUME NEW t \in Threads, NEW u \in Spawned, thrd_create(t, u) \/ thrd_join(t, u) \/ thrd_detach(t, u)
      PROVE  UNCHANGED M!mvars
  BY Zenon, <1>6, QuietMonitor DEF thrd_create, thrd_join, thrd_detach, Joins, lists, prog
<1>7. ASSUME NEW t \in Threads, mtx_lock(t) \/ mtx_trylock(t) PROVE [M!Next]_(M!mvars)
  <2>1. CASE Contends(t)
    BY Zenon, <1>3, <2>1
  <2>2. CASE ~Contends(t)
    BY Zenon, <1>7, <2>2, LockMonitor DEF mtx_lock, mtx_trylock, M!Next
  <2> QED BY Zenon, <2>1, <2>2
<1>8. ASSUME NEW t \in Threads, mtx_unlock(t) \/ cnd_wait(t) PROVE M!Next
  BY Zenon, <1>8, UnlockMonitor, WaitMonitor DEF M!Next
<1>9. ASSUME NEW t \in Threads, cnd_signal(t) \/ cnd_broadcast(t) PROVE [M!Next]_(M!mvars)
  BY Zenon, <1>9, NotifyMonitor DEF M!Next
<1> QED BY SMTT(20), <1>1, <1>2, <1>4, <1>5, <1>6, <1>7, <1>8, <1>9 DEF Next, Library, Program

\* However many threads there are, each parked or queued one is on one list, once: the
\* single qnext link of struct thrd is enough, and a join waits for a thread that is
\* still there (wq_push, rq_push, thrd_join).
THEOREM OneListEach == Spec => []OneList
<1>1. ThreadsInv => OneList
  BY Zenon, ListsAreOne DEF ThreadsInv
<1> QED BY <1>1, ThreadsInvariant, PTL

\* The mutex excludes, for any recursion depth, across mtx_unlock, cnd_wait and the
\* retries after a wakeup; and nobody passes call_once before its function is done.
THEOREM MutexExcludes == Spec => []HeldIsOwned
<1>1. ThreadsInv => HeldIsOwned
  BY Zenon DEF ThreadsInv, HeldInv, HeldIsOwned, Threads
<1> QED BY <1>1, ThreadsInvariant, PTL

\* mtx_unlock and cnd_wait never leave a free mutex with sleepers only, whoever takes it
\* between the wakeup and the retry.
THEOREM WakeupsArrive == Spec => []NoLostWakeup
<1>1. ThreadsInv => NoLostWakeup
  BY Zenon DEF ThreadsInv
<1> QED BY <1>1, ThreadsInvariant, PTL

\* block_current aborts the program only when no thread can run.
THEOREM OnlyDeadlocksAbort == Spec => []AbortIsDeadlock
<1>1. ThreadsInv => AbortIsDeadlock
  BY Zenon DEF ThreadsInv
<1> QED BY <1>1, ThreadsInvariant, PTL

\* The mutex and the condition variable implement the abstract monitor: one holder, a
\* wait that gives back the whole depth, and no wait that ends without a notification.
THEOREM ImplementsMonitor == Spec => MonitorSpec
<1>1. Init => M!Init
  <2>1. Range(<<>>) = {}
    BY DEF Range
  <2> QED BY <2>1 DEF Init, M!Init
<1>2. ThreadsInv /\ [Next]_vars => [M!Next]_(M!mvars)
  BY Zenon, MonitorStep
<1> QED BY <1>1, <1>2, ThreadsInvariant, PTL DEF Spec, MonitorSpec, M!Spec
=============================================================================
