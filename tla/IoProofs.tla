------------------------------ MODULE IoProofs ------------------------------
(***************************************************************************)
(* Where bytes go.  Stdio implements Stream: what a reader or writer of a  *)
(* FILE sees is a file and a position, whatever its buffer holds.  A pipe  *)
(* hands on each process's units in the order of its calls, each once,     *)
(* whatever is parked, hung up or killed on the way.                       *)
(***************************************************************************)
EXTENDS Stdio, GuestPipe, TLAPS

-----------------------------------------------------------------------------
(* Sequences.                                                              *)

LEMMA LenIs ==
  ASSUME NEW S, NEW q \in Seq(S)
  PROVE  Len(q) \in Nat /\ q \in [1 .. Len(q) -> S] /\ \A i \in 1 .. Len(q) : q[i] \in S
  OBVIOUS

LEMMA JoinIs ==
  ASSUME NEW S, NEW q \in Seq(S), NEW t \in Seq(S)
  PROVE  /\ q \o t \in Seq(S) /\ Len(q \o t) = Len(q) + Len(t)
         /\ \A i \in 1 .. Len(q) + Len(t) : (q \o t)[i] = IF i <= Len(q) THEN q[i] ELSE t[i - Len(q)]
  OBVIOUS

LEMMA SameItems ==
  ASSUME NEW S, NEW q \in Seq(S), NEW t \in Seq(S), Len(q) = Len(t), \A i \in 1 .. Len(q) : q[i] = t[i]
  PROVE  q = t
  OBVIOUS

LEMMA WholeIs ==
  ASSUME NEW S, NEW q \in Seq(S)
  PROVE  SubSeq(q, 1, Len(q)) = q
  OBVIOUS

-----------------------------------------------------------------------------
(* A FILE.                                                                 *)

\* Part of a function on numbers, as a sequence.
LEMMA PartOf ==
  ASSUME NEW f, NEW a \in Nat, NEW z \in Nat, a <= z, \A i \in a + 1 .. z : f[i] \in Bytes
  PROVE  /\ SubSeq(f, a + 1, z) \in Seq(Bytes) /\ Len(SubSeq(f, a + 1, z)) = z - a
         /\ \A i \in 1 .. z - a : SubSeq(f, a + 1, z)[i] = f[a + i]
<1> DEFINE m == a + 1
<1>1. m \in Int /\ z \in Int /\ \A i \in m .. z : f[i] \in Bytes
  OBVIOUS
<1>2. m + 0 = a + 1
  OBVIOUS
<1> HIDE DEF m
<1>3. /\ SubSeq(f, m, z) \in Seq(Bytes) /\ Len(SubSeq(f, m, z)) = IF m <= z THEN z - m + 1 ELSE 0
      /\ \A i \in 1 .. z - m + 1 : SubSeq(f, m, z)[i] = f[m + i - 1]
  BY SMTT(30), <1>1
<1>4. z - m + 1 = z - a /\ (~(m <= z) => z - a = 0) /\ \A i \in 1 .. z - a : m + i - 1 = a + i
  BY <1>1, <1>2
<1> QED BY Zenon, <1>3, <1>4 DEF m

\* The part from the start.
LEMMA FirstOf ==
  ASSUME NEW f, NEW n \in Nat, \A i \in 1 .. n : f[i] \in Bytes
  PROVE  /\ SubSeq(f, 1, n) \in Seq(Bytes) /\ Len(SubSeq(f, 1, n)) = n
         /\ \A i \in 1 .. n : SubSeq(f, 1, n)[i] = f[i]
<1>1. 0 \in Nat /\ 0 <= n /\ 0 + 1 = 1 /\ n - 0 = n /\ \A i \in 1 .. n : 0 + i = i
  OBVIOUS
<1> QED BY SMTT(30), <1>1, PartOf

\* A function on 1 .. n is a sequence.
LEMMA SeqOf ==
  ASSUME NEW n \in Nat, NEW g \in [1 .. n -> Bytes]
  PROVE  g \in Seq(Bytes) /\ Len(g) = n
<1>1. g \in Seq(Bytes)
  OBVIOUS
<1>2. Len(g) \in Nat /\ DOMAIN g = 1 .. Len(g)
  BY <1>1
<1>3. 1 .. n = 1 .. Len(g)
  BY Zenon, <1>2
<1>4. ASSUME NEW a \in Nat, NEW b \in Nat, 1 .. a = 1 .. b PROVE a = b
  BY <1>4
<1> QED BY Zenon, <1>1, <1>2, <1>3, <1>4

\* What a file holds after a write of x at p.
LEMMA PlacedIs ==
  ASSUME NEW f \in Seq(Bytes), NEW p \in 0 .. Len(f), NEW x \in Seq(Bytes)
  PROVE  /\ Placed(f, p, x) \in Seq(Bytes)
         /\ Len(Placed(f, p, x)) = IF p + Len(x) > Len(f) THEN p + Len(x) ELSE Len(f)
         /\ \A i \in 1 .. Len(Placed(f, p, x)) :
              Placed(f, p, x)[i] = IF i > p /\ i <= p + Len(x) THEN x[i - p] ELSE f[i]
<1> DEFINE n == IF p + Len(x) > Len(f) THEN p + Len(x) ELSE Len(f)
           g == Placed(f, p, x)
<1>1. n \in Nat /\ Len(f) \in Nat /\ Len(x) \in Nat
  BY LenIs
<1>2. \A i \in 1 .. Len(f) : f[i] \in Bytes
  BY Zenon, LenIs
<1>3. \A i \in 1 .. Len(x) : x[i] \in Bytes
  BY Zenon, LenIs
<1>4. g = [i \in 1 .. n |-> IF i > p /\ i <= p + Len(x) THEN x[i - p] ELSE f[i]]
  BY Zenon DEF Placed
<1>5. \A i \in 1 .. n : (IF i > p /\ i <= p + Len(x) THEN x[i - p] ELSE f[i]) \in Bytes
  BY <1>1, <1>2, <1>3
<1>6. g \in [1 .. n -> Bytes]
  BY Zenon, <1>4, <1>5
<1> HIDE DEF n, g
<1>7. g \in Seq(Bytes) /\ Len(g) = n
  BY Zenon, <1>1, <1>6, SeqOf
<1> QED BY Zenon, <1>4, <1>7 DEF n, g

\* Writing nothing.
LEMMA PlacedNone ==
  ASSUME NEW f \in Seq(Bytes), NEW p \in 0 .. Len(f)
  PROVE  Placed(f, p, <<>>) = f
<1>1. <<>> \in Seq(Bytes) /\ Len(<<>>) = 0 /\ Len(f) \in Nat
  BY LenIs
<1> DEFINE g == Placed(f, p, <<>>)
<1>a. /\ g \in Seq(Bytes) /\ Len(g) = IF p + Len(<<>>) > Len(f) THEN p + Len(<<>>) ELSE Len(f)
      /\ \A i \in 1 .. Len(g) : g[i] = IF i > p /\ i <= p + Len(<<>>) THEN <<>>[i - p] ELSE f[i]
  BY Zenon, <1>1, PlacedIs
<1> HIDE DEF g
<1>2. g \in Seq(Bytes) /\ Len(g) = Len(f) /\ \A i \in 1 .. Len(g) : g[i] = f[i]
  BY <1>1, <1>a
<1> QED BY Zenon, <1>2, SameItems DEF g

\* Writing x and then y is writing both.
LEMMA PlacedTwice ==
  ASSUME NEW f \in Seq(Bytes), NEW p \in 0 .. Len(f), NEW x \in Seq(Bytes), NEW y \in Seq(Bytes)
  PROVE  Placed(Placed(f, p, x), p + Len(x), y) = Placed(f, p, x \o y)
<1> DEFINE g == Placed(f, p, x)
           h == Placed(g, p + Len(x), y)
           k == Placed(f, p, x \o y)
<1>1. Len(f) \in Nat /\ Len(x) \in Nat /\ Len(y) \in Nat
  BY Zenon, LenIs
<1>2. /\ x \o y \in Seq(Bytes) /\ Len(x \o y) = Len(x) + Len(y)
      /\ \A i \in 1 .. Len(x) + Len(y) : (x \o y)[i] = IF i <= Len(x) THEN x[i] ELSE y[i - Len(x)]
  BY Zenon, JoinIs
<1>3. /\ g \in Seq(Bytes) /\ Len(g) = IF p + Len(x) > Len(f) THEN p + Len(x) ELSE Len(f)
      /\ \A i \in 1 .. Len(g) : g[i] = IF i > p /\ i <= p + Len(x) THEN x[i - p] ELSE f[i]
  BY Zenon, PlacedIs
<1>4. p + Len(x) \in 0 .. Len(g)
  BY <1>1, <1>3
<1> HIDE DEF g
<1>5. /\ h \in Seq(Bytes) /\ Len(h) = IF p + Len(x) + Len(y) > Len(g) THEN p + Len(x) + Len(y) ELSE Len(g)
      /\ \A i \in 1 .. Len(h) :
           h[i] = IF i > p + Len(x) /\ i <= p + Len(x) + Len(y) THEN y[i - (p + Len(x))] ELSE g[i]
  BY Zenon, <1>3, <1>4, PlacedIs
<1>6. /\ k \in Seq(Bytes) /\ Len(k) = IF p + Len(x \o y) > Len(f) THEN p + Len(x \o y) ELSE Len(f)
      /\ \A i \in 1 .. Len(k) :
           k[i] = IF i > p /\ i <= p + Len(x \o y) THEN (x \o y)[i - p] ELSE f[i]
  BY Zenon, <1>2, PlacedIs
<1> HIDE DEF h, k
<1>7. Len(h) = Len(k)
  <2> DEFINE a == Len(x)
             b == Len(y)
             l == Len(f)
             u == Len(h)
             v == Len(g)
             w == Len(k)
  <2>1. /\ v = IF p + a > l THEN p + a ELSE l
        /\ u = IF p + a + b > v THEN p + a + b ELSE v
        /\ w = IF p + (a + b) > l THEN p + (a + b) ELSE l
    BY Zenon, <1>2, <1>3, <1>5, <1>6
  <2>2. a \in Nat /\ b \in Nat /\ l \in Nat /\ p \in Nat
    BY <1>1
  <2> HIDE DEF a, b, l, u, v, w
  <2>3. u = w
    BY <2>1, <2>2
  <2> QED BY Zenon, <2>3 DEF u, w
<1>8. ASSUME NEW i \in 1 .. Len(h) PROVE h[i] = k[i]
  <2>a. k[i] = IF i > p /\ i <= p + Len(x \o y) THEN (x \o y)[i - p] ELSE f[i]
    BY Zenon, <1>6, <1>7
  <2>b. i \in Nat /\ p \in Nat
    BY <1>1, <1>5
  <2>1. CASE i > p + Len(x) /\ i <= p + Len(x) + Len(y)
    <3>1. h[i] = y[i - (p + Len(x))]
      BY Zenon, <1>5, <2>1
    <3>2. k[i] = (x \o y)[i - p]
      <4>1. i > p /\ i <= p + Len(x \o y)
        BY <1>1, <1>2, <2>1, <2>b
      <4> QED BY Zenon, <2>a, <4>1
    <3>3. i - p \in 1 .. Len(x) + Len(y) /\ ~(i - p <= Len(x)) /\ i - p - Len(x) = i - (p + Len(x))
      BY <1>1, <2>1
    <3> QED BY Zenon, <1>2, <3>1, <3>2, <3>3
  <2>2. CASE ~(i > p + Len(x) /\ i <= p + Len(x) + Len(y))
    <3>1. h[i] = g[i]
      BY Zenon, <1>5, <2>2
    <3>2. i \in 1 .. Len(g)
      BY <1>1, <1>3, <1>5, <2>2
    <3>3. CASE i > p /\ i <= p + Len(x)
      <4>0. i > p /\ i <= p + Len(x \o y) /\ i - p \in 1 .. Len(x) + Len(y) /\ i - p <= Len(x)
        BY <1>1, <1>2, <2>b, <3>3
      <4>1. k[i] = (x \o y)[i - p]
        BY Zenon, <2>a, <4>0
      <4> QED BY Zenon, <1>2, <1>3, <3>1, <3>2, <3>3, <4>0, <4>1
    <3>4. CASE ~(i > p /\ i <= p + Len(x))
      <4>0. ~(i > p /\ i <= p + Len(x \o y))
        BY <1>1, <1>2, <2>2, <2>b, <3>4
      <4>1. k[i] = f[i]
        BY Zenon, <2>a, <4>0
      <4> QED BY Zenon, <1>3, <3>1, <3>2, <3>4, <4>1
    <3> QED BY Zenon, <3>3, <3>4
  <2> QED BY Zenon, <2>1, <2>2
<1> QED BY Zenon, <1>5, <1>6, <1>7, <1>8, SameItems DEF g, h, k

Pending == SubSeq(buf, 1, pos)

\* Up to the first write error: the bytes pending fit the buffer with room to spare, and
\* what was read ahead is what the file has before the offset.
StdioInv ==
  /\ kind \in {"r", "w", "mem"} /\ err \in BOOLEAN
  /\ ~err => /\ file \in Seq(Bytes) /\ buf \in [1 .. BUFSIZ -> Bytes] /\ off \in 0 .. Len(file)
             /\ pos \in Nat /\ len \in Nat
             /\ kind # "r" => pos < BUFSIZ
             /\ kind = "r" => /\ pos <= len /\ len <= BUFSIZ /\ len <= off
                             /\ \A k \in 1 .. len : buf[k] = file[off - len + k]

\* The bytes that wait in the buffer.
LEMMA PendingIs ==
  ASSUME StdioInv, ~err, kind # "r"
  PROVE  /\ Pending \in Seq(Bytes) /\ Len(Pending) = pos /\ \A i \in 1 .. pos : Pending[i] = buf[i]
         /\ file \in Seq(Bytes) /\ off \in 0 .. Len(file) /\ pos \in Nat /\ pos < BUFSIZ /\ len \in Nat
         /\ buf \in [1 .. BUFSIZ -> Bytes]
<1>1. /\ file \in Seq(Bytes) /\ off \in 0 .. Len(file) /\ pos \in Nat /\ pos < BUFSIZ /\ len \in Nat
      /\ buf \in [1 .. BUFSIZ -> Bytes]
  BY Zenon DEF StdioInv
<1>2. \A i \in 1 .. pos : buf[i] \in Bytes
  BY <1>1, StdioAssumption
<1> QED BY Zenon, <1>1, <1>2, FirstOf DEF Pending

\* A buffer b that has the pending bytes and blk behind them.
LEMMA Filled ==
  ASSUME StdioInv, ~err, kind # "r", NEW blk \in Seq(Bytes), NEW b \in [1 .. BUFSIZ -> Bytes],
         pos + Len(blk) <= BUFSIZ,
         \A i \in 1 .. pos + Len(blk) : b[i] = IF i <= pos THEN buf[i] ELSE blk[i - pos]
  PROVE  SubSeq(b, 1, pos + Len(blk)) = Pending \o blk
<1> DEFINE x == SubSeq(b, 1, pos + Len(blk))
           y == Pending \o blk
<1>1. Pending \in Seq(Bytes) /\ Len(Pending) = pos /\ pos \in Nat /\ \A i \in 1 .. pos : Pending[i] = buf[i]
  BY Zenon, PendingIs
<1>2. Len(blk) \in Nat
  BY Zenon, LenIs
<1>3. pos + Len(blk) \in Nat /\ \A i \in 1 .. pos + Len(blk) : b[i] \in Bytes
  BY <1>1, <1>2, StdioAssumption
<1>4. x \in Seq(Bytes) /\ Len(x) = pos + Len(blk) /\ \A i \in 1 .. pos + Len(blk) : x[i] = b[i]
  BY Zenon, <1>3, FirstOf
<1>5. /\ y \in Seq(Bytes) /\ Len(y) = Len(Pending) + Len(blk)
      /\ \A i \in 1 .. Len(Pending) + Len(blk) :
           y[i] = IF i <= Len(Pending) THEN Pending[i] ELSE blk[i - Len(Pending)]
  BY ZenonT(30), <1>1, JoinIs
<1> HIDE DEF x, y
<1>6. ASSUME NEW i \in 1 .. Len(x) PROVE x[i] = y[i]
  <2>1. i \in 1 .. pos + Len(blk)
    BY Zenon, <1>4
  <2>2. i <= pos => i \in 1 .. pos
    BY <1>1, <1>2, <2>1
  <2> QED BY Zenon, <1>1, <1>4, <1>5, <2>1, <2>2
<1>7. Len(x) = Len(y)
  BY Zenon, <1>1, <1>4, <1>5
<1> QED BY Zenon, <1>4, <1>5, <1>6, <1>7, SameItems DEF x, y

\* A file with nothing pending shows as it is.
LEMMA ShownIs ==
  ASSUME NEW g \in Seq(Bytes), NEW q \in 0 .. Len(g), NEW b
  PROVE  Placed(g, q, SubSeq(b, 1, 0)) = g
<1>1. SubSeq(b, 1, 0) = <<>>
  OBVIOUS
<1>2. Placed(g, q, <<>>) = g
  BY Zenon, PlacedNone
<1> QED BY Zenon, <1>1, <1>2

\* fflush wrote the p bytes of the buffer, or part of them and failed.
LEMMA DrainIs ==
  ASSUME ~err, NEW b \in [1 .. BUFSIZ -> Bytes], NEW p \in 1 .. BUFSIZ, Drain(b, p)
  PROVE  \/ err' = TRUE
         \/ /\ file' = Placed(file, off, SubSeq(b, 1, p)) /\ off' = off + Len(SubSeq(b, 1, p))
            /\ pos' = 0 /\ buf' = b /\ err' = err
<1> DEFINE x == SubSeq(b, 1, p)
<1>1. p \in Nat /\ \A i \in 1 .. p : b[i] \in Bytes
  BY StdioAssumption
<1>2. x \in Seq(Bytes) /\ Len(x) = p
  BY Zenon, <1>1, FirstOf
<1>3. PICK n \in 0 .. p :
        /\ HostWrite(x, n) /\ buf' = b
        /\ IF n = p THEN pos' = 0 /\ UNCHANGED err ELSE pos' = p /\ err' = TRUE
  BY Zenon DEF Drain
<1>4. CASE n = p
  <2>1. SubSeq(x, 1, p) = x
    BY Zenon, <1>2, WholeIs
  <2>2. file' = Placed(file, off, SubSeq(x, 1, n)) /\ off' = off + n
    BY Zenon, <1>3 DEF HostWrite
  <2> QED BY Zenon, <1>2, <1>3, <1>4, <2>1, <2>2
<1>5. CASE n # p
  BY Zenon, <1>3, <1>5
<1> QED BY Zenon, <1>4, <1>5

-----------------------------------------------------------------------------
(* Steps of the abstract stream.                                           *)

\* The two modules place a block alike.
LEMMA SamePlaced == \A f, p, x : Abstract!Placed(f, p, x) = Placed(f, p, x)
BY Zenon DEF Placed, Abstract!Placed

\* The whole of y goes behind the position.
LEMMA PutStep ==
  ASSUME StdioInv, ~err, kind # "r", kind' = kind, result' = result, err' = err,
         NEW blk \in Seq(Bytes), Len(blk) \in 1 .. MaxLen,
         off' + pos' = off + pos + Len(blk),
         Placed(file', off', SubSeq(buf', 1, pos')) = Placed(file, off, Pending \o blk)
  PROVE  Abstract!Next
<1>1. Writable /\ Writable'
  BY Zenon DEF StdioInv, Writable
<1>2. /\ Pending \in Seq(Bytes) /\ Len(Pending) = pos
      /\ file \in Seq(Bytes) /\ off \in 0 .. Len(file)
  BY Zenon, PendingIs
<1>3. Placed(Placed(file, off, Pending), off + pos, blk) = Placed(file, off, Pending \o blk)
  BY Zenon, <1>2, PlacedTwice
<1>4. Ftell = off + pos /\ Ftell' = off' + pos'
  BY Zenon, <1>1 DEF Ftell
<1>5. Abstract!Put(blk)
  BY Zenon, <1>1, <1>3, <1>4, SamePlaced DEF Abstract!Put, Pending
<1>6. blk \in [1 .. Len(blk) -> Bytes]
  BY Zenon, LenIs
<1> QED BY Zenon, <1>5, <1>6 DEF Abstract!Next

\* Nothing that can be seen changes.
LEMMA QuietStep ==
  ASSUME StdioInv, ~err, kind # "r", kind' = kind, result' = result, err' = err,
         off' + pos' = off + pos,
         Placed(file', off', SubSeq(buf', 1, pos')) = Placed(file, off, Pending)
  PROVE  UNCHANGED Abstract!svars
<1>1. Writable /\ Writable'
  BY Zenon DEF StdioInv, Writable
<1>2. Ftell = off + pos /\ Ftell' = off' + pos'
  BY Zenon, <1>1 DEF Ftell
<1> QED BY Zenon, <1>1, <1>2 DEF Abstract!svars, Pending

\* The first write error ends what is promised.
LEMMA FailStep ==
  ASSUME StdioInv, kind' = kind, err' = TRUE
  PROVE  StdioInv' /\ Abstract!Next
BY Zenon DEF StdioInv, Abstract!Next, Abstract!Fail

\* All of y went to the file, and nothing is pending.
LEMMA WrittenOut ==
  ASSUME StdioInv, ~err, kind # "r", kind' = kind, err' = err, NEW y \in Seq(Bytes),
         file' = Placed(file, off, y), off' = off + Len(y), pos' = 0, len' \in Nat,
         buf' \in [1 .. BUFSIZ -> Bytes]
  PROVE  StdioInv' /\ Placed(file', off', SubSeq(buf', 1, pos')) = Placed(file, off, y)
<1>1. file \in Seq(Bytes) /\ off \in 0 .. Len(file)
  BY Zenon, PendingIs
<1>2. Len(file) \in Nat /\ Len(y) \in Nat
  BY Zenon, <1>1, LenIs
<1>3. /\ file' \in Seq(Bytes)
      /\ Len(file') = IF off + Len(y) > Len(file) THEN off + Len(y) ELSE Len(file)
  BY Zenon, <1>1, PlacedIs
<1>4. off' \in 0 .. Len(file')
  BY <1>1, <1>2, <1>3
<1>5. Placed(file', off', SubSeq(buf', 1, 0)) = file'
  BY ZenonT(30), <1>3, <1>4, ShownIs
<1>6. 0 < BUFSIZ /\ 0 \in Nat
  BY StdioAssumption
<1>7. kind' \in {"r", "w", "mem"} /\ kind' # "r" /\ err \in BOOLEAN
  BY Zenon DEF StdioInv
<1> QED BY Zenon, <1>3, <1>4, <1>5, <1>6, <1>7 DEF StdioInv

\* A block is stored behind the pending bytes, and kept or written out.
LEMMA Stored ==
  ASSUME StdioInv, ~err, kind # "r", kind' = kind, result' = result, len' = len,
         NEW blk \in Seq(Bytes), Len(blk) \in 1 .. MaxLen, NEW b \in [1 .. BUFSIZ -> Bytes],
         pos + Len(blk) <= BUFSIZ,
         \A i \in 1 .. pos + Len(blk) : b[i] = IF i <= pos THEN buf[i] ELSE blk[i - pos],
         \/ Drain(b, pos + Len(blk))
         \/ pos + Len(blk) # BUFSIZ /\ Keep(b, pos + Len(blk))
  PROVE  StdioInv' /\ Abstract!Next
<1> DEFINE p == pos + Len(blk)
           y == Pending \o blk
<1>1. /\ Pending \in Seq(Bytes) /\ Len(Pending) = pos /\ pos \in Nat /\ len \in Nat
      /\ file \in Seq(Bytes) /\ off \in 0 .. Len(file)
  BY Zenon, PendingIs
<1>2. SubSeq(b, 1, p) = y
  BY Zenon, Filled
<1>3. Len(blk) \in Nat /\ Len(blk) > 0
  BY StdioAssumption
<1>4. p \in 1 .. BUFSIZ /\ BUFSIZ \in Nat /\ 0 < BUFSIZ
  BY <1>1, <1>3, StdioAssumption
<1>5. y \in Seq(Bytes) /\ Len(y) = p
  BY Zenon, <1>1, JoinIs
<1>6. kind' \in {"r", "w", "mem"} /\ kind' # "r" /\ err \in BOOLEAN
  BY Zenon DEF StdioInv
<1>7. off \in Nat /\ 0 \in Nat
  BY <1>1, LenIs
<1> HIDE DEF y, p
<1>8. CASE Keep(b, p) /\ p # BUFSIZ
  <2>1. buf' = b /\ pos' = p /\ err' = err /\ file' = file /\ off' = off
    BY Zenon, <1>8 DEF Keep
  <2>2. off' + pos' = off + pos + Len(blk)
    BY <1>1, <1>3, <1>7, <2>1 DEF p
  <2>3. Abstract!Next
    BY Zenon, <1>2, <2>1, <2>2, PutStep DEF y
  <2>4. p \in Nat /\ p < BUFSIZ
    BY <1>4, <1>8
  <2>5. StdioInv'
    BY Zenon, <1>1, <1>6, <2>1, <2>4 DEF StdioInv
  <2> QED BY Zenon, <2>3, <2>5
<1>9. CASE Drain(b, p)
  <2>1. CASE err' = TRUE
    BY Zenon, <2>1, FailStep
  <2>2. CASE /\ file' = Placed(file, off, y) /\ off' = off + Len(y)
             /\ pos' = 0 /\ buf' = b /\ err' = err
    <3>1. StdioInv' /\ Placed(file', off', SubSeq(buf', 1, pos')) = Placed(file, off, y)
      BY Zenon, <1>1, <1>5, <2>2, WrittenOut
    <3>2. off' + pos' = off + pos + Len(blk)
      BY <1>1, <1>3, <1>5, <1>7, <2>2 DEF p
    <3>3. Abstract!Next
      BY Zenon, <2>2, <3>1, <3>2, PutStep DEF y
    <3> QED BY Zenon, <3>1, <3>3
  <2> QED BY Zenon, <1>2, <1>4, <1>9, <2>1, <2>2, DrainIs
<1> QED BY Zenon, <1>8, <1>9 DEF p

\* fflush.
LEMMA FlushSteps ==
  ASSUME StdioInv, Fflush
  PROVE  StdioInv' /\ (Abstract!Next \/ UNCHANGED Abstract!svars)
<1>1. ~err /\ kind' = kind /\ len' = len /\ result' = result /\ mode' = mode /\ put' = put
  BY Zenon DEF Fflush
<1>2. CASE Writable /\ pos > 0
  <2>1. Drain(buf, pos) /\ kind # "r"
    BY Zenon, <1>2 DEF Fflush, Flush, Writable
  <2>2. /\ Pending \in Seq(Bytes) /\ Len(Pending) = pos /\ pos \in Nat /\ len \in Nat /\ pos < BUFSIZ
        /\ file \in Seq(Bytes) /\ off \in 0 .. Len(file) /\ buf \in [1 .. BUFSIZ -> Bytes]
    BY Zenon, <1>1, <2>1, PendingIs
  <2>3. pos \in 1 .. BUFSIZ /\ off \in Nat
    BY <1>2, <2>2, StdioAssumption
  <2>4. CASE err' = TRUE
    BY Zenon, <1>1, <2>4, FailStep
  <2>5. CASE /\ file' = Placed(file, off, Pending) /\ off' = off + Len(Pending)
             /\ pos' = 0 /\ buf' = buf /\ err' = err
    <3>1. StdioInv' /\ Placed(file', off', SubSeq(buf', 1, pos')) = Placed(file, off, Pending)
      BY Zenon, <1>1, <2>1, <2>2, <2>5, WrittenOut
    <3>2. off' + pos' = off + pos
      BY <2>2, <2>3, <2>5
    <3> QED BY Zenon, <1>1, <2>1, <2>5, <3>1, <3>2, QuietStep
  <2> QED BY Zenon, <1>1, <2>1, <2>2, <2>3, <2>4, <2>5, DrainIs DEF Pending
<1>3. CASE ~(Writable /\ pos > 0)
  <2>1. UNCHANGED <<kind, buf, pos, err, file, off, len, result>>
    BY Zenon, <1>1, <1>3 DEF Fflush, Flush
  <2>2. StdioInv'
    BY Zenon, <2>1 DEF StdioInv
  <2>3. Ftell' = Ftell /\ Writable' = Writable
    BY Zenon, <2>1 DEF Ftell, Writable
  <2> QED BY Zenon, <2>1, <2>2, <2>3 DEF Abstract!svars
<1> QED BY Zenon, <1>2, <1>3

\* fputc.
LEMMA PutcSteps ==
  ASSUME StdioInv, NEW c \in Bytes, Fits, Fputc(c)
  PROVE  StdioInv' /\ Abstract!Next
<1> DEFINE b == [buf EXCEPT ![pos + 1] = c]
           blk == <<c>>
<1>1. /\ ~err /\ kind' = kind /\ len' = len /\ result' = result
      /\ kind # "r"
  BY Zenon DEF Fputc, Writable
<1>2. /\ pos \in Nat /\ pos < BUFSIZ /\ buf \in [1 .. BUFSIZ -> Bytes] /\ file \in Seq(Bytes)
  BY Zenon, <1>1, PendingIs
<1>3. blk \in Seq(Bytes) /\ Len(blk) = 1 /\ blk[1] = c
  OBVIOUS
<1>4. b \in [1 .. BUFSIZ -> Bytes] /\ pos + 1 <= BUFSIZ
  BY <1>2, StdioAssumption
<1>5. \A i \in 1 .. pos + 1 : b[i] = IF i <= pos THEN buf[i] ELSE blk[i - pos]
  BY <1>2, <1>3, StdioAssumption
<1>6. \/ Drain(b, pos + 1)
      \/ pos + 1 # BUFSIZ /\ Keep(b, pos + 1)
  BY Zenon DEF Fputc, FlushPoint
<1>7. Len(file) \in Nat
  BY Zenon, <1>2, LenIs
<1>8. 1 \in 1 .. MaxLen
  BY <1>2, <1>7, StdioAssumption DEF Fits
<1> HIDE DEF b, blk
<1> QED BY Zenon, <1>1, <1>3, <1>4, <1>5, <1>6, <1>8, Stored

\* What writev has moved and what write_all then moves are the pending bytes and the block.
LEMMA RestIs ==
  ASSUME StdioInv, ~err, kind # "r", NEW blk \in Seq(Bytes), NEW w \in 0 .. Len(Pending \o blk)
  PROVE  /\ SubSeq(Pending \o blk, 1, w) \o Rest(w, blk) = Pending \o blk
         /\ w + Len(Rest(w, blk)) = Len(Pending \o blk)
<1> DEFINE all == Pending \o blk
           r == Rest(w, blk)
           s == SubSeq(all, 1, w)
           m == Len(blk)
<1>1. /\ Pending \in Seq(Bytes) /\ Len(Pending) = pos /\ pos \in Nat /\ pos < BUFSIZ
      /\ \A i \in 1 .. pos : Pending[i] = buf[i]
  BY Zenon, PendingIs
<1>2. m \in Nat /\ (\A i \in 1 .. m : blk[i] \in Bytes) /\ \A i \in 1 .. pos : Pending[i] \in Bytes
  BY Zenon, <1>1, LenIs
<1>3. /\ all \in Seq(Bytes) /\ Len(all) = Len(Pending) + Len(blk)
      /\ \A i \in 1 .. Len(Pending) + Len(blk) :
           all[i] = IF i <= Len(Pending) THEN Pending[i] ELSE blk[i - Len(Pending)]
  BY Zenon, <1>1, JoinIs
<1>4. /\ all \in Seq(Bytes) /\ Len(all) = pos + m /\ w \in 0 .. pos + m
      /\ \A i \in 1 .. pos : all[i] = Pending[i]
      /\ \A i \in 1 .. m : all[pos + i] = blk[i]
  <2> HIDE DEF all
  <2> QED BY SMTT(20), <1>1, <1>2, <1>3 DEF all
<1> HIDE DEF all, m, r
<1>5. /\ r \in Seq(Bytes) /\ Len(r) = pos + m - w
      /\ \A i \in 1 .. pos + m - w : r[i] = all[w + i]
  <2>1. CASE w < pos
    <3> DEFINE q == SubSeq(buf, w + 1, pos)
    <3>1. r = q \o blk
      BY Zenon, <2>1 DEF r, Rest
    <3>2. w <= pos /\ w \in Nat /\ \A i \in w + 1 .. pos : buf[i] \in Bytes /\ buf[i] = all[i]
      BY <1>1, <1>2, <1>4, <2>1
    <3>3. q \in Seq(Bytes) /\ Len(q) = pos - w /\ \A i \in 1 .. pos - w : q[i] = buf[w + i]
      BY SMTT(30), <1>1, <3>2, PartOf
    <3> HIDE DEF q
    <3>4. Len(q) = pos - w /\ \A i \in 1 .. pos - w : q[i] = all[w + i]
      BY <1>1, <2>1, <3>2, <3>3
    <3>5. /\ q \o blk \in Seq(Bytes) /\ Len(q \o blk) = Len(q) + Len(blk)
          /\ \A i \in 1 .. Len(q) + Len(blk) : (q \o blk)[i] = IF i <= Len(q) THEN q[i] ELSE blk[i - Len(q)]
      BY Zenon, <3>3, JoinIs
    <3>6. Len(r) = pos + m - w
      BY <1>1, <1>2, <3>1, <3>2, <3>4, <3>5 DEF m
    <3>7. ASSUME NEW i \in 1 .. pos + m - w PROVE r[i] = all[w + i]
      <4>1. r[i] = IF i <= Len(q) THEN q[i] ELSE blk[i - Len(q)]
        <5>1. pos + m - w = Len(q) + Len(blk)
          BY <1>1, <1>2, <3>2, <3>4 DEF m
        <5> QED BY Zenon, <3>1, <3>5, <5>1
      <4>2. CASE i <= pos - w
        <5>1. i \in 1 .. pos - w
          BY <1>1, <1>2, <3>2, <4>2
        <5> QED BY Zenon, <3>4, <4>1, <4>2, <5>1
      <4>3. CASE ~(i <= pos - w)
        <5>1. i - (pos - w) \in 1 .. m /\ pos + (i - (pos - w)) = w + i
          BY <1>1, <1>2, <3>2, <4>3
        <5> QED BY Zenon, <1>4, <3>4, <4>1, <4>3, <5>1
      <4> QED BY Zenon, <4>2, <4>3
    <3> QED BY Zenon, <3>1, <3>5, <3>6, <3>7
  <2>2. CASE ~(w < pos)
    <3>1. r = SubSeq(blk, w - pos + 1, m)
      BY Zenon, <2>2 DEF r, Rest, m
    <3>2. /\ w - pos \in Nat /\ w - pos <= m /\ w \in Nat
          /\ \A i \in w - pos + 1 .. m : blk[i] \in Bytes /\ blk[i] = all[pos + i]
      BY <1>1, <1>2, <1>4, <2>2
    <3>3. r \in Seq(Bytes) /\ Len(r) = m - (w - pos) /\ \A i \in 1 .. m - (w - pos) : r[i] = blk[w - pos + i]
      <4> DEFINE a == w - pos
      <4>1. r = SubSeq(blk, a + 1, m) /\ a \in Nat /\ m \in Nat /\ a <= m /\ \A i \in a + 1 .. m : blk[i] \in Bytes
        BY Zenon, <1>2, <3>1, <3>2
      <4> HIDE DEF a
      <4>2. /\ SubSeq(blk, a + 1, m) \in Seq(Bytes) /\ Len(SubSeq(blk, a + 1, m)) = m - a
            /\ \A i \in 1 .. m - a : SubSeq(blk, a + 1, m)[i] = blk[a + i]
        BY Zenon, <4>1, PartOf
      <4> QED BY Zenon, <4>1, <4>2 DEF a
    <3>4. Len(r) = pos + m - w
      BY <1>1, <1>2, <1>4, <2>2, <3>3
    <3>5. ASSUME NEW i \in 1 .. pos + m - w PROVE r[i] = all[w + i]
      <4>1. /\ i \in 1 .. m - (w - pos) /\ w - pos + i \in w - pos + 1 .. m
            /\ pos + (w - pos + i) = w + i
        BY <1>1, <1>2, <1>4, <2>2
      <4> QED BY Zenon, <3>2, <3>3, <4>1
    <3> QED BY Zenon, <3>3, <3>4, <3>5
  <2> QED BY Zenon, <2>1, <2>2
<1>6. s \in Seq(Bytes) /\ Len(s) = w /\ w \in Nat /\ \A i \in 1 .. w : s[i] = all[i]
  <2>1. w \in Nat /\ \A i \in 1 .. w : i \in 1 .. Len(all)
    BY <1>1, <1>2, <1>4
  <2>2. \A i \in 1 .. w : all[i] \in Bytes
    BY Zenon, <1>4, <2>1, LenIs
  <2> QED BY Zenon, <2>1, <2>2, FirstOf
<1> HIDE DEF s
<1>7. /\ s \o r \in Seq(Bytes) /\ Len(s \o r) = Len(s) + Len(r)
      /\ \A i \in 1 .. Len(s) + Len(r) : (s \o r)[i] = IF i <= Len(s) THEN s[i] ELSE r[i - Len(s)]
  BY ZenonT(30), <1>5, <1>6, JoinIs
<1>8. Len(s \o r) = pos + m /\ Len(s) + Len(r) = pos + m
  BY <1>1, <1>2, <1>5, <1>6, <1>7
<1>9. ASSUME NEW i \in 1 .. Len(s \o r) PROVE (s \o r)[i] = all[i]
  <2>1. (s \o r)[i] = IF i <= w THEN s[i] ELSE r[i - w]
    BY Zenon, <1>6, <1>7, <1>8
  <2>2. /\ i <= w => i \in 1 .. w
        /\ ~(i <= w) => i - w \in 1 .. pos + m - w /\ w + (i - w) = i
    BY <1>1, <1>2, <1>6, <1>8
  <2> QED BY Zenon, <1>5, <1>6, <2>1, <2>2
<1>10. s \o r = all
  BY Zenon, <1>4, <1>7, <1>8, <1>9, SameItems
<1>11. w + Len(r) = Len(all)
  BY <1>1, <1>2, <1>4, <1>5
<1> QED BY Zenon, <1>10, <1>11 DEF s, r, all

\* fwrite, through the buffer or past it with writev.
LEMMA WriteSteps ==
  ASSUME StdioInv, NEW n \in 2 .. BUFSIZ + 1, NEW blk \in [1 .. n -> Bytes],
         Len(file) + pos + n <= MaxLen, Fwrite(blk)
  PROVE  StdioInv' /\ Abstract!Next
<1>1. ~err /\ kind' = kind /\ len' = len /\ result' = result /\ kind # "r"
  BY Zenon DEF Fwrite, Writable
<1>2. /\ Pending \in Seq(Bytes) /\ Len(Pending) = pos /\ pos \in Nat /\ pos < BUFSIZ /\ len \in Nat
      /\ buf \in [1 .. BUFSIZ -> Bytes] /\ file \in Seq(Bytes) /\ off \in 0 .. Len(file)
  BY Zenon, <1>1, PendingIs
<1>3. n \in Nat /\ BUFSIZ \in Nat
  BY StdioAssumption
<1>4. blk \in Seq(Bytes) /\ Len(blk) = n
  BY Zenon, <1>3, SeqOf
<1>5. Len(file) \in Nat
  BY Zenon, <1>2, LenIs
<1>6. Len(blk) \in 1 .. MaxLen
  BY <1>2, <1>4, <1>5, StdioAssumption
<1>7. CASE Len(blk) > BUFSIZ - pos
  <2> DEFINE all == Pending \o blk
  <2>1. FlushWithBlock(blk)
    BY Zenon, <1>7 DEF Fwrite
  <2>a. PICK w \in 0 .. Len(all) : \E k \in 0 .. Len(Rest(w, blk)) :
          /\ HostWrite(SubSeq(all, 1, w) \o Rest(w, blk), w + k)
          /\ IF k = Len(Rest(w, blk)) THEN pos' = 0 /\ UNCHANGED err ELSE err' = TRUE /\ UNCHANGED pos
          /\ UNCHANGED buf
    BY Zenon, <2>1 DEF FlushWithBlock, Pending
  <2>2. PICK k \in 0 .. Len(Rest(w, blk)) :
          /\ HostWrite(SubSeq(all, 1, w) \o Rest(w, blk), w + k)
          /\ IF k = Len(Rest(w, blk)) THEN pos' = 0 /\ UNCHANGED err ELSE err' = TRUE /\ UNCHANGED pos
          /\ UNCHANGED buf
    BY Zenon, <2>a
  <2>3. CASE k = Len(Rest(w, blk))
    <3>1. SubSeq(all, 1, w) \o Rest(w, blk) = all /\ w + Len(Rest(w, blk)) = Len(all)
      BY Zenon, <1>1, <1>4, RestIs
    <3>2. all \in Seq(Bytes) /\ Len(all) = pos + Len(blk)
      BY Zenon, <1>2, <1>4, JoinIs
    <3>3. SubSeq(all, 1, Len(all)) = all
      BY Zenon, <3>2, WholeIs
    <3>4. HostWrite(all, Len(all)) /\ pos' = 0 /\ err' = err /\ buf' = buf
      BY Zenon, <2>2, <2>3, <3>1
    <3> HIDE DEF all
    <3>5. file' = Placed(file, off, all) /\ off' = off + Len(all)
      BY Zenon, <3>3, <3>4 DEF HostWrite
    <3>6. StdioInv' /\ Placed(file', off', SubSeq(buf', 1, pos')) = Placed(file, off, all)
      BY Zenon, <1>1, <1>2, <3>2, <3>4, <3>5, WrittenOut
    <3>7. off' + pos' = off + pos + Len(blk)
      BY <1>2, <1>4, <1>3, <1>5, <3>2, <3>4, <3>5
    <3> QED BY Zenon, <1>1, <1>4, <1>6, <3>4, <3>6, <3>7, PutStep DEF all
  <2>4. CASE k # Len(Rest(w, blk))
    BY Zenon, <1>1, <2>2, <2>4, FailStep
  <2> QED BY Zenon, <2>3, <2>4
<1>8. CASE ~(Len(blk) > BUFSIZ - pos)
  <2> DEFINE b == [i \in 1 .. BUFSIZ |-> IF i > pos /\ i <= pos + Len(blk) THEN blk[i - pos] ELSE buf[i]]
  <2>1. pos + Len(blk) <= BUFSIZ
    BY <1>2, <1>3, <1>4, <1>8
  <2>2. \A i \in 1 .. BUFSIZ : i > pos /\ i <= pos + Len(blk) => blk[i - pos] \in Bytes
    BY <1>2, <1>3, <1>4
  <2>3. b \in [1 .. BUFSIZ -> Bytes]
    BY Zenon, <1>2, <2>2
  <2>4. \A i \in 1 .. pos + Len(blk) : b[i] = IF i <= pos THEN buf[i] ELSE blk[i - pos]
    BY <1>2, <1>3, <1>4, <2>1
  <2>5. \/ Drain(b, pos + Len(blk))
        \/ pos + Len(blk) # BUFSIZ /\ Keep(b, pos + Len(blk))
    BY Zenon, <1>8 DEF Fwrite
  <2> HIDE DEF b
  <2> QED BY Zenon, <1>1, <1>4, <1>6, <2>1, <2>3, <2>4, <2>5, Stored
<1> QED BY Zenon, <1>7, <1>8

\* fgetc, from the buffer or after a refill.
LEMMA GetcSteps ==
  ASSUME StdioInv, Fgetc
  PROVE  StdioInv' /\ Abstract!Next
<1>1. ~err /\ kind' = kind /\ err' = err /\ file' = file /\ kind = "r"
  BY Zenon DEF Fgetc, Readable, StdioInv
<1>2. /\ file \in Seq(Bytes) /\ buf \in [1 .. BUFSIZ -> Bytes] /\ off \in 0 .. Len(file)
      /\ pos \in Nat /\ len \in Nat /\ pos <= len /\ len <= BUFSIZ /\ len <= off
      /\ \A k \in 1 .. len : buf[k] = file[off - len + k]
  BY Zenon, <1>1 DEF StdioInv
<1>3. Len(file) \in Nat /\ BUFSIZ \in Nat \ {0} /\ off \in Nat /\ off <= Len(file)
  BY <1>2, StdioAssumption, LenIs
<1>4. ~Writable /\ ~Writable'
  BY Zenon, <1>1 DEF Writable
<1>5. Ftell = off - (len - pos) /\ Ftell' = off' - (len' - pos')
  BY Zenon, <1>4 DEF Ftell
<1>6. ASSUME len' \in Nat, pos' \in Nat, off' \in 0 .. Len(file), buf' \in [1 .. BUFSIZ -> Bytes],
             pos' <= len', len' <= BUFSIZ, len' <= off',
             \A k \in 1 .. len' : buf'[k] = file[off' - len' + k]
      PROVE  StdioInv'
  BY Zenon, <1>1, <1>2, <1>6 DEF StdioInv
<1>7. ASSUME Ftell < Len(file), result' = file[Ftell + 1], Ftell' = Ftell + 1 PROVE Abstract!Next
  <2>1. Abstract!Get
    BY Zenon, <1>1, <1>4, <1>7 DEF Abstract!Get
  <2> QED BY Zenon, <2>1 DEF Abstract!Next
<1>8. CASE pos < len /\ result' = buf[pos + 1] /\ pos' = pos + 1 /\ UNCHANGED <<buf, len, off>>
  <2>1. StdioInv'
    <3>1. pos' \in Nat /\ pos' <= len'
      BY <1>2, <1>8
    <3> QED BY Zenon, <1>2, <1>6, <1>8, <3>1
  <2>2. Ftell < Len(file) /\ Ftell' = Ftell + 1 /\ Ftell + 1 = off - len + (pos + 1) /\ pos + 1 \in 1 .. len
    BY <1>2, <1>3, <1>5, <1>8
  <2>3. result' = file[Ftell + 1]
    <3>1. buf[pos + 1] = file[off - len + (pos + 1)]
      BY Zenon, <1>2, <2>2
    <3> QED BY Zenon, <1>8, <2>2, <3>1
  <2> QED BY Zenon, <1>7, <2>1, <2>2, <2>3
<1>9. CASE /\ pos >= len /\ off < Len(file) /\ result' = file[off + 1] /\ pos' = 1
           /\ \E n \in 1 .. Min({BUFSIZ, Len(file) - off}) :
                /\ buf' = [i \in 1 .. BUFSIZ |-> IF i <= n THEN file[off + i] ELSE buf[i]]
                /\ len' = n /\ off' = off + n
  <2> DEFINE M == Min({BUFSIZ, Len(file) - off})
  <2>1. M \in Nat /\ M <= BUFSIZ /\ M <= Len(file) - off
    BY SMTT(20), <1>3, <1>9 DEF Min
  <2> HIDE DEF M
  <2>2. PICK n \in 1 .. M : /\ buf' = [i \in 1 .. BUFSIZ |-> IF i <= n THEN file[off + i] ELSE buf[i]]
                            /\ len' = n /\ off' = off + n
    BY Zenon, <1>9 DEF M
  <2>3. n \in Nat /\ 1 <= n /\ n <= BUFSIZ /\ off + n <= Len(file)
    BY <1>3, <2>1
  <2>4. \A i \in 1 .. BUFSIZ : i <= n => off + i \in 1 .. Len(file)
    BY <1>3, <2>3
  <2>5. \A i \in 1 .. BUFSIZ : i <= n => file[off + i] \in Bytes
    BY Zenon, <1>2, <2>4, LenIs
  <2>6. buf' \in [1 .. BUFSIZ -> Bytes]
    BY Zenon, <1>2, <2>2, <2>5
  <2>7. \A k \in 1 .. len' : buf'[k] = file[off' - len' + k]
    <3>1. \A k \in 1 .. n : k \in 1 .. BUFSIZ /\ k <= n /\ off + n - n + k = off + k
      BY <1>3, <2>3
    <3>2. \A k \in 1 .. BUFSIZ : buf'[k] = IF k <= n THEN file[off + k] ELSE buf[k]
      BY Zenon, <2>2
    <3>3. ASSUME NEW k \in 1 .. n PROVE buf'[k] = file[off' - len' + k]
      <4>1. buf'[k] = file[off + k]
        BY Zenon, <3>1, <3>2
      <4>2. len' = n /\ off' = off + n
        BY Zenon, <2>2
      <4>3. off' - len' + k = off + k
        BY <1>3, <2>3, <4>2
      <4> QED BY Zenon, <4>1, <4>3
    <3> QED BY Zenon, <2>2, <3>3
  <2>8. /\ len' \in Nat /\ pos' \in Nat /\ off' \in 0 .. Len(file)
        /\ pos' <= len' /\ len' <= BUFSIZ /\ len' <= off'
    BY <1>3, <1>9, <2>2, <2>3
  <2>9. StdioInv'
    BY Zenon, <1>6, <2>6, <2>7, <2>8
  <2>10. pos = len
    BY <1>2, <1>9
  <2>11. Ftell = off /\ Ftell' = off + 1
    BY <1>2, <1>3, <1>5, <1>9, <2>2, <2>3, <2>10
  <2> QED BY Zenon, <1>7, <1>9, <2>9, <2>11
<1>10. CASE /\ pos >= len /\ off >= Len(file) /\ result' = Eof /\ pos' = 0 /\ len' = 0
            /\ UNCHANGED <<buf, off>>
  <2>1. pos = len /\ off = Len(file)
    BY <1>2, <1>3, <1>10
  <2>2. Ftell = off /\ Ftell' = off /\ Ftell >= Len(file)
    BY <1>2, <1>3, <1>5, <1>10, <2>1
  <2>3. Abstract!End
    BY Zenon, <1>1, <1>4, <1>10, <2>2 DEF Abstract!End
  <2>4. 0 \in Nat /\ 0 <= BUFSIZ /\ 0 <= off /\ 0 <= 0 /\ \A k \in 1 .. 0 : FALSE
    BY <1>3
  <2>5. StdioInv'
    BY Zenon, <1>2, <1>6, <1>10, <2>4
  <2> QED BY Zenon, <2>3, <2>5 DEF Abstract!Next
<1> QED BY Zenon, <1>8, <1>9, <1>10 DEF Fgetc

\* fseek: flush or discard, then lseek.
LEMMA SeekSteps ==
  ASSUME StdioInv, NEW p \in 0 .. MaxLen, Fseek(p)
  PROVE  StdioInv' /\ Abstract!Next
<1>1. ~err /\ kind' = kind /\ buf' = buf /\ result' = result /\ p <= Len(file)
  BY Zenon DEF Fseek
<1>2. file \in Seq(Bytes) /\ buf \in [1 .. BUFSIZ -> Bytes] /\ off \in 0 .. Len(file) /\ pos \in Nat
  BY Zenon, <1>1 DEF StdioInv
<1>3. Len(file) \in Nat /\ BUFSIZ \in Nat \ {0} /\ p \in Nat
  BY <1>2, StdioAssumption, LenIs
<1>4. kind' \in {"r", "w", "mem"} /\ err \in BOOLEAN
  BY Zenon, <1>1 DEF StdioInv
<1>5. 0 \in Nat /\ 0 < BUFSIZ /\ 0 <= 0 /\ 0 <= BUFSIZ /\ 0 <= p /\ \A k \in 1 .. 0 : FALSE
  BY <1>3
<1>6. Writable' = Writable /\ (kind = "r" <=> ~Writable)
  BY Zenon, <1>1, <1>4 DEF Writable
<1>7. ASSUME file' \in Seq(Bytes), p \in 0 .. Len(file'), off' = p, pos' = 0, len' = 0, err' = err,
             file' = IF Writable THEN Placed(file, off, SubSeq(buf, 1, pos)) ELSE file
      PROVE  StdioInv' /\ Abstract!Next
  <2>1. StdioInv'
    BY Zenon, <1>1, <1>2, <1>4, <1>5, <1>7 DEF StdioInv
  <2>2. Ftell' = p
    <3>1. p + 0 = p /\ p - (0 - 0) = p
      BY <1>3
    <3> QED BY Zenon, <1>7, <3>1 DEF Ftell
  <2>3. Placed(file', off', SubSeq(buf', 1, pos')) = file'
    BY Zenon, <1>7, ShownIs
  <2>4. Abstract!Seek(p)
    BY Zenon, <1>1, <1>6, <1>7, <2>2, <2>3 DEF Abstract!Seek
  <2> QED BY Zenon, <2>1, <2>4 DEF Abstract!Next
<1>8. CASE Writable /\ pos > 0
  <2>1. kind # "r"
    BY Zenon, <1>6, <1>8
  <2>2. Pending \in Seq(Bytes)
    BY Zenon, <1>1, <2>1, PendingIs
  <2>3. PICK n \in 0 .. pos :
          /\ file' = Placed(file, off, SubSeq(buf, 1, n))
          /\ IF n = pos THEN off' = p /\ pos' = 0 /\ len' = 0 /\ UNCHANGED err
             ELSE off' = off + n /\ err' = TRUE /\ UNCHANGED <<pos, len>>
    BY Zenon, <1>8 DEF Fseek
  <2>4. CASE n = pos
    <3>1. Len(Pending) \in Nat
      BY Zenon, <2>2, LenIs
    <3>2. /\ Placed(file, off, Pending) \in Seq(Bytes)
          /\ Len(Placed(file, off, Pending)) = IF off + Len(Pending) > Len(file) THEN off + Len(Pending) ELSE Len(file)
      BY Zenon, <1>2, <2>2, PlacedIs
    <3>3. p \in 0 .. Len(Placed(file, off, Pending))
      BY <1>1, <1>2, <1>3, <3>1, <3>2
    <3> QED BY Zenon, <1>7, <1>8, <2>3, <2>4, <3>2, <3>3 DEF Pending
  <2>5. CASE n # pos
    BY Zenon, <1>1, <2>3, <2>5, FailStep
  <2> QED BY Zenon, <2>4, <2>5
<1>9. CASE ~(Writable /\ pos > 0)
  <2>1. off' = p /\ pos' = 0 /\ len' = 0 /\ file' = file /\ err' = err
    BY Zenon, <1>9 DEF Fseek
  <2>2. p \in 0 .. Len(file)
    BY <1>1, <1>3
  <2>3. Writable => Placed(file, off, SubSeq(buf, 1, pos)) = file
    <3>1. Writable => pos = 0
      BY <1>2, <1>9
    <3> QED BY Zenon, <1>2, <3>1, ShownIs
  <2> QED BY Zenon, <1>2, <1>7, <2>1, <2>2, <2>3
<1> QED BY Zenon, <1>8, <1>9

\* A fresh FILE has an empty buffer.
LEMMA StdioStart ==
  ASSUME "r+" \notin Kinds, StdioInit
  PROVE  StdioInv /\ Abstract!Init
<1>1. kind \in {"r", "w", "mem"} /\ err = FALSE /\ off = 0 /\ pos = 0 /\ len = 0 /\ result = Eof /\ file \in Files
  BY Zenon, StdioAssumption DEF StdioInit
<1>2. PICK n \in 0 .. MaxLen : file \in [1 .. n -> Bytes]
  BY Zenon, <1>1 DEF Files
<1>3. file \in Seq(Bytes) /\ Len(file) = n
  <2>1. n \in Nat
    BY StdioAssumption
  <2> QED BY Zenon, <1>2, <2>1, SeqOf
<1>4. 0 \in 0 .. Len(file) /\ 0 \in Nat /\ 0 < BUFSIZ /\ 0 <= 0 /\ 0 <= BUFSIZ /\ \A k \in 1 .. 0 : FALSE
  BY <1>3, StdioAssumption
<1>5. buf \in [1 .. BUFSIZ -> Bytes]
  BY Zenon, StdioAssumption DEF StdioInit
<1>6. StdioInv
  BY Zenon, <1>1, <1>3, <1>4, <1>5 DEF StdioInv
<1>7. Placed(file, off, SubSeq(buf, 1, pos)) = file
  BY Zenon, <1>1, <1>3, <1>4, ShownIs
<1>8. Ftell = 0
  BY <1>1 DEF Ftell
<1>9. Abstract!Init
  BY Zenon, <1>1, <1>7, <1>8 DEF Abstract!Init, Files
<1> QED BY Zenon, <1>6, <1>9

\* Every call is a step of the stream, or none.
LEMMA StdioStep ==
  ASSUME StdioInv, [StdioNext]_stdioVars
  PROVE  StdioInv' /\ [Abstract!Next]_(Abstract!svars)
<1>1. CASE err
  <2>1. err' = err /\ kind' = kind
    BY Zenon, <1>1 DEF StdioNext, stdioVars, Fflush, Fgetc, Fputc, Fwrite, Fseek
  <2> QED BY Zenon, <1>1, <2>1 DEF StdioInv, Abstract!Next
<1>2. CASE UNCHANGED stdioVars
  <2>1. UNCHANGED <<kind, buf, pos, err, file, off, len, result>>
    BY Zenon, <1>2 DEF stdioVars
  <2>2. StdioInv'
    BY Zenon, <2>1 DEF StdioInv
  <2>3. Ftell' = Ftell /\ Writable' = Writable
    BY Zenon, <2>1 DEF Ftell, Writable
  <2> QED BY Zenon, <2>1, <2>2, <2>3 DEF Abstract!svars
<1>3. CASE Fflush
  BY Zenon, <1>3, FlushSteps
<1>4. CASE Fgetc
  BY Zenon, <1>4, GetcSteps
<1>5. CASE \E c \in Bytes : Fits /\ Fputc(c)
  BY Zenon, <1>5, PutcSteps
<1>6. CASE \E n \in 2 .. BUFSIZ + 1 : \E blk \in [1 .. n -> Bytes] : Len(file) + pos + n <= MaxLen /\ Fwrite(blk)
  BY Zenon, <1>6, WriteSteps
<1>7. CASE \E p \in 0 .. MaxLen : Fseek(p)
  BY Zenon, <1>7, SeekSteps
<1> QED BY Zenon, <1>2, <1>3, <1>4, <1>5, <1>6, <1>7 DEF StdioNext

\* A stream opened for reading, for writing or in memory is a file with a position, for
\* every size of buffer and file, whatever part of a transfer the host makes at a time
\* and wherever a writev stops, up to the first write error (libc/stdio_core.c).
THEOREM StreamIsFile ==
  ASSUME "r+" \notin Kinds
  PROVE  StdioSpec => StreamSpec
<1>1. StdioInit => StdioInv /\ Abstract!Init
  BY Zenon, StdioStart
<1>2. StdioInv /\ [StdioNext]_stdioVars => StdioInv' /\ [Abstract!Next]_(Abstract!svars)
  BY Zenon, StdioStep
<1> QED BY <1>1, <1>2, PTL DEF StdioSpec, StreamSpec, Abstract!Spec

-----------------------------------------------------------------------------
(* The guest's pipe.                                                       *)


Calls == {NoCall} \cup [op : {"read", "write"}, fd : Fds, lens : {<<l>> : l \in Nat \ {0}}]

\* What a pipe always is.
PipeTypes ==
  /\ pst \in [Procs -> {"none", "run", "parked", "done", "zombie"}]
  /\ call \in [Procs -> Calls]
  /\ wrDone \in [Procs -> Nat] /\ wrote \in [Procs -> Nat]
  /\ stream \in Seq(Procs \X Nat) /\ taken \in Nat
  /\ taken <= Len(stream) /\ Held <= Cap

\* wr_parked_done is of a write that is under way, or of a killed one.
PartsOwned ==
  \A p \in Procs :
    /\ pst[p] = "parked" => call[p] # NoCall
    /\ call[p].op = "read" => wrDone[p] = 0
    /\ pst[p] \in {"none", "run"} /\ call[p] = NoCall => wrDone[p] = 0

PipeInv == PipeTypes /\ PartsOwned /\ StreamIntact

LEMMA WholeChunks ==
  ASSUME NEW a \in Nat, NEW c \in Nat \ {0}
  PROVE  (a \div c) * c \in Nat /\ (a \div c) * c <= a
<1>1. (a \div c) \in Nat
  OBVIOUS
<1>2. c * (a \div c) + (a % c) = a /\ a % c \in Nat
  OBVIOUS
<1> QED BY <1>1, <1>2

\* The least of a few numbers.
LEMMA MinOf ==
  ASSUME NEW S \in SUBSET Nat, NEW x \in S, \A y \in S : x <= y
  PROVE  Min(S) \in S /\ \A y \in S : Min(S) <= y
  BY Zenon DEF Min

LEMMA MinTwo ==
  ASSUME NEW a \in Nat, NEW b \in Nat
  PROVE  Min({a, b}) \in Nat /\ Min({a, b}) <= a /\ Min({a, b}) <= b
<1> DEFINE S == {a, b}
<1>1. \E x \in S : \A y \in S : x <= y
  OBVIOUS
<1>2. S \in SUBSET Nat /\ a \in S /\ b \in S
  BY Zenon
<1> HIDE DEF S
<1>3. Min(S) \in S /\ \A y \in S : Min(S) <= y
  BY Zenon, <1>1, <1>2, MinOf
<1>4. Min(S) \in Nat /\ Min(S) <= a /\ Min(S) <= b
  BY Zenon, <1>2, <1>3
<1> QED BY Zenon, <1>4 DEF S

LEMMA MinThree ==
  ASSUME NEW a \in Nat, NEW b \in Nat, NEW c \in Nat
  PROVE  Min({a, b, c}) \in Nat /\ Min({a, b, c}) <= c
<1> DEFINE S == {a, b, c}
<1>1. \E x \in S : \A y \in S : x <= y
  <2>1. CASE a <= b /\ a <= c
    BY <2>1
  <2>2. CASE b <= a /\ b <= c
    BY <2>2
  <2>3. CASE c <= a /\ c <= b
    BY <2>3
  <2> QED BY <2>1, <2>2, <2>3
<1>2. S \in SUBSET Nat /\ c \in S
  BY Zenon
<1> HIDE DEF S
<1>3. Min(S) \in S /\ \A y \in S : Min(S) <= y
  BY Zenon, <1>1, <1>2, MinOf
<1>4. Min(S) \in Nat /\ Min(S) <= c
  BY Zenon, <1>2, <1>3
<1> QED BY Zenon, <1>4 DEF S

\* What a write puts in fits.
LEMMA GoesIs ==
  ASSUME NEW held \in Nat, held <= Cap, NEW rem \in Nat
  PROVE  Goes(held, rem) \in Nat /\ Goes(held, rem) <= rem /\ held + Goes(held, rem) <= Cap
<1> DEFINE a == Cap - held
           b == (a \div Chunk) * Chunk
<1>1. a \in Nat /\ Chunk \in Nat \ {0} /\ Cap \in Nat
  BY PipeAssumption
<1> HIDE DEF a
<1>2. b \in Nat /\ b <= a
  BY Zenon, <1>1, WholeChunks
<1> HIDE DEF b
<1>3. Min({rem, b}) \in Nat /\ Min({rem, b}) <= rem /\ Min({rem, b}) <= b
  BY Zenon, <1>2, MinTwo
<1>4. Goes(held, rem) = Min({rem, b})
  BY Zenon DEF Goes, a, b
<1>5. Goes(held, rem) \in Nat /\ Goes(held, rem) <= rem /\ Goes(held, rem) <= a
  <2>1. Min({rem, b}) <= a
    BY <1>1, <1>2, <1>3
  <2> QED BY Zenon, <1>3, <1>4, <2>1
<1> QED BY <1>1, <1>5 DEF a

-----------------------------------------------------------------------------

\* Units b + 1 .. b + n of p go in.
Put(p, b, n) == [i \in 1 .. n |-> <<p, b + i>>]

LEMMA PutIs ==
  ASSUME PipeTypes, NEW p \in Procs, NEW b \in Nat, NEW n \in Nat
  PROVE  /\ stream \o Put(p, b, n) \in Seq(Procs \X Nat)
         /\ Len(stream \o Put(p, b, n)) = Len(stream) + n
         /\ \A i \in 1 .. Len(stream) : (stream \o Put(p, b, n))[i] = stream[i]
         /\ \A i \in 1 .. n : (stream \o Put(p, b, n))[Len(stream) + i] = <<p, b + i>>
<1>1. Put(p, b, n) \in [1 .. n -> Procs \X Nat]
  BY DEF Put
<1>2. Put(p, b, n) \in Seq(Procs \X Nat) /\ Len(Put(p, b, n)) = n
  BY <1>1
<1>3. stream \in Seq(Procs \X Nat) /\ Len(stream) \in Nat
  BY DEF PipeTypes
<1>4. \A i \in 1 .. n : Put(p, b, n)[i] = <<p, b + i>>
  BY Zenon DEF Put
<1> DEFINE u == Put(p, b, n)
<1> HIDE DEF u
<1>5. u \in Seq(Procs \X Nat) /\ Len(u) = n /\ \A i \in 1 .. n : u[i] = <<p, b + i>>
  BY Zenon, <1>2, <1>4 DEF u
<1>6. /\ stream \o u \in Seq(Procs \X Nat) /\ Len(stream \o u) = Len(stream) + n
      /\ \A i \in 1 .. Len(stream) + n :
           (stream \o u)[i] = IF i <= Len(stream) THEN stream[i] ELSE u[i - Len(stream)]
  BY SMTT(20), <1>3, <1>5, JoinIs
<1>7. \A i \in 1 .. Len(stream) : (stream \o u)[i] = stream[i]
  BY <1>3, <1>6
<1>8. \A i \in 1 .. n : (stream \o u)[Len(stream) + i] = <<p, b + i>>
  BY <1>3, <1>5, <1>6
<1> QED BY Zenon, <1>6, <1>7, <1>8 DEF u

\* Who wrote a unit, and its number.
LEMMA UnitIs ==
  ASSUME PipeTypes, NEW i \in 1 .. Len(stream)
  PROVE  stream[i] = <<stream[i][1], stream[i][2]>> /\ stream[i][1] \in Procs /\ stream[i][2] \in Nat
<1>1. stream[i] \in Procs \X Nat
  BY Zenon, LenIs DEF PipeTypes
<1> QED BY <1>1

\* A write that goes on where the last one of the guest ended leaves the stream whole.
LEMMA PutKeeps ==
  ASSUME PipeTypes, StreamIntact, NEW p \in Procs, NEW n \in Nat,
         wrote' \in [Procs -> Nat], wrDone' \in [Procs -> Nat],
         stream' = stream \o Put(p, wrote[p] + wrDone[p], n),
         wrote'[p] + wrDone'[p] = wrote[p] + wrDone[p] + n,
         \A q \in Procs \ {p} : wrote'[q] = wrote[q] /\ wrDone'[q] = wrDone[q]
  PROVE  /\ \A i, j \in 1 .. Len(stream') :
              i < j /\ stream'[i][1] = stream'[j][1] => stream'[i][2] < stream'[j][2]
         /\ \A q \in Procs : Numbers(q)' = 1 .. (wrote'[q] + wrDone'[q])
<1> DEFINE b == wrote[p] + wrDone[p]
           l == Len(stream)
           s == stream'
<1>1. b \in Nat /\ l \in Nat
  BY DEF PipeTypes
<1>2. /\ Len(s) = l + n
      /\ \A i \in 1 .. l : s[i] = stream[i]
      /\ \A i \in 1 .. n : s[l + i][1] = p /\ s[l + i][2] = b + i
  <2>1. s = stream \o Put(p, b, n)
    BY Zenon
  <2> HIDE DEF b, s
  <2>2. /\ stream \o Put(p, b, n) \in Seq(Procs \X Nat)
        /\ Len(stream \o Put(p, b, n)) = Len(stream) + n
        /\ \A i \in 1 .. Len(stream) : (stream \o Put(p, b, n))[i] = stream[i]
        /\ \A i \in 1 .. n : (stream \o Put(p, b, n))[Len(stream) + i] = <<p, b + i>>
    BY Zenon, <1>1, PutIs
  <2>3. ASSUME NEW i \in 1 .. n PROVE s[l + i][1] = p /\ s[l + i][2] = b + i
    <3>1. s[l + i] = <<p, b + i>>
      BY Zenon, <2>1, <2>2
    <3> QED BY <3>1
  <2> QED BY Zenon, <2>1, <2>2, <2>3
<1>3. \A i \in 1 .. l : stream[i][1] = p => stream[i][2] \in 1 .. b
  <2> SUFFICES ASSUME NEW i \in 1 .. l, stream[i][1] = p PROVE stream[i][2] \in 1 .. b
    BY Zenon
  <2>1. stream[i][2] \in Numbers(p)
    BY Zenon DEF Numbers
  <2> QED BY Zenon, <2>1 DEF StreamIntact
<1>4. \A i \in 1 .. l + n : ~(i <= l) => i - l \in 1 .. n /\ i = l + (i - l)
  BY <1>1
<1>5. \A i \in 1 .. l : stream[i][2] \in Nat
  BY Zenon, UnitIs
<1>6. \A i \in 1 .. l + n : i <= l => i \in 1 .. l
  BY <1>1
<1>7. ASSUME NEW i \in 1 .. l + n, NEW j \in 1 .. l + n, i < j, s[i][1] = s[j][1]
      PROVE  s[i][2] < s[j][2]
  <2> HIDE DEF s
  <2>1. CASE j <= l
    <3>1. i \in 1 .. l /\ j \in 1 .. l
      BY <1>1, <1>7, <2>1
    <3>2. stream[i][1] = stream[j][1]
      BY Zenon, <1>2, <1>7, <3>1
    <3> QED BY Zenon, <1>2, <1>7, <3>1, <3>2 DEF StreamIntact
  <2>2. CASE i <= l /\ ~(j <= l)
    <3>1. PICK k \in 1 .. n : j = l + k
      BY Zenon, <1>4, <2>2
    <3>2. s[j][1] = p /\ s[j][2] = b + k /\ i \in 1 .. l /\ s[i] = stream[i]
      BY Zenon, <1>2, <1>6, <2>2, <3>1
    <3>3. stream[i][2] \in 1 .. b
      BY Zenon, <1>3, <1>7, <3>2
    <3>4. \A x \in 1 .. b : x < b + k
      BY SMTT(20), <1>1
    <3>5. s[i][2] = stream[i][2] /\ s[j][2] = b + k
      BY Zenon, <3>2
    <3>6. stream[i][2] < b + k
      BY Zenon, <3>3, <3>4
    <3> QED BY Zenon, <3>5, <3>6
  <2>3. CASE ~(i <= l)
    <3>1. ~(j <= l)
      BY <1>1, <1>7, <2>3
    <3>2. PICK k \in 1 .. n : i = l + k
      BY Zenon, <1>4, <2>3
    <3>3. PICK m \in 1 .. n : j = l + m
      BY Zenon, <1>4, <3>1
    <3>4. s[i][2] = b + k /\ s[j][2] = b + m
      BY Zenon, <1>2, <3>2, <3>3
    <3>5. b + k < b + m
      BY <1>1, <1>7, <3>2, <3>3
    <3> QED BY Zenon, <3>4, <3>5
  <2> QED BY Zenon, <2>1, <2>2, <2>3
<1>8. ASSUME NEW q \in Procs
      PROVE  Numbers(q)' = 1 .. (wrote'[q] + wrDone'[q])
  <2>1. Numbers(q) = 1 .. (wrote[q] + wrDone[q])
    BY Zenon DEF StreamIntact
  <2>2. CASE q # p
    <3>1. wrote'[q] + wrDone'[q] = wrote[q] + wrDone[q]
      BY Zenon, <2>2
    <3>2. ASSUME NEW x \in Numbers(q)' PROVE x \in Numbers(q)
      <4>1. PICK i \in 1 .. Len(s) : s[i][1] = q /\ x = s[i][2]
        BY Zenon, <3>2 DEF Numbers
      <4>2. i <= l
        <5>1. ASSUME ~(i <= l) PROVE FALSE
          <6>1. PICK k \in 1 .. n : i = l + k
            BY Zenon, <1>2, <1>4, <5>1
          <6> QED BY Zenon, <1>2, <2>2, <4>1, <6>1
        <5> QED BY Zenon, <5>1
      <4>3. i \in 1 .. l
        BY Zenon, <1>2, <1>6, <4>2
      <4> QED BY Zenon, <1>2, <4>1, <4>3 DEF Numbers
    <3>3. ASSUME NEW x \in Numbers(q) PROVE x \in Numbers(q)'
      <4>1. PICK i \in 1 .. l : stream[i][1] = q /\ x = stream[i][2]
        BY Zenon, <3>3 DEF Numbers
      <4>2. i \in 1 .. Len(s)
        BY <1>1, <1>2
      <4> QED BY Zenon, <1>2, <4>1, <4>2 DEF Numbers
    <3> QED BY Zenon, <2>1, <3>1, <3>2, <3>3
  <2>3. CASE q = p
    <3>1. ASSUME NEW x \in Numbers(q)' PROVE x \in 1 .. b + n
      <4>1. PICK i \in 1 .. Len(s) : s[i][1] = q /\ x = s[i][2]
        BY Zenon, <3>1 DEF Numbers
      <4>2. CASE i <= l
        <5>1. i \in 1 .. l /\ stream[i][1] = p /\ x = stream[i][2]
          BY Zenon, <1>2, <1>6, <2>3, <4>1, <4>2
        <5>2. x \in 1 .. b
          BY Zenon, <1>3, <5>1
        <5> QED BY SMTT(20), <1>1, <5>2
      <4>3. CASE ~(i <= l)
        <5>1. PICK k \in 1 .. n : i = l + k
          BY Zenon, <1>2, <1>4, <4>3
        <5>2. x = b + k
          BY Zenon, <1>2, <4>1, <5>1
        <5> QED BY SMTT(20), <1>1, <5>2
      <4> QED BY Zenon, <4>2, <4>3
    <3>2. ASSUME NEW x \in 1 .. b + n PROVE x \in Numbers(q)'
      <4>1. CASE x <= b
        <5>1. x \in 1 .. b
          BY <1>1, <4>1
        <5>2. x \in Numbers(p)
          BY Zenon, <2>1, <2>3, <5>1
        <5>3. PICK i \in 1 .. l : stream[i][1] = q /\ x = stream[i][2]
          BY Zenon, <2>3, <5>2 DEF Numbers
        <5>4. i \in 1 .. Len(s)
          BY <1>1, <1>2
        <5> QED BY Zenon, <1>2, <5>3, <5>4 DEF Numbers
      <4>2. CASE ~(x <= b)
        <5>1. PICK k \in 1 .. n : x = b + k
          <6>1. x - b \in 1 .. n /\ x = b + (x - b)
            BY <1>1, <4>2
          <6> QED BY Zenon, <6>1
        <5>2. l + k \in 1 .. Len(s)
          BY SMTT(20), <1>1, <1>2
        <5>3. s[l + k][1] = q /\ s[l + k][2] = x
          BY Zenon, <1>2, <2>3, <5>1
        <5> QED BY Zenon, <5>2, <5>3 DEF Numbers
      <4> QED BY Zenon, <4>1, <4>2
    <3>3. wrote'[q] + wrDone'[q] = b + n
      BY Zenon, <2>3
    <3> QED BY Zenon, <3>1, <3>2, <3>3
  <2> QED BY Zenon, <2>2, <2>3
<1> QED BY Zenon, <1>2, <1>7, <1>8

LEMMA CallIs ==
  ASSUME PipeTypes, NEW p \in Procs, call[p] # NoCall
  PROVE  /\ call[p].op \in {"read", "write"} /\ call[p].fd \in Fds
         /\ \E l \in Nat \ {0} : call[p].lens = <<l>>
<1>1. call[p] \in [op : {"read", "write"}, fd : Fds, lens : {<<l>> : l \in Nat \ {0}}]
  BY Zenon DEF PipeTypes, Calls
<1> QED BY Zenon, <1>1

\* One sys_write: how far it gets, and what it says.
LEMMA WriteOneIs ==
  ASSUME PipeTypes, NEW p \in Procs, NEW ln \in Nat \ {0}
  PROVE  \E n \in Nat :
           LET w == WriteAll(p, <<ln>>) IN
           /\ w.put = Put(p, wrote[p] + wrDone[p], n) /\ Held + n <= Cap
           /\ w.wrDone \in Nat /\ w.total \in Nat
           /\ w.park \in BOOLEAN
           /\ w.park => w.wrDone = wrDone[p] + n
           /\ ~w.park => w.wrDone = 0 /\ w.total = wrDone[p] + n
<1> DEFINE d == wrDone[p]
           w0 == Work(p)
           w == WriteAll(p, <<ln>>)
           n == IF ln <= d \/ ~Open("r") THEN 0 ELSE Goes(Held, ln - d)
           u == [i \in 1 .. n |-> <<p, wrote[p] + d + i>>]
<1>1. d \in Nat /\ wrote[p] \in Nat /\ Held \in Nat /\ Held <= Cap /\ Cap \in Nat
  BY PipeAssumption DEF PipeTypes, Held
<1>2. /\ n \in Nat /\ Held + n <= Cap
      /\ ln <= d => n = 0
      /\ ~Open("r") => n = 0
      /\ ~(ln <= d) => d + n <= ln
  <2>1. CASE ln <= d \/ ~Open("r")
    <3>1. n = 0
      BY Zenon, <2>1
    <3> HIDE DEF n, d
    <3> QED BY <1>1, <2>1, <3>1
  <2>2. CASE ~(ln <= d \/ ~Open("r"))
    <3>1. n = Goes(Held, ln - d)
      BY Zenon, <2>2
    <3> HIDE DEF n, d
    <3>2. ln - d \in Nat
      BY <1>1, <2>2
    <3>3. n \in Nat /\ n <= ln - d /\ Held + n <= Cap
      BY Zenon, <1>1, <3>1, <3>2, GoesIs
    <3> QED BY <1>1, <2>2, <3>3
  <2> QED BY Zenon, <2>1, <2>2
<1>3. u = Put(p, wrote[p] + wrDone[p], n)
  BY Zenon DEF Put
<1>4. w0 = [put |-> <<>>, wrDone |-> d, total |-> 0, park |-> FALSE, failed |-> FALSE]
  BY Zenon DEF Work
<1>5. w = WriteOne(p, w0, wrote[p], ln)
  BY Zenon DEF WriteAll
<1> HIDE DEF w, w0
<1>6. Held + Len(w0.put) = Held
  BY <1>1, <1>4
<1>7. /\ n = 0 => u = <<>>
      /\ <<>> \o u = u
  <2>1. \A i \in 1 .. n : u[i] = <<p, wrote[p] + d + i>>
    BY Zenon
  <2>2. u \in Seq(Procs \X Nat)
    <3> HIDE DEF n, d
    <3> QED BY <1>1, <1>2
  <2> HIDE DEF u
  <2>3. <<>> \o u = u
    BY <2>2
  <2>4. n = 0 => u = <<>>
    BY DEF u
  <2> QED BY Zenon, <2>3, <2>4
<1>8. w0.put \o u = u /\ w0.wrDone = d /\ w0.total = 0
  BY Zenon, <1>4, <1>7
<1>9. w = CASE ln <= d -> [w0 EXCEPT !.wrDone = 0, !.total = @ + d]
            [] ln > d /\ ~Open("r") -> [w0 EXCEPT !.wrDone = 0, !.total = @ + d, !.failed = TRUE]
            [] ln > d /\ Open("r") /\ d + n < ln ->
                 [w0 EXCEPT !.wrDone = d + n, !.put = u, !.park = TRUE]
            [] OTHER -> [w0 EXCEPT !.wrDone = 0, !.put = u, !.total = @ + ln]
  <2>1. w0.put \o [i \in 1 .. n |-> <<p, wrote[p] + w0.wrDone + i>>] = u
    BY Zenon, <1>8
  <2>2. n = IF ln <= w0.wrDone \/ ~Open("r") THEN 0
            ELSE Goes(Held + Len(w0.put), ln - w0.wrDone)
    BY Zenon, <1>6, <1>8
  <2> HIDE DEF n, u, d
  <2> DEFINE dd == w0.wrDone
             nn == IF ln <= dd \/ ~Open("r") THEN 0 ELSE Goes(Held + Len(w0.put), ln - dd)
             uu == w0.put \o [i \in 1 .. nn |-> <<p, wrote[p] + dd + i>>]
  <2>3. w = CASE ln <= dd -> [w0 EXCEPT !.wrDone = 0, !.total = @ + dd]
              [] ln > dd /\ ~Open("r") ->
                   [w0 EXCEPT !.wrDone = 0, !.total = @ + dd, !.failed = TRUE]
              [] ln > dd /\ Open("r") /\ dd + nn < ln ->
                   [w0 EXCEPT !.wrDone = dd + nn, !.put = uu, !.park = TRUE]
              [] OTHER -> [w0 EXCEPT !.wrDone = 0, !.put = uu, !.total = @ + ln]
    BY Zenon, <1>5 DEF WriteOne
  <2>4. dd = d /\ nn = n
    BY Zenon, <1>8, <2>2
  <2>5. uu = u
    BY Zenon, <2>1, <2>4
  <2> HIDE DEF dd, nn, uu
  <2> QED BY Zenon, <2>3, <2>4, <2>5
<1> HIDE DEF n, u, d
<1> DEFINE R == /\ w.put = u /\ w.wrDone \in Nat /\ w.total \in Nat /\ w.park \in BOOLEAN
                /\ w.park => w.wrDone = d + n
                /\ ~w.park => w.wrDone = 0 /\ w.total = d + n
<1>10. ASSUME ln <= d PROVE R
  <2>1. w = [w0 EXCEPT !.wrDone = 0, !.total = @ + d]
    BY <1>1, <1>9, <1>10
  <2>2. w.put = u /\ w.wrDone = 0 /\ w.total = d /\ ~w.park /\ w.park \in BOOLEAN
    BY <1>1, <1>2, <1>4, <1>7, <1>10, <2>1
  <2>3. d + n = d
    BY <1>1, <1>2, <1>10
  <2>4. 0 \in Nat /\ ln \in Nat
    BY Zenon
  <2> QED BY Zenon, <1>1, <2>2, <2>3, <2>4
<1>11. ASSUME ~(ln <= d) /\ ~Open("r") PROVE R
  <2>1. w = [w0 EXCEPT !.wrDone = 0, !.total = @ + d, !.failed = TRUE]
    BY <1>1, <1>9, <1>11
  <2>2. w.put = u /\ w.wrDone = 0 /\ w.total = d /\ ~w.park /\ w.park \in BOOLEAN
    BY <1>1, <1>2, <1>4, <1>7, <1>11, <2>1
  <2>3. d + n = d
    BY <1>1, <1>2, <1>11
  <2>4. 0 \in Nat /\ ln \in Nat
    OBVIOUS
  <2> QED BY Zenon, <1>1, <2>2, <2>3, <2>4
<1>12. ASSUME ~(ln <= d) /\ Open("r") /\ d + n < ln PROVE R
  <2>1. w = [w0 EXCEPT !.wrDone = d + n, !.put = u, !.park = TRUE]
    BY <1>1, <1>9, <1>12
  <2>2. w.put = u /\ w.wrDone = d + n /\ w.total = 0 /\ w.park /\ w.park \in BOOLEAN
    BY Zenon, <1>4, <2>1
  <2>3. d + n \in Nat
    BY <1>1, <1>2
  <2>4. 0 \in Nat /\ ln \in Nat
    OBVIOUS
  <2> QED BY Zenon, <1>1, <2>2, <2>3, <2>4
<1>13. ASSUME ~(ln <= d) /\ Open("r") /\ ~(d + n < ln) PROVE R
  <2>1. w = [w0 EXCEPT !.wrDone = 0, !.put = u, !.total = @ + ln]
    BY Zenon, <1>1, <1>9, <1>13
  <2>2. w.put = u /\ w.wrDone = 0 /\ w.total = ln /\ ~w.park /\ w.park \in BOOLEAN
    BY <1>4, <2>1
  <2>3. d + n = ln
    BY <1>1, <1>2, <1>13
  <2>4. 0 \in Nat /\ ln \in Nat
    OBVIOUS
  <2> QED BY Zenon, <1>1, <2>2, <2>3, <2>4
<1>14. R
  BY Zenon, <1>10, <1>11, <1>12, <1>13
<1> QED BY Zenon, <1>2, <1>3, <1>14 DEF w, d

\* Nothing goes in, and nobody is told anything.
LEMMA QuietKeeps ==
  ASSUME StreamIntact, UNCHANGED <<stream, wrote, wrDone>>, \A p \in Procs : Idle(p)' => wrDone[p] = 0
  PROVE  StreamIntact'
<1>1. \A p \in Procs : Numbers(p)' = Numbers(p)
  BY Zenon DEF Numbers
<1> QED BY Zenon, <1>1 DEF StreamIntact

\* A write, the first time and when it is run again.
LEMMA WriteCallKeeps ==
  ASSUME PipeInv, NEW p \in Procs, NEW f \in Fds, NEW ln \in Nat \ {0}, pst[p] = "run",
         WriteCall(p, f, <<ln>>)
  PROVE  PipeInv'
<1> DEFINE w == WriteAll(p, <<ln>>)
<1>1. PICK n \in Nat :
        /\ w.put = Put(p, wrote[p] + wrDone[p], n) /\ Held + n <= Cap
        /\ w.wrDone \in Nat /\ w.total \in Nat
        /\ w.park \in BOOLEAN
        /\ w.park => w.wrDone = wrDone[p] + n
        /\ ~w.park => w.wrDone = 0 /\ w.total = wrDone[p] + n
  BY Zenon, WriteOneIs DEF PipeInv
<1>2. /\ stream' = stream \o w.put
      /\ wrDone' = [wrDone EXCEPT ![p] = w.wrDone]
      /\ w.park => /\ pst' = [pst EXCEPT ![p] = "parked"]
                   /\ call' = [call EXCEPT ![p] = [op |-> "write", fd |-> f, lens |-> <<ln>>]]
                   /\ wrote' = wrote
      /\ ~w.park => /\ pst' = [pst EXCEPT ![p] = "run"]
                    /\ call' = [call EXCEPT ![p] = NoCall]
                    /\ wrote' = [wrote EXCEPT ![p] = @ + w.total]
      /\ taken' = taken
  BY Zenon DEF WriteCall
<1> HIDE DEF w
<1> DEFINE b == wrote[p] + wrDone[p]
<1>3. PipeTypes /\ PartsOwned /\ StreamIntact
  BY Zenon DEF PipeInv
<1>4. wrote[p] \in Nat /\ wrDone[p] \in Nat /\ wrote \in [Procs -> Nat] /\ wrDone \in [Procs -> Nat]
  BY Zenon, <1>3 DEF PipeTypes
<1>5. wrote' \in [Procs -> Nat] /\ wrDone' \in [Procs -> Nat]
  BY SMTT(20), <1>1, <1>2, <1>4
<1>6. wrote'[p] + wrDone'[p] = b + n
  <2>1. CASE w.park
    BY SMTT(20), <1>1, <1>2, <1>4, <2>1
  <2>2. CASE ~w.park
    BY <1>1, <1>2, <1>4, <2>2
  <2> QED BY Zenon, <2>1, <2>2
<1>7. \A q \in Procs \ {p} : wrote'[q] = wrote[q] /\ wrDone'[q] = wrDone[q]
  BY Zenon, <1>2, <1>4
<1>8. stream' = stream \o Put(p, b, n)
  BY Zenon, <1>1, <1>2
<1>9. /\ \A i, j \in 1 .. Len(stream') :
           i < j /\ stream'[i][1] = stream'[j][1] => stream'[i][2] < stream'[j][2]
      /\ \A q \in Procs : Numbers(q)' = 1 .. (wrote'[q] + wrDone'[q])
  BY Zenon, <1>3, <1>5, <1>6, <1>7, <1>8, PutKeeps
<1>10. \A q \in Procs \ {p} : pst'[q] = pst[q] /\ call'[q] = call[q]
  BY Zenon, <1>2, <1>3 DEF PipeTypes
<1>11. /\ w.park => pst'[p] = "parked" /\ call'[p] = [op |-> "write", fd |-> f, lens |-> <<ln>>]
       /\ ~w.park => pst'[p] = "run" /\ call'[p] = NoCall /\ wrDone'[p] = 0
  BY Zenon, <1>1, <1>2, <1>3 DEF PipeTypes
<1>12. PartsOwned'
  <2> SUFFICES ASSUME NEW q \in Procs
               PROVE  /\ pst'[q] = "parked" => call'[q] # NoCall
                      /\ call'[q].op = "read" => wrDone'[q] = 0
                      /\ pst'[q] \in {"none", "run"} /\ call'[q] = NoCall => wrDone'[q] = 0
    BY Zenon DEF PartsOwned
  <2>1. CASE q # p
    BY ZenonT(30), <1>3, <1>7, <1>10, <2>1 DEF PartsOwned
  <2>2. CASE q = p /\ w.park
    <3>1. call'[p].op = "write" /\ NoCall.op # "write"
      BY <1>11, <2>2 DEF NoCall
    <3> QED BY Zenon, <1>11, <2>2, <3>1
  <2>3. CASE q = p /\ ~w.park
    BY Zenon, <1>11, <2>3
  <2> QED BY Zenon, <2>1, <2>2, <2>3
<1>13. StreamIntact'
  <2>1. \A q \in Procs : Idle(q)' => wrDone'[q] = 0
    BY Zenon, <1>12 DEF PartsOwned, Idle
  <2> QED BY Zenon, <1>9, <2>1 DEF StreamIntact
<1>14. PipeTypes'
  <2>1. pst' \in [Procs -> {"none", "run", "parked", "done", "zombie"}]
    <3>1. pst' = [pst EXCEPT ![p] = "parked"] \/ pst' = [pst EXCEPT ![p] = "run"]
      BY Zenon, <1>2
    <3>2. pst \in [Procs -> {"none", "run", "parked", "done", "zombie"}]
      BY Zenon, <1>3 DEF PipeTypes
    <3> QED BY Zenon, <3>1, <3>2
  <2>2. call' \in [Procs -> Calls]
    <3>1. PICK c \in Calls : call' = [call EXCEPT ![p] = c]
      <4> DEFINE c0 == [op |-> "write", fd |-> f, lens |-> <<ln>>]
      <4>1. c0 \in Calls /\ NoCall \in Calls
        BY Zenon DEF Calls
      <4> HIDE DEF c0
      <4> QED BY Zenon, <1>2, <4>1 DEF c0
    <3>2. call \in [Procs -> Calls]
      BY Zenon, <1>3 DEF PipeTypes
    <3> QED BY Zenon, <3>1, <3>2
  <2>3. b \in Nat
    BY <1>4
  <2> HIDE DEF b
  <2>4. stream' \in Seq(Procs \X Nat) /\ Len(stream') = Len(stream) + n
    BY Zenon, <1>3, <1>8, <2>3, PutIs
  <2>5. Len(stream) \in Nat /\ taken \in Nat /\ taken <= Len(stream)
    BY <1>3 DEF PipeTypes
  <2>6. taken' <= Len(stream') /\ Held' <= Cap
    <3>1. taken' = taken /\ Held + n <= Cap
      BY Zenon, <1>1, <1>2
    <3>2. Cap \in Nat
      BY Zenon, PipeAssumption
    <3> QED BY <2>4, <2>5, <3>1, <3>2 DEF Held
  <2> QED BY Zenon, <1>2, <1>5, <2>1, <2>2, <2>4, <2>5, <2>6 DEF PipeTypes
<1> QED BY Zenon, <1>12, <1>13, <1>14 DEF PipeInv

\* A read takes only what is there.
LEMMA ReadCallKeeps ==
  ASSUME PipeInv, NEW p \in Procs, NEW f \in Fds, NEW ln \in Nat \ {0},
         pst[p] = "run", wrDone[p] = 0, ReadCall(p, f, ln)
  PROVE  PipeInv'
<1> DEFINE c0 == [op |-> "read", fd |-> f, lens |-> <<ln>>]
           m == Min({ln, Chunk, Held})
<1>1. c0 \in Calls /\ NoCall \in Calls /\ c0 # NoCall /\ NoCall.op # "read"
  BY Zenon DEF Calls, NoCall
<1>2. PipeTypes /\ PartsOwned /\ StreamIntact
  BY Zenon DEF PipeInv
<1>3. \/ pst' = [pst EXCEPT ![p] = "parked"] /\ call' = [call EXCEPT ![p] = c0] /\ taken' = taken
      \/ pst' = [pst EXCEPT ![p] = "run"] /\ call' = [call EXCEPT ![p] = NoCall] /\ taken' = taken + m
  BY Zenon DEF ReadCall
<1>4. UNCHANGED <<wrDone, wrote, stream>>
  BY Zenon DEF ReadCall
<1> HIDE DEF c0, m
<1>5. taken \in Nat /\ Len(stream) \in Nat /\ taken <= Len(stream) /\ Held <= Cap /\ Cap \in Nat
  BY <1>2, PipeAssumption DEF PipeTypes
<1>6. m \in Nat /\ m <= Held
  <2>1. Held \in Nat /\ Chunk \in Nat
    BY <1>5, PipeAssumption DEF Held
  <2> QED BY Zenon, <2>1, MinThree DEF m
<1>7. pst \in [Procs -> {"none", "run", "parked", "done", "zombie"}] /\ call \in [Procs -> Calls]
  BY Zenon, <1>2 DEF PipeTypes
<1>8. /\ \A q \in Procs \ {p} : pst'[q] = pst[q] /\ call'[q] = call[q]
      /\ (pst'[p] = "parked" /\ call'[p] = c0) \/ (pst'[p] = "run" /\ call'[p] = NoCall)
  <2>1. ASSUME NEW x, pst' = [pst EXCEPT ![p] = x]
        PROVE  pst'[p] = x /\ \A q \in Procs \ {p} : pst'[q] = pst[q]
    BY Zenon, <1>7, <2>1
  <2>2. ASSUME NEW x, call' = [call EXCEPT ![p] = x]
        PROVE  call'[p] = x /\ \A q \in Procs \ {p} : call'[q] = call[q]
    BY Zenon, <1>7, <2>2
  <2>3. \/ pst' = [pst EXCEPT ![p] = "parked"] /\ call' = [call EXCEPT ![p] = c0]
        \/ pst' = [pst EXCEPT ![p] = "run"] /\ call' = [call EXCEPT ![p] = NoCall]
    BY Zenon, <1>3
  <2>4. CASE pst' = [pst EXCEPT ![p] = "parked"] /\ call' = [call EXCEPT ![p] = c0]
    <3>1. pst'[p] = "parked" /\ \A q \in Procs \ {p} : pst'[q] = pst[q]
      BY Zenon, <2>1, <2>4
    <3>2. call'[p] = c0 /\ \A q \in Procs \ {p} : call'[q] = call[q]
      BY Zenon, <2>2, <2>4
    <3> QED BY Zenon, <3>1, <3>2
  <2>5. CASE pst' = [pst EXCEPT ![p] = "run"] /\ call' = [call EXCEPT ![p] = NoCall]
    <3>1. pst'[p] = "run" /\ \A q \in Procs \ {p} : pst'[q] = pst[q]
      BY Zenon, <2>1, <2>5
    <3>2. call'[p] = NoCall /\ \A q \in Procs \ {p} : call'[q] = call[q]
      BY Zenon, <2>2, <2>5
    <3> QED BY Zenon, <3>1, <3>2
  <2> QED BY Zenon, <2>3, <2>4, <2>5
<1>9. PartsOwned'
  <2> SUFFICES ASSUME NEW q \in Procs
               PROVE  /\ pst'[q] = "parked" => call'[q] # NoCall
                      /\ call'[q].op = "read" => wrDone'[q] = 0
                      /\ pst'[q] \in {"none", "run"} /\ call'[q] = NoCall => wrDone'[q] = 0
    BY Zenon DEF PartsOwned
  <2>1. CASE q # p
    BY Zenon, <1>2, <1>4, <1>8, <2>1 DEF PartsOwned
  <2>2. CASE q = p
    BY Zenon, <1>1, <1>4, <1>8, <2>2
  <2> QED BY Zenon, <2>1, <2>2
<1>10. StreamIntact'
  <2>1. \A q \in Procs : Idle(q)' => wrDone[q] = 0
    BY Zenon, <1>4, <1>9 DEF PartsOwned, Idle
  <2> QED BY Zenon, <1>2, <1>4, <2>1, QuietKeeps
<1>11. PipeTypes'
  <2>1. pst' \in [Procs -> {"none", "run", "parked", "done", "zombie"}]
    BY Zenon, <1>3, <1>7
  <2>2. call' \in [Procs -> Calls]
    BY Zenon, <1>1, <1>3, <1>7
  <2>3. taken' \in Nat /\ taken' <= Len(stream) /\ Len(stream) - taken' <= Cap
    BY <1>3, <1>5, <1>6 DEF Held
  <2> QED BY Zenon, <1>2, <1>4, <2>1, <2>2, <2>3 DEF PipeTypes, Held
<1> QED BY Zenon, <1>9, <1>10, <1>11 DEF PipeInv

\* A step that moves no unit and changes what calls are under way only by ending one.
LEMMA OtherKeeps ==
  ASSUME PipeInv, UNCHANGED <<wrDone, wrote, stream, taken>>,
         pst' \in [Procs -> {"none", "run", "parked", "done", "zombie"}], call' \in [Procs -> Calls],
         \A p \in Procs :
           \/ call'[p] = NoCall /\ pst'[p] = "done"
           \/ /\ call'[p] = call[p]
              /\ \/ pst'[p] = pst[p] \/ pst'[p] = "zombie"
                 \/ pst'[p] = "run" /\ (pst[p] = "none" \/ call[p] # NoCall)
  PROVE  PipeInv'
<1>1. PipeTypes /\ PartsOwned /\ StreamIntact
  BY Zenon DEF PipeInv
<1>2. PipeTypes'
  BY Zenon, <1>1 DEF PipeTypes, Held
<1>3. NoCall.op # "read"
  BY Zenon DEF NoCall
<1>4. PartsOwned'
  <2> SUFFICES ASSUME NEW q \in Procs
               PROVE  /\ pst'[q] = "parked" => call'[q] # NoCall
                      /\ call'[q].op = "read" => wrDone'[q] = 0
                      /\ pst'[q] \in {"none", "run"} /\ call'[q] = NoCall => wrDone'[q] = 0
    BY Zenon DEF PartsOwned
  <2>1. /\ pst[q] = "parked" => call[q] # NoCall
        /\ call[q].op = "read" => wrDone[q] = 0
        /\ pst[q] \in {"none", "run"} /\ call[q] = NoCall => wrDone[q] = 0
    BY Zenon, <1>1 DEF PartsOwned
  <2> QED BY Zenon, <1>3, <2>1
<1>5. \A q \in Procs : Idle(q)' => wrDone[q] = 0
  BY Zenon, <1>4 DEF PartsOwned, Idle
<1>6. StreamIntact'
  BY Zenon, <1>1, <1>5, QuietKeeps
<1> QED BY Zenon, <1>2, <1>4, <1>6 DEF PipeInv

LEMMA PipeInvInit == PipeInit => PipeInv
<1> SUFFICES ASSUME PipeInit PROVE PipeInv
  BY Zenon
<1>1. PipeTypes
  <2>1. stream = <<>> /\ taken = 0
    BY Zenon DEF PipeInit
  <2>2. stream \in Seq(Procs \X Nat) /\ taken \in Nat /\ taken <= Len(stream) /\ Held <= Cap
    BY <2>1, PipeAssumption DEF Held
  <2> QED BY Zenon, <2>2 DEF PipeInit, PipeTypes, Calls
<1>2. PartsOwned
  BY Zenon DEF PipeInit, PartsOwned, NoCall
<1>3. stream = <<>> /\ \A p \in Procs : wrote[p] = 0 /\ wrDone[p] = 0
  BY Zenon DEF PipeInit
<1>4. \A i \in 1 .. Len(stream) : FALSE
  BY <1>3
<1>5. 1 .. (0 + 0) = {}
  OBVIOUS
<1>6. \A p \in Procs : Numbers(p) = 1 .. (wrote[p] + wrDone[p])
  BY Zenon, <1>3, <1>4, <1>5 DEF Numbers
<1>7. StreamIntact
  BY Zenon, <1>3, <1>4, <1>6 DEF StreamIntact
<1> QED BY Zenon, <1>1, <1>2, <1>7 DEF PipeInv

LEMMA PipeInvNext == PipeInv /\ [PipeStep]_pipeVars => PipeInv'
<1> SUFFICES ASSUME PipeInv, [PipeStep]_pipeVars PROVE PipeInv'
  BY Zenon
<1>1. PipeTypes /\ PartsOwned
  BY Zenon DEF PipeInv
<1>2. pst \in [Procs -> {"none", "run", "parked", "done", "zombie"}] /\ call \in [Procs -> Calls]
  BY Zenon, <1>1 DEF PipeTypes
<1>3. NoCall \in Calls
  BY Zenon DEF Calls
<1>4. ASSUME UNCHANGED <<pst, call, wrDone, wrote, stream, taken>> PROVE PipeInv'
  <2>1. pst' \in [Procs -> {"none", "run", "parked", "done", "zombie"}] /\ call' \in [Procs -> Calls]
    BY Zenon, <1>2, <1>4
  <2>2. \A q \in Procs :
          \/ call'[q] = NoCall /\ pst'[q] = "done"
          \/ /\ call'[q] = call[q]
             /\ \/ pst'[q] = pst[q] \/ pst'[q] = "zombie"
                \/ pst'[q] = "run" /\ (pst[q] = "none" \/ call[q] # NoCall)
    BY Zenon, <1>4
  <2> QED BY Zenon, <1>4, <2>1, <2>2, OtherKeeps
<1>5. ASSUME NEW p \in Procs, MakePipe(p) PROVE PipeInv'
  BY Zenon, <1>4, <1>5 DEF MakePipe
<1>6. ASSUME NEW p \in Procs, Rerun(p) PROVE PipeInv'
  <2>1. PICK l \in Nat \ {0} : call[p].lens = <<l>>
    BY Zenon, <1>1, <1>6, CallIs DEF Rerun
  <2>2. call[p].fd \in Fds /\ pst[p] = "run" /\ call[p].lens[1] = l
    BY <1>1, <1>6, <2>1, CallIs DEF Rerun
  <2>3. CASE call[p].op = "read" /\ ReadCall(p, call[p].fd, call[p].lens[1])
    <3>1. wrDone[p] = 0
      BY Zenon, <1>1, <2>3 DEF PartsOwned
    <3> QED BY Zenon, <2>2, <2>3, <3>1, ReadCallKeeps
  <2>4. CASE call[p].op = "write" /\ WriteCall(p, call[p].fd, call[p].lens)
    BY Zenon, <2>1, <2>2, <2>4, WriteCallKeeps
  <2> QED BY Zenon, <1>6, <2>3, <2>4 DEF Rerun
<1>7. ASSUME NEW p \in Procs, Finish(p) PROVE PipeInv'
  <2>1. pst' = [pst EXCEPT ![p] = "done"] /\ call' = [call EXCEPT ![p] = NoCall]
        /\ UNCHANGED <<wrDone, wrote, stream, taken>>
    BY Zenon, <1>7 DEF Finish
  <2>2. pst' \in [Procs -> {"none", "run", "parked", "done", "zombie"}] /\ call' \in [Procs -> Calls]
    BY Zenon, <1>2, <1>3, <2>1
  <2>3. ASSUME NEW q \in Procs
        PROVE  (call'[q] = NoCall /\ pst'[q] = "done") \/ (call'[q] = call[q] /\ pst'[q] = pst[q])
    <3>1. pst'[q] = IF q = p THEN "done" ELSE pst[q]
      BY Zenon, <1>2, <2>1
    <3>2. call'[q] = IF q = p THEN NoCall ELSE call[q]
      BY Zenon, <1>2, <2>1
    <3> QED BY Zenon, <3>1, <3>2
  <2>4. \A q \in Procs :
          \/ call'[q] = NoCall /\ pst'[q] = "done"
          \/ /\ call'[q] = call[q]
             /\ \/ pst'[q] = pst[q] \/ pst'[q] = "zombie"
                \/ pst'[q] = "run" /\ (pst[q] = "none" \/ call[q] # NoCall)
    BY Zenon, <2>3
  <2> QED BY Zenon, <2>1, <2>2, <2>4, OtherKeeps
<1>8. ASSUME NEW p \in Procs, NEW c \in Procs, NEW fds \in SUBSET Fds, SpawnWith(p, c, fds)
      PROVE  PipeInv'
  <2>1. pst' = [pst EXCEPT ![c] = "run"] /\ pst[c] = "none" /\ UNCHANGED <<call, wrDone, wrote, stream, taken>>
    BY Zenon, <1>8 DEF SpawnWith
  <2>2. pst' \in [Procs -> {"none", "run", "parked", "done", "zombie"}]
    BY Zenon, <1>2, <2>1
  <2>3. ASSUME NEW q \in Procs
        PROVE  (pst'[q] = "run" /\ pst[q] = "none") \/ pst'[q] = pst[q]
    BY Zenon, <1>2, <2>1
  <2>4. \A q \in Procs :
          \/ call'[q] = NoCall /\ pst'[q] = "done"
          \/ /\ call'[q] = call[q]
             /\ \/ pst'[q] = pst[q] \/ pst'[q] = "zombie"
                \/ pst'[q] = "run" /\ (pst[q] = "none" \/ call[q] # NoCall)
    BY Zenon, <2>1, <2>3
  <2>5. call' \in [Procs -> Calls]
    BY Zenon, <1>2, <2>1
  <2> QED BY Zenon, <2>1, <2>2, <2>4, <2>5, OtherKeeps
<1>9. ASSUME NEW p \in Procs, NEW f \in Fds, CloseFd(p, f) PROVE PipeInv'
  BY Zenon, <1>4, <1>9 DEF CloseFd
<1>10. ASSUME NEW p \in Procs, NEW f \in Fds, NEW ln \in WriteLens, Write(p, f, ln) PROVE PipeInv'
  <2>1. ln \in Nat \ {0} /\ pst[p] = "run" /\ WriteCall(p, f, <<ln>>)
    BY Zenon, <1>10, PipeAssumption DEF Write, Idle
  <2> QED BY Zenon, <2>1, WriteCallKeeps
<1>11. ASSUME NEW p \in Procs, NEW f \in Fds, NEW ln \in ReadLens, Read(p, f, ln) PROVE PipeInv'
  <2>1. ln \in Nat \ {0} /\ pst[p] = "run" /\ call[p] = NoCall /\ ReadCall(p, f, ln)
    BY Zenon, <1>11, PipeAssumption DEF Read, Idle
  <2>2. wrDone[p] = 0
    BY Zenon, <1>1, <2>1 DEF PartsOwned
  <2> QED BY Zenon, <2>1, <2>2, ReadCallKeeps
<1>12. ASSUME Poll PROVE PipeInv'
  <2>1. pst' = [q \in Procs |-> IF Ready(q) THEN "run" ELSE pst[q]]
        /\ UNCHANGED <<call, wrDone, wrote, stream, taken>>
    BY Zenon, <1>12 DEF Poll
  <2>2. pst' \in [Procs -> {"none", "run", "parked", "done", "zombie"}]
    BY Zenon, <1>2, <2>1
  <2>3. ASSUME NEW q \in Procs
        PROVE  (pst'[q] = "run" /\ call[q] # NoCall) \/ pst'[q] = pst[q]
    <3>1. Ready(q) => call[q] # NoCall
      BY Zenon, <1>1 DEF Ready, PartsOwned
    <3>2. pst'[q] = IF Ready(q) THEN "run" ELSE pst[q]
      BY Zenon, <2>1
    <3> QED BY Zenon, <2>1, <3>1, <3>2
  <2>4. \A q \in Procs :
          \/ call'[q] = NoCall /\ pst'[q] = "done"
          \/ /\ call'[q] = call[q]
             /\ \/ pst'[q] = pst[q] \/ pst'[q] = "zombie"
                \/ pst'[q] = "run" /\ (pst[q] = "none" \/ call[q] # NoCall)
    BY Zenon, <2>1, <2>3
  <2>5. call' \in [Procs -> Calls]
    BY Zenon, <1>2, <2>1
  <2> QED BY Zenon, <2>1, <2>2, <2>4, <2>5, OtherKeeps
<1>13. ASSUME EndRound PROVE PipeInv'
  <2>1. pst' = [q \in Procs |-> IF q \in Reclaimed THEN "zombie" ELSE pst[q]]
        /\ UNCHANGED <<call, wrDone, wrote, stream, taken>>
    BY Zenon, <1>13 DEF EndRound
  <2>2. pst' \in [Procs -> {"none", "run", "parked", "done", "zombie"}]
    BY Zenon, <1>2, <2>1
  <2>3. ASSUME NEW q \in Procs PROVE pst'[q] = "zombie" \/ pst'[q] = pst[q]
    BY Zenon, <2>1
  <2>4. \A q \in Procs :
          \/ call'[q] = NoCall /\ pst'[q] = "done"
          \/ /\ call'[q] = call[q]
             /\ \/ pst'[q] = pst[q] \/ pst'[q] = "zombie"
                \/ pst'[q] = "run" /\ (pst[q] = "none" \/ call[q] # NoCall)
    BY Zenon, <2>1, <2>3
  <2>5. call' \in [Procs -> Calls]
    BY Zenon, <1>2, <2>1
  <2> QED BY Zenon, <2>1, <2>2, <2>4, <2>5, OtherKeeps
<1>14. ASSUME UNCHANGED pipeVars PROVE PipeInv'
  BY Zenon, <1>4, <1>14 DEF pipeVars
<1> QED BY Zenon, <1>5, <1>6, <1>7, <1>8, <1>9, <1>10, <1>11, <1>12, <1>13, <1>14 DEF PipeStep

\* The units a guest writes go into the pipe in order, none twice and none left out, with
\* any number of writers and readers of a pipe of any size: a sys_write that parks and is
\* run again goes on where wr_parked_done says.
THEOREM StreamAlwaysIntact == PipeSpec => []StreamIntact
<1>1. PipeInv => StreamIntact
  BY Zenon DEF PipeInv
<1> QED BY PTL, <1>1, PipeInvInit, PipeInvNext DEF PipeSpec

=============================================================================
