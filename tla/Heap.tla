-------------------------------- MODULE Heap --------------------------------
(***************************************************************************)
(* The allocator of libc/malloc.c: blocks with a size in a header and in a *)
(* footer, exact-size bins and one list of large blocks, splitting on      *)
(* malloc, coalescing on free, and growth through __libc_sbrk.  Addresses  *)
(* are bytes from arena_lo with the constants of a 32-bit target; headers  *)
(* and footers keep what was written last, also when it is stale.  A free  *)
(* list is a sequence; its links are abstracted.                           *)
(***************************************************************************)
EXTENDS Integers, Sequences, FiniteSets, FiniteSetsExt, SequencesExt

CONSTANTS
  NBINS,         \* lists of blocks with one size; larger blocks share a list
  MaxBrk,        \* bound: bytes the seam gives out
  Requests,      \* bound: sizes asked of malloc and realloc
  Arrays,        \* bound: <<n, size>> asked of calloc
  SizeMod        \* bound: values of a size_t

ASSUME HeapAssumption ==
  /\ NBINS \in Nat /\ MaxBrk \in Nat /\ SizeMod \in Nat /\ SizeMod % 16 = 0
  /\ \A n \in Requests : n \in 1 .. SizeMod - 36
  /\ \A a \in Arrays : a[1] \in 1 .. SizeMod - 1 /\ a[2] \in 1 .. SizeMod - 1

VARIABLES
  hdr, foot,     \* header at an address; footer of the block that ends there
  free,          \* the free lists by size / ALIGN, NBINS for the large one
  brk,           \* brk_end
  liveBytes,     \* live
  out,           \* the caller's view: handed-out payloads and the bytes asked for
  again          \* payloads freed since the last allocation, open to a double free

heapVars == <<hdr, foot, free, brk, liveBytes, out, again>>

ALIGN == 16
HDR == 16
FOOT == 4
MINBLK == 32
Addrs == {a \in 0 .. MaxBrk : a % ALIGN = 0}

HeapInit ==
  /\ hdr = [a \in Addrs |-> [size |-> 0, used |-> FALSE]]
  /\ foot = [a \in Addrs |-> 0]
  /\ free = [i \in 0 .. NBINS |-> <<>>]
  /\ brk = 0 /\ liveBytes = 0
  /\ out = [a \in {} |-> 0]
  /\ again = {}

-----------------------------------------------------------------------------
(* The heap as a value, so that an operation can be composed of its calls. *)

H == [hdr |-> hdr, foot |-> foot, free |-> free, brk |-> brk]

RoundUp(n) == (((n + ALIGN - 1) % SizeMod) \div ALIGN) * ALIGN
Need(n) == Max({MINBLK, RoundUp((n + HDR + FOOT) % SizeMod)})

SetHdr(h, b, size, used) ==
  [h EXCEPT !.hdr[b] = [size |-> size, used |-> used], !.foot[b + size] = size]

Bin(size) == IF size \div ALIGN < NBINS THEN size \div ALIGN ELSE NBINS

PushFree(h, b) == [h EXCEPT !.free[Bin(h.hdr[b].size)] = <<b>> \o @]

UnlinkFree(h, b) == [h EXCEPT !.free[Bin(h.hdr[b].size)] = SelectSeq(@, LAMBDA x : x # b)]

None == -1

\* The block take_fit picks: exact bin, first fit in the large list, smallest larger bin.
Fit(h, need) ==
  LET idx == need \div ALIGN
      large == SelectSeq(h.free[NBINS], LAMBDA b : h.hdr[b].size >= need)
      bigger == {i \in idx + 1 .. NBINS - 1 : h.free[i] # <<>>}
  IN  CASE idx < NBINS /\ h.free[idx] # <<>> -> Head(h.free[idx])
        [] ~(idx < NBINS /\ h.free[idx] # <<>>) /\ large # <<>> -> Head(large)
        [] ~(idx < NBINS /\ h.free[idx] # <<>>) /\ large = <<>> /\ bigger # {} -> Head(h.free[Min(bigger)])
        [] OTHER -> None

\* Mutant of FreeBelow: the block below is taken for free.
MutFreeBelowAny(h, b) == b > 0

\* The free block below b, found through the footer that ends at b.
FreeBelow(h, b) == b > 0 /\ ~h.hdr[b - h.foot[b]].used

Grow(h, need) ==
  LET p == h.brk
      fresh == SetHdr([h EXCEPT !.brk = p + need], p, need, FALSE)
      prev == p - fresh.foot[p]
  IN  IF FreeBelow(fresh, p)
      THEN PushFree(SetHdr(UnlinkFree(fresh, prev), prev, fresh.foot[p] + need, FALSE), prev)
      ELSE PushFree(fresh, p)

\* The chosen block, split when the rest is a block of its own.
Carve(h, b, need) ==
  LET taken == UnlinkFree(h, b)
      bs == h.hdr[b].size
      rest == PushFree(SetHdr(taken, b + need, bs - need, FALSE), b + need)
  IN  IF bs - need >= MINBLK THEN SetHdr(rest, b, need, TRUE) ELSE SetHdr(taken, b, bs, TRUE)

\* malloc of n bytes: the heap it leaves and the block, None when the seam is exhausted.
Malloc(h, n) ==
  LET need == Need(n)
      grown == IF Fit(h, need) = None THEN Grow(h, need) ELSE h
  IN  IF Fit(h, need) = None /\ h.brk + need > MaxBrk
      THEN [heap |-> h, block |-> None]
      ELSE [heap |-> Carve(grown, Fit(grown, need), need), block |-> Fit(grown, need)]

\* free of the block b, which its header says is in use.
Freed(h, b) ==
  LET mark == [h EXCEPT !.hdr[b].used = FALSE]
      sz == h.hdr[b].size
      next == b + sz
      up == next < h.brk /\ ~h.hdr[next].used
      h1 == IF up THEN UnlinkFree(mark, next) ELSE mark
      sz1 == IF up THEN sz + h.hdr[next].size ELSE sz
      prev == b - h1.foot[b]
  IN  IF FreeBelow(h1, b)
      THEN PushFree(SetHdr(UnlinkFree(h1, prev), prev, sz1 + h1.foot[b], FALSE), prev)
      ELSE PushFree(SetHdr(h1, b, sz1, FALSE), b)

-----------------------------------------------------------------------------
(* The calls of a program.                                                 *)

Becomes(h) == hdr' = h.hdr /\ foot' = h.foot /\ free' = h.free /\ brk' = h.brk

Allocate(n, asked) ==
  LET m == Malloc(H, n) IN
  /\ m.block # None
  /\ Becomes(m.heap)
  /\ liveBytes' = liveBytes + m.heap.hdr[m.block].size
  /\ out' = [b \in DOMAIN out \cup {m.block} |-> IF b = m.block THEN asked ELSE out[b]]
  /\ again' = {}

CallMalloc(n) == Allocate(n, n)

\* calloc refuses a product that does not fit a size_t.
CallCalloc(n, size) ==
  LET total == (n * size) % SizeMod IN
  /\ total \div n = size
  /\ total > 0
  /\ Allocate(total, n * size)

CallFree(b) ==
  /\ b \in DOMAIN out
  /\ Becomes(Freed(H, b))
  /\ liveBytes' = liveBytes - hdr[b].size
  /\ out' = [c \in DOMAIN out \ {b} |-> out[c]]
  /\ again' = again \cup {b}

\* A second free of the same payload: the header decides whether it is ignored.
CallFreeAgain(b) ==
  /\ b \in again
  /\ IF hdr[b].used
     THEN Becomes(Freed(H, b)) /\ liveBytes' = liveBytes - hdr[b].size
     ELSE UNCHANGED <<hdr, foot, free, brk, liveBytes>>
  /\ UNCHANGED <<out, again>>

CallRealloc(b, n) ==
  LET usable == hdr[b].size - HDR - FOOT
      m == Malloc(H, n)
      moved == Freed(m.heap, b)
  IN  /\ b \in DOMAIN out
      /\ \/ /\ usable >= n
            /\ out' = [out EXCEPT ![b] = n]
            /\ UNCHANGED <<hdr, foot, free, brk, liveBytes, again>>
         \/ /\ usable < n /\ m.block # None
            /\ Becomes(moved)
            /\ liveBytes' = liveBytes + m.heap.hdr[m.block].size - m.heap.hdr[b].size
            /\ out' = [c \in (DOMAIN out \ {b}) \cup {m.block} |-> IF c = m.block THEN n ELSE out[c]]
            /\ again' = {b}

HeapNext ==
  \/ \E n \in Requests : CallMalloc(n)
  \/ \E a \in Arrays : CallCalloc(a[1], a[2])
  \/ \E b \in Addrs : CallFree(b) \/ CallFreeAgain(b)
  \/ \E b \in Addrs, n \in Requests : CallRealloc(b, n)

HeapSpec == HeapInit /\ [][HeapNext]_heapVars

-----------------------------------------------------------------------------
(* Properties.                                                             *)

FreeBlocks == UNION {ToSet(free[i]) : i \in 0 .. NBINS}
Blocks == FreeBlocks \cup DOMAIN out
Extent(b) == b .. b + hdr[b].size - 1

\* The blocks handed out and the blocks on the free lists tile the arena: none overlap,
\* nothing is lost between them, header and footer agree, and a free block is once on
\* the list of its size.  Splitting, growing, coalescing on either side and freeing the
\* same payload twice keep it so (malloc, grow, free, realloc).  Two neighbours are never
\* both free: "free() finds its physical neighbours and coalesces with any that are also
\* free".  A payload holds what was asked for, also when calloc multiplied and when realloc
\* kept it in place, and the footprint reported for leak hunting is the sum of the blocks
\* handed out, so that a balanced scope returns it to where it started.
ArenaTiled ==
  /\ \A b \in Blocks : /\ hdr[b].size >= MINBLK /\ b + hdr[b].size <= brk
                        /\ foot[b + hdr[b].size] = hdr[b].size
                        /\ hdr[b].used = (b \in DOMAIN out)
  /\ \A b, c \in Blocks : b < c => b + hdr[b].size <= c
  /\ MapThenSumSet(LAMBDA b : hdr[b].size, Blocks) = brk
  /\ \A b \in FreeBlocks : /\ b \notin DOMAIN out
                            /\ b + hdr[b].size \notin FreeBlocks
                            /\ Cardinality({i \in 1 .. Len(free[Bin(hdr[b].size)]) :
                                              free[Bin(hdr[b].size)][i] = b}) = 1
  /\ MapThenSumSet(LAMBDA i : Len(free[i]), 0 .. NBINS) = Cardinality(FreeBlocks)
  /\ \A b \in DOMAIN out : hdr[b].size - HDR - FOOT >= out[b]
  /\ liveBytes = MapThenSumSet(LAMBDA b : hdr[b].size, DOMAIN out)
=============================================================================
