------------------------------ MODULE GuestMem ------------------------------
(***************************************************************************)
(* The paged memory of the emulated guests (the gm_ functions of           *)
(* emu/guest.c): a table of regions per guest, pages committed on first    *)
(* touch, a cache of writable pages, a cached region lookup, a growing     *)
(* cursor for dynamic mappings, and a pool that limits what all guests of  *)
(* a run commit together.  Addresses and sizes are counted in pages.  The  *)
(* one-buffer memory of a guest in a virtual machine (extern_base) commits *)
(* nothing and is left out.                                                *)
(***************************************************************************)
EXTENDS Integers, FiniteSets, FiniteSetsExt

CONSTANTS
  Guests,        \* guests of the run
  Mappers,       \* bound: the guests that call mmap and munmap
  Top,           \* pages of the 32-bit space
  MmapBase,      \* GM_MMAP_BASE
  MaxRegions,    \* GM_MAX_REGIONS
  MaxMap,        \* bound: pages a guest asks for in one mapping
  ReachTop,      \* bound: FALSE leaves out mappings whose trailing gap ends at the top
  Limit,         \* m->limit, in pages
  PoolLimit      \* pool->limit in pages, 0 for none

ASSUME MemAssumption ==
  /\ IsFiniteSet(Guests) /\ Mappers \subseteq Guests
  /\ Top \in Nat /\ MmapBase \in 2 .. Top - 1 /\ MaxRegions \in Nat /\ MaxRegions >= 3
  /\ Limit \in Nat /\ PoolLimit \in Nat /\ MaxMap \in Nat /\ ReachTop \in BOOLEAN

VARIABLES
  mem,           \* guest_mem of each guest
  poolUsed       \* pool->used, in pages

gmVars == <<mem, poolUsed>>

Pages == 0 .. Top - 1
RegionSlots == 1 .. MaxRegions
NoRegion == [base |-> 0, size |-> 0, prot |-> "none"]
Region(b, n, p) == [base |-> b, size |-> n, prot |-> p]

\* Mutant of Less: nothing is given back.
MutLess(x, k) == x

Less(x, k) == IF x >= k THEN x - k ELSE 0
Within(r, a) == r.base <= a /\ a < r.base + r.size

\* gm_map: append a region; a full table drops it.
Mapped(m, r) ==
  IF m.nregions >= MaxRegions THEN m
  ELSE [m EXCEPT !.nregions = @ + 1, !.regions[m.nregions + 1] = r]

Blank ==
  [regions |-> [i \in RegionSlots |-> NoRegion], nregions |-> 0, last |-> 0, next |-> 0,
   dir |-> {}, wdir |-> {}, committed |-> 0, loading |-> FALSE, fault |-> FALSE, live |-> FALSE]

GmInit == mem = [g \in Guests |-> Blank] /\ poolUsed = 0

-----------------------------------------------------------------------------
(* Lookup.                                                                 *)

Scan(m, a) ==
  LET hits == {i \in 1 .. m.nregions : Within(m.regions[i], a)}
  IN  IF hits = {} THEN 0 ELSE Min(hits)

\* region_of: the slot of the region at a, 0 for none; the last hit is tried first.
RegionOf(m, a) == IF m.last # 0 /\ Within(m.regions[m.last], a) THEN m.last ELSE Scan(m, a)

Remember(m, i) == IF i = 0 THEN m ELSE [m EXCEPT !.last = i]

-----------------------------------------------------------------------------
(* gm_page, for an access of the guest or of the loader.                   *)

Writable(m, i, w) == w => (m.regions[i].prot = "rw" \/ m.loading)

\* Something is mapped there, not a guard page, nor a page the guest may not write.
Allowed(m, a, w) ==
  \E i \in {RegionOf(m, a)} \ {0} : m.regions[i].prot # "none" /\ Writable(m, i, w)

\* A page that is not there yet would take the guest or the pool over its limit.
NoRoom(m) ==
  m.committed + 1 > Limit \/ (PoolLimit # 0 /\ poolUsed + 1 > PoolLimit)

\* gm_fault, by which the guest will end.
Fault(g, a) ==
  /\ mem' = [mem EXCEPT ![g] = [Remember(@, RegionOf(@, a)) EXCEPT !.fault = TRUE]]
  /\ UNCHANGED poolUsed

Warms(r, warm) == r.prot = "rw" /\ warm

\* The page is there, or is committed now; a writable one goes to the write cache
\* unless the cache's table cannot be allocated.
Touch(g, a, warm) ==
  LET m == Remember(mem[g], RegionOf(mem[g], a))
      i == RegionOf(mem[g], a)
      new == IF a \in m.dir THEN 0 ELSE 1
  IN  /\ mem' = [mem EXCEPT ![g] =
                  [m EXCEPT !.dir = @ \cup {a},
                            !.committed = @ + new,
                            !.wdir = IF Warms(m.regions[i], warm) THEN @ \cup {a} ELSE @]]
      /\ poolUsed' = poolUsed + new

\* A committed page is read, and a cached one written, without a look at the regions.
Fast(m, a, w) == a \in (IF w THEN m.wdir ELSE m.dir)

\* A new page is refused over a limit, and may be when the host is out of memory.
Access(g, a, w) ==
  LET m == mem[g] IN
  /\ m.live /\ ~m.fault /\ ~Fast(m, a, w)
  /\ \/ ~Allowed(m, a, w) /\ Fault(g, a)
     \/ Allowed(m, a, w) /\ a \notin m.dir /\ Fault(g, a)
     \/ /\ Allowed(m, a, w) /\ (a \notin m.dir => ~NoRoom(m))
        /\ \E warm \in BOOLEAN : Touch(g, a, warm)

-----------------------------------------------------------------------------
(* A process: its image is mapped and loaded, it runs, it is torn down.    *)

\* gm_init, the loader's regions: read-only text, writable data.
Build(g) ==
  /\ ~mem[g].live
  /\ mem' = [mem EXCEPT ![g] =
       Mapped(Mapped([Blank EXCEPT !.live = TRUE, !.loading = TRUE], Region(0, 1, "ro")), Region(1, 1, "rw"))]
  /\ UNCHANGED poolUsed

Loaded(g) ==
  /\ mem[g].loading
  /\ mem' = [mem EXCEPT ![g].loading = FALSE]
  /\ UNCHANGED poolUsed

\* gm_free, after which nothing of the guest is used.
MemFree(g) ==
  /\ mem[g].live
  /\ mem' = [mem EXCEPT ![g] = Blank]
  /\ poolUsed' = Less(poolUsed, mem[g].committed)

-----------------------------------------------------------------------------
(* gm_mmap and gm_munmap, called by a running guest.                       *)

\* Mutant of Cursor: every mapping starts at the base.
MutCursor(m) == MmapBase

Cursor(m) == IF m.next = 0 THEN MmapBase ELSE m.next
GuardPages(guard) == IF guard THEN 1 ELSE 0
MapEnd(m, n, guard) == Cursor(m) + GuardPages(guard) + n + 1
MapFits(m, n, guard) ==
  /\ MapEnd(m, n, guard) <= Top
  /\ m.nregions + GuardPages(guard) + 1 <= MaxRegions

\* A request that does not fit returns 0, and only starts the cursor.
Mmap(g, n, guard) ==
  LET m == mem[g]
      guarded == IF guard THEN Mapped(m, Region(Cursor(m), 1, "none")) ELSE m
      done == Mapped(guarded, Region(Cursor(m) + GuardPages(guard), n, "rw"))
  IN  /\ m.live /\ ~m.loading /\ ~m.fault
      /\ ReachTop \/ MapEnd(m, n, guard) # Top
      /\ mem' = [mem EXCEPT ![g] =
           IF MapFits(m, n, guard) THEN [done EXCEPT !.next = MapEnd(m, n, guard) % Top]
           ELSE [m EXCEPT !.next = Cursor(m)]]
      /\ UNCHANGED poolUsed

\* Mutant of LastAfter: the cached lookup outlives the compaction.
MutLastAfter(m) == m.last

\* An unmapping forgets the cached lookup.
LastAfter(m) == 0

\* The entries an unmapping drops: the mapping, and its guard just below it.
Dropped(m, b, n) ==
  LET same == {i \in 1 .. m.nregions : m.regions[i].base = b /\ m.regions[i].size = n}
      i == Min(same)
  IN  IF same = {} THEN {}
      ELSE IF i > 1 /\ m.regions[i-1].prot = "none" /\ m.regions[i-1].base + m.regions[i-1].size = b
           THEN {i - 1, i} ELSE {i}

\* The table moves down over the dropped entries; what lies past its end is left as it was.
Compacted(m, gone) ==
  LET k == Cardinality(gone)
  IN  IF gone = {} THEN m
      ELSE [m EXCEPT !.nregions = @ - k,
                     !.regions = [i \in RegionSlots |-> IF i >= Min(gone) /\ i + k <= m.nregions
                                                  THEN m.regions[i + k] ELSE m.regions[i]]]

Munmap(g, b, n) ==
  LET m == mem[g]
      freed == m.dir \cap (b .. b + n - 1)
      k == Cardinality(freed)
  IN  /\ m.live /\ ~m.loading /\ ~m.fault
      /\ b + n <= Top
      /\ mem' = [mem EXCEPT ![g] =
           [Compacted(m, Dropped(m, b, n)) EXCEPT
              !.dir = @ \ freed, !.wdir = @ \ freed,
              !.committed = Less(@, k), !.last = LastAfter(m)]]
      /\ poolUsed' = Less(poolUsed, k)

GmNext ==
  \E g \in Guests :
    \/ Build(g) \/ Loaded(g) \/ MemFree(g)
    \/ \E a \in Pages, w \in BOOLEAN : Access(g, a, w)
    \/ \E n \in 1 .. MaxMap, guard \in BOOLEAN : g \in Mappers /\ Mmap(g, n, guard)
    \/ \E b \in Pages, n \in 1 .. MaxMap : g \in Mappers /\ Munmap(g, b, n)

GmSpec == GmInit /\ [][GmNext]_gmVars

-----------------------------------------------------------------------------
(* Properties.                                                             *)

HeldPages == {x \in Guests \X Pages : x[2] \in mem[x[1]].dir}

\* What the guests are charged is what they hold: a guest's count is its committed
\* pages, and the pool's count is those of all guests, whatever was mapped,
\* unmapped, torn down or refused on the way (gm_page, gm_munmap, gm_free).
ChargesBalance ==
  /\ \A g \in Guests : mem[g].committed = Cardinality(mem[g].dir)
  /\ poolUsed = Cardinality(HeldPages)
  /\ PoolLimit # 0 => poolUsed <= PoolLimit

\* The caches of gm_page and region_of change no answer.  Once loading is over, an access
\* that the page tables serve without a look at the regions is one that a scan of the
\* region table would let through; and a compaction of that table leaves no pointer behind
\* that names another region or an entry past its end.
CachesAgree ==
  \A g \in Guests, a \in Pages :
    /\ RegionOf(mem[g], a) = Scan(mem[g], a)
    /\ \A w \in BOOLEAN :
         (~mem[g].loading /\ Fast(mem[g], a, w)) =>
            LET i == Scan(mem[g], a)
            IN  i # 0 /\ mem[g].regions[i].prot \in (IF w THEN {"rw"} ELSE {"ro", "rw"})

\* No two regions of a guest share a page: the layout of gm_mmap cannot "hand back a
\* low address that overlaps the image, the heap, or an earlier mapping".  A guard page
\* lives exactly as long as the mapping above it, so that neither a full table nor an
\* unmapping leaves an orphan.
RegionsApart ==
  \A g \in Guests : \A i \in 1 .. mem[g].nregions :
    LET r == mem[g].regions[i] IN
    /\ \A j \in 1 .. mem[g].nregions \ {i} :
         \A a \in Pages : ~(Within(r, a) /\ Within(mem[g].regions[j], a))
    /\ r.prot = "none" =>
         /\ i < mem[g].nregions
         /\ mem[g].regions[i+1].prot = "rw"
         /\ mem[g].regions[i+1].base = r.base + 1
=============================================================================
