----------------------------- MODULE GuestPipe ------------------------------
(***************************************************************************)
(* A pipe between emulated processes (emu/guest.c): the fd table of each   *)
(* sandbox, the passing of fds to a child, and the write, writev and read  *)
(* system calls that park instead of blocking the one host thread and are  *)
(* run again when the scheduler finds their fd ready.  The host's pipe is  *)
(* external.  Bytes are counted in units, Chunk of which are the 4096      *)
(* bytes sys_write and sys_read move at most in one host call.             *)
(***************************************************************************)
EXTENDS Integers, Sequences, FiniteSets, FiniteSetsExt

CONSTANTS
  Procs, Root,   \* processes of the run, and the one in slot 0
  Fds,           \* guest fd indices that gfd_alloc gives out
  Chunk,         \* units in 4096 bytes
  Cap,           \* units the host's pipe holds
  WriteLens,     \* bound: lengths of the writes of the guests
  ReadLens,      \* bound: lengths of their reads
  MaxUnits       \* bound: no write starts that would take the stream past it

ASSUME PipeAssumption ==
  /\ Root \in Procs /\ Fds \subseteq Nat /\ IsFiniteSet(Fds)
  /\ Chunk \in Nat \ {0} /\ Cap \in Nat /\ Cap >= Chunk
  /\ WriteLens \subseteq Nat \ {0} /\ ReadLens \subseteq Nat \ {0} /\ MaxUnits \in Nat

VARIABLES
  pst,           \* "none", "run", "parked" in a system call, "done", "zombie"
  tab,           \* fdtab: what an index is open on, "free", "r" or "w"
  call,          \* the system call a guest is in, run again after a park
  wrDone,        \* wr_parked_done
  wrote,         \* units the guest was told it wrote
  stream,        \* every unit that went into the pipe, in order: <<writer, number>>
  taken,         \* how many of them were read
  made           \* the pipe exists

pipeVars == <<pst, tab, call, wrDone, wrote, stream, taken, made>>

NoCall == [op |-> "no", fd |-> 0, lens |-> <<>>]
Closed == [f \in Fds |-> "free"]

PipeInit ==
  /\ pst = [p \in Procs |-> IF p = Root THEN "run" ELSE "none"]
  /\ tab = [p \in Procs |-> Closed]
  /\ call = [p \in Procs |-> NoCall]
  /\ wrDone = [p \in Procs |-> 0]
  /\ wrote = [p \in Procs |-> 0]
  /\ stream = <<>> /\ taken = 0 /\ made = FALSE

-----------------------------------------------------------------------------
(* The host's pipe.                                                        *)

Held == Len(stream) - taken
Open(end) == \E p \in Procs, f \in Fds : tab[p][f] = end

\* read_would_block, write_would_block: a closed other end does not block.
ReadBlocks == Held = 0 /\ Open("w")

WriteBlocks(held) == held + Chunk > Cap /\ Open("r")

-----------------------------------------------------------------------------
(* The fd table.                                                           *)

FreeFds(t) == {f \in Fds : t[f] = "free"}

\* gfd_alloc of several fds in turn: each takes the lowest free index, and one that
\* finds the table full is dropped.
Rank(t, f) == Cardinality({g \in FreeFds(t) : g <= f})
AllocFds(t, ends) ==
  [f \in Fds |-> IF t[f] = "free" /\ Rank(t, f) <= Len(ends) THEN ends[Rank(t, f)] ELSE t[f]]

Idle(p) == pst[p] = "run" /\ call[p] = NoCall

\* guest_make_pipe: both ends or, without two free entries, none.
MakePipe(p) ==
  /\ Idle(p) /\ ~made
  /\ Cardinality(FreeFds(tab[p])) >= 2
  /\ tab' = [tab EXCEPT ![p] = AllocFds(@, <<"r", "w">>)]
  /\ made' = TRUE
  /\ UNCHANGED <<pst, call, wrDone, wrote, stream, taken>>

Nth(fds, i) == CHOOSE f \in fds : Cardinality({g \in fds : g <= f}) = i

\* A child is spawned with some of its parent's fds (guest_install_fdmap_mem); a dup
\* of the host may fail, which leaves that one out.
SpawnWith(p, c, fds) ==
  /\ Idle(p) /\ pst[c] = "none"
  /\ \A f \in fds : tab[p][f] # "free"
  /\ pst' = [pst EXCEPT ![c] = "run"]
  /\ tab' = [tab EXCEPT ![c] = AllocFds(Closed, [i \in 1 .. Cardinality(fds) |-> tab[p][Nth(fds, i)]])]
  /\ UNCHANGED <<call, wrDone, wrote, stream, taken, made>>

CloseFd(p, f) ==
  /\ Idle(p) /\ tab[p][f] # "free"
  /\ tab' = [tab EXCEPT ![p][f] = "free"]
  /\ UNCHANGED <<pst, call, wrDone, wrote, stream, taken, made>>

-----------------------------------------------------------------------------
(* sys_write, and writev as a loop over it.  A call is worked on as a      *)
(* record of what it has done to the guest and to the pipe.                *)

\* Mutant of Work: the call that is run again starts over.
MutWork(p) == [put |-> <<>>, wrDone |-> 0, total |-> 0, park |-> FALSE, failed |-> FALSE]

Work(p) == [put |-> <<>>, wrDone |-> wrDone[p], total |-> 0, park |-> FALSE, failed |-> FALSE]

\* The units that go in before the pipe is full; only the last chunk may be short.
Goes(held, rem) == Min({rem, ((Cap - held) \div Chunk) * Chunk})

\* One sys_write of len units that the guest numbers from base + 1.
WriteOne(p, w, base, len) ==
  LET done == w.wrDone
      held == Held + Len(w.put)
      n == IF len <= done \/ ~Open("r") THEN 0 ELSE Goes(held, len - done)
      put == w.put \o [i \in 1 .. n |-> <<p, base + done + i>>]
  IN  CASE len <= done -> [w EXCEPT !.wrDone = 0, !.total = @ + done]
        [] len > done /\ ~Open("r") ->
             [w EXCEPT !.wrDone = 0, !.total = @ + done, !.failed = TRUE]
        [] len > done /\ Open("r") /\ done + n < len ->
             [w EXCEPT !.wrDone = done + n, !.put = put, !.park = TRUE]
        [] OTHER -> [w EXCEPT !.wrDone = 0, !.put = put, !.total = @ + len]

\* The loop of writev stops at an error and at nothing else.
WriteAll(p, lens) ==
  LET first == WriteOne(p, Work(p), wrote[p], lens[1])
  IN  IF Len(lens) = 1 \/ first.failed THEN first
      ELSE WriteOne(p, first, wrote[p] + lens[1], lens[2])

WriteCall(p, f, lens) ==
  LET w == WriteAll(p, lens) IN
  /\ stream' = stream \o w.put
  /\ wrDone' = [wrDone EXCEPT ![p] = w.wrDone]
  /\ IF w.park
     THEN /\ pst' = [pst EXCEPT ![p] = "parked"]
          /\ call' = [call EXCEPT ![p] = [op |-> "write", fd |-> f, lens |-> lens]]
          /\ UNCHANGED wrote
     ELSE /\ pst' = [pst EXCEPT ![p] = "run"]
          /\ call' = [call EXCEPT ![p] = NoCall]
          /\ wrote' = [wrote EXCEPT ![p] = @ + w.total]
  /\ UNCHANGED <<tab, taken, made>>

Write(p, f, len) ==
  /\ Idle(p) /\ tab[p][f] = "w" /\ Len(stream) + len <= MaxUnits
  /\ WriteCall(p, f, <<len>>)

Writev(p, f, a, b) ==
  /\ Idle(p) /\ tab[p][f] = "w" /\ Len(stream) + a + b <= MaxUnits
  /\ WriteCall(p, f, <<a, b>>)

-----------------------------------------------------------------------------
(* sys_read: parks, or takes what is there up to its length; 0 at the end. *)

ReadCall(p, f, len) ==
  /\ IF ReadBlocks
     THEN /\ pst' = [pst EXCEPT ![p] = "parked"]
          /\ call' = [call EXCEPT ![p] = [op |-> "read", fd |-> f, lens |-> <<len>>]]
          /\ UNCHANGED taken
     ELSE /\ pst' = [pst EXCEPT ![p] = "run"]
          /\ call' = [call EXCEPT ![p] = NoCall]
          /\ taken' = taken + Min({len, Chunk, Held})
  /\ UNCHANGED <<tab, wrDone, wrote, stream, made>>

Read(p, f, len) == Idle(p) /\ tab[p][f] = "r" /\ ReadCall(p, f, len)

-----------------------------------------------------------------------------
(* The scheduler: the poll over parked fds, the slice that runs a parked   *)
(* call again, the end of a process, and the end of a round.               *)

Ready(p) == pst[p] = "parked" /\ (IF call[p].op = "read" THEN ~ReadBlocks ELSE ~WriteBlocks(Held))

Poll ==
  /\ \E p \in Procs : Ready(p)
  /\ pst' = [p \in Procs |-> IF Ready(p) THEN "run" ELSE pst[p]]
  /\ UNCHANGED <<tab, call, wrDone, wrote, stream, taken, made>>

Rerun(p) ==
  /\ pst[p] = "run" /\ call[p] # NoCall
  /\ \/ call[p].op = "read" /\ ReadCall(p, call[p].fd, call[p].lens[1])
     \/ call[p].op = "write" /\ WriteCall(p, call[p].fd, call[p].lens)

\* A process exits, or is killed while it is parked.
Finish(p) ==
  /\ Idle(p) \/ pst[p] = "parked"
  /\ pst' = [pst EXCEPT ![p] = "done"]
  /\ call' = [call EXCEPT ![p] = NoCall]
  /\ UNCHANGED <<tab, wrDone, wrote, stream, taken, made>>

\* Mutant of Reclaimed: a finished process keeps its fds until it is waited for.
MutReclaimed == {}

\* At the end of a round the finished processes but the root lose their fds.
Reclaimed == {p \in Procs \ {Root} : pst[p] = "done"}

EndRound ==
  /\ Reclaimed # {}
  /\ pst' = [p \in Procs |-> IF p \in Reclaimed THEN "zombie" ELSE pst[p]]
  /\ tab' = [p \in Procs |-> IF p \in Reclaimed THEN Closed ELSE tab[p]]
  /\ UNCHANGED <<call, wrDone, wrote, stream, taken, made>>

PipeStep ==
  \/ \E p \in Procs :
       \/ MakePipe(p) \/ Rerun(p) \/ Finish(p)
       \/ \E c \in Procs, fds \in SUBSET Fds : SpawnWith(p, c, fds)
       \/ \E f \in Fds :
            \/ CloseFd(p, f)
            \/ \E len \in WriteLens : Write(p, f, len)
            \/ \E len \in ReadLens : Read(p, f, len)
  \/ Poll \/ EndRound

WritevStep == \E p \in Procs, f \in Fds, a, b \in WriteLens : Writev(p, f, a, b)

\* The scheduler goes round: it polls, reclaims, and gives every runnable process slices.
PipeFair == WF_pipeVars(Poll) /\ WF_pipeVars(EndRound) /\ \A p \in Procs : WF_pipeVars(Rerun(p))

PipeSpec == PipeInit /\ [][PipeStep]_pipeVars /\ PipeFair
WritevSpec == PipeInit /\ [][PipeStep \/ WritevStep]_pipeVars

-----------------------------------------------------------------------------
(* Properties.                                                             *)

Numbers(p) == {stream[i][2] : i \in {j \in 1 .. Len(stream) : stream[j][1] = p}}

\* The units a guest writes go into the pipe in order, none twice and none left out,
\* however often its write parked half way and was run again (wr_parked_done): they are
\* the ones it was told of and the ones its parked call remembers.  Between calls there are
\* none of the latter: "the guest still sees one full write, never a short count".
StreamIntact ==
  /\ \A i, j \in 1 .. Len(stream) :
       i < j /\ stream[i][1] = stream[j][1] => stream[i][2] < stream[j][2]
  /\ \A p \in Procs :
       /\ Numbers(p) = 1 .. (wrote[p] + wrDone[p])
       /\ Idle(p) => wrDone[p] = 0

\* The other side of a parked call is gone: the fds of every writer are those of spawned
\* processes that have finished, or no reader is left.
HungUp(p) ==
  /\ pst[p] = "parked"
  /\ IF call[p].op = "read"
     THEN \A q \in Procs, f \in Fds : tab[q][f] = "w" => q # Root /\ pst[q] = "done"
     ELSE ~Open("r")

\* A guest parked on a pipe whose other side is gone gets to the end of its call.  The end
\* of the round closes a finished child's fds, the next poll sees the hang-up, and the call
\* that is run again reads the end of file or fails to write.
HangupEndsCall == \A p \in Procs : HungUp(p) ~> call[p] = NoCall
=============================================================================
