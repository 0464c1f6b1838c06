------------------------------ MODULE MemCard -------------------------------
(***************************************************************************)
(* Named saves on a PlayStation memory card (libpsx/mc_fs.c over mc.c).    *)
(* The directory has one entry per block; a save is a chain of entries, of *)
(* which the first has its name.  Every entry and every block is written   *)
(* by a step of its own, and the card can be pulled, or the console be     *)
(* switched off, between any two of them; a frame that fails while the     *)
(* card stays in is left out.  The 64 frames of a block are one write      *)
(* here, which may be left torn.                                           *)
(***************************************************************************)
EXTENDS Integers, Sequences, FiniteSets, FiniteSetsExt

CONSTANTS
  DIR_BLOCKS,    \* blocks of the card
  Names,         \* names of saves
  Contents,      \* what is saved
  Need(_),       \* blocks a content takes
  Disciplined,   \* TRUE: after an operation that did not end well the name is saved or
                 \* deleted again, or the card formatted again, before anything else
  MaxFaults      \* bound: faults in a behaviour

ASSUME CardAssumption ==
  /\ DIR_BLOCKS \in Nat \ {0} /\ MaxFaults \in Nat
  /\ \A c \in Contents : Need(c) \in Nat \ {0}
  /\ Disciplined \in BOOLEAN

VARIABLES
  dir,           \* directory entry of each block
  block,         \* content of each block
  op,            \* the call in progress
  saved,         \* what the program may count on under each name
  owed,          \* what the last operation that failed was about
  clean,         \* no fault since the card was last formatted
  faults

cardVars == <<dir, block, op, saved, owed, clean, faults>>

CardBlocks == 1 .. DIR_BLOCKS
NoName == "none"
Raw == [st |-> "raw", name |-> NoName, size |-> 0, link |-> 0]
FreeEntry == [st |-> "free", name |-> NoName, size |-> 0, link |-> 0]
Torn == [of |-> NoName, what |-> NoName, nth |-> 0]
NoCardCall == [call |-> NoName, at |-> NoName, name |-> NoName, what |-> NoName, b |-> 0, chosen |-> <<>>]

CardInit ==
  /\ dir \in {[b \in CardBlocks |-> Raw], [b \in CardBlocks |-> FreeEntry]}
  /\ block = [b \in CardBlocks |-> Torn]
  /\ op = NoCardCall /\ saved = [n \in Names |-> NoName] /\ owed = NoName
  /\ clean = (dir[1] = FreeEntry) /\ faults = 0

-----------------------------------------------------------------------------
(* Reading the directory.                                                  *)

\* find_save: the first entry with the name, 0 for none.
FindSave(n) ==
  LET hits == {b \in CardBlocks : dir[b].st = "first" /\ dir[b].name = n}
  IN  IF hits = {} THEN 0 ELSE Min(hits)

\* The blocks of a chain of at most k from b, 0 after its end.
Walk(b, k) ==
  LET w[i \in 1 .. k] == IF i = 1 THEN b ELSE IF w[i-1] \notin CardBlocks THEN 0 ELSE dir[w[i-1]].link
  IN  w

\* psx_mc_load with a buffer that is large enough.
Load(n) ==
  LET b == FindSave(n)
      w == Walk(b, dir[b].size)
  IN  IF b = 0 THEN <<>> ELSE [i \in 1 .. Cardinality({j \in DOMAIN w : w[j] \in CardBlocks}) |-> block[w[i]]]

\* psx_mc_list.
Listed == {dir[b].name : b \in {x \in CardBlocks : dir[x].st = "first"}}

-----------------------------------------------------------------------------
(* The calls.                                                              *)

MayCall(about) == Disciplined => owed \in {NoName, about}

Format ==
  /\ op = NoCardCall
  /\ op' = [NoCardCall EXCEPT !.call = "format", !.at = "entries", !.b = 1]
  /\ saved' = [n \in Names |-> "unsure"]
  /\ UNCHANGED <<dir, block, owed, clean, faults>>

Delete(n) ==
  /\ op = NoCardCall /\ MayCall(n)
  /\ op' = [NoCardCall EXCEPT !.call = "delete", !.at = "find", !.name = n]
  /\ saved' = [saved EXCEPT ![n] = "unsure"]
  /\ UNCHANGED <<dir, block, owed, clean, faults>>

\* A content that no card can hold is refused before anything is deleted.
Save(n, c) ==
  /\ op = NoCardCall /\ MayCall(n) /\ Need(c) <= DIR_BLOCKS
  /\ op' = [NoCardCall EXCEPT !.call = "save", !.at = "find", !.name = n, !.what = c]
  /\ saved' = [saved EXCEPT ![n] = "unsure"]
  /\ UNCHANGED <<dir, block, owed, clean, faults>>

\* The call returns, and the program knows that the name holds v.
Return(v) == op' = NoCardCall /\ saved' = [saved EXCEPT ![op.name] = v] /\ owed' = NoName

\* The deletion is over: the call it was made for goes on.
Deleted ==
  IF op.call = "save" THEN op' = [op EXCEPT !.at = "gather"] /\ UNCHANGED <<saved, owed>>
  ELSE Return(NoName)

\* One entry of psx_mc_format; after the last one the card is as new.
FormatEntry ==
  /\ op.at = "entries"
  /\ dir' = [dir EXCEPT ![op.b] = FreeEntry]
  /\ IF op.b < DIR_BLOCKS
     THEN op' = [op EXCEPT !.b = @ + 1] /\ UNCHANGED <<saved, owed, clean>>
     ELSE /\ op' = NoCardCall /\ saved' = [n \in Names |-> NoName] /\ owed' = NoName
          /\ clean' = TRUE
  /\ UNCHANGED <<block, faults>>

\* find_save for a deletion.
Find ==
  /\ op.at = "find"
  /\ LET b == FindSave(op.name)
     IN  IF b = 0 THEN Deleted ELSE op' = [op EXCEPT !.at = "walk", !.b = b] /\ UNCHANGED <<saved, owed>>
  /\ UNCHANGED <<dir, block, clean, faults>>

\* Mutant of Freed: the chain is not followed.
MutFreed(b) == 0

\* The block after b in a chain that is being freed, 0 for none.
Freed(b) == dir[b].link

\* One turn of the loop of psx_mc_delete.
WalkFree ==
  /\ op.at = "walk"
  /\ dir' = [dir EXCEPT ![op.b].st = "free", ![op.b].link = 0]
  /\ IF Freed(op.b) = 0 THEN Deleted
     ELSE op' = [op EXCEPT !.b = Freed(op.b)] /\ UNCHANGED <<saved, owed>>
  /\ UNCHANGED <<block, clean, faults>>

\* The blocks a save takes: the first that are free; a card that is too full keeps
\* neither the new save nor the old one.
Gather ==
  LET free == {b \in CardBlocks : dir[b].st = "free"}
      nth(i) == CHOOSE b \in free : Cardinality({x \in free : x <= b}) = i
  IN  /\ op.at = "gather"
      /\ IF Cardinality(free) < Need(op.what) THEN Return(NoName)
         ELSE /\ op' = [op EXCEPT !.at = "data", !.b = 1, !.chosen = [i \in 1 .. Need(op.what) |-> nth(i)]]
              /\ UNCHANGED <<saved, owed>>
      /\ UNCHANGED <<dir, block, clean, faults>>

\* The data of the next block ...
WriteData ==
  /\ op.at = "data"
  /\ block' = [block EXCEPT ![op.chosen[op.b]] = [of |-> op.name, what |-> op.what, nth |-> op.b]]
  /\ op' = [op EXCEPT !.at = "entry"]
  /\ UNCHANGED <<dir, saved, owed, clean, faults>>

\* Mutant of Entry: every entry but the last is linked to its own block.
MutEntry(i) ==
  [st |-> IF i = 1 THEN "first" ELSE "more", name |-> IF i = 1 THEN op.name ELSE NoName,
   size |-> Need(op.what), link |-> IF i = Need(op.what) THEN 0 ELSE op.chosen[i]]

\* ... and its entry, which names the block that will come after it.
Entry(i) ==
  [st |-> IF i = 1 THEN "first" ELSE "more", name |-> IF i = 1 THEN op.name ELSE NoName,
   size |-> Need(op.what), link |-> IF i = Need(op.what) THEN 0 ELSE op.chosen[i+1]]

WriteEntry ==
  /\ op.at = "entry"
  /\ dir' = [dir EXCEPT ![op.chosen[op.b]] = Entry(op.b)]
  /\ IF op.b = Need(op.what) THEN Return(op.what)
     ELSE op' = [op EXCEPT !.at = "data", !.b = @ + 1] /\ UNCHANGED <<saved, owed>>
  /\ UNCHANGED <<block, clean, faults>>

-----------------------------------------------------------------------------
(* Faults.                                                                 *)

\* The frame that was being written is old, or new, or of a block partly new.
HalfWritten ==
  CASE op.at = "entries" -> block' = block /\ dir' \in {dir, [dir EXCEPT ![op.b] = FreeEntry]}
    [] op.at = "walk" -> block' = block /\ dir' \in {dir, [dir EXCEPT ![op.b].st = "free", ![op.b].link = 0]}
    [] op.at = "data" -> dir' = dir /\ block' \in {block, [block EXCEPT ![op.chosen[op.b]] = Torn]}
    [] op.at = "entry" -> block' = block /\ dir' \in {dir, [dir EXCEPT ![op.chosen[op.b]] = Entry(op.b)]}
    [] OTHER -> UNCHANGED <<dir, block>>

About == IF op.call = "format" THEN "format" ELSE op.name

\* The card is pulled, so that the rest of the call fails, or the console switched off.
Pulled ==
  /\ op # NoCardCall /\ faults < MaxFaults /\ faults' = faults + 1 /\ clean' = FALSE
  /\ HalfWritten
  /\ op' = NoCardCall /\ owed' = About
  /\ UNCHANGED saved

CardNext ==
  \/ Format \/ \E n \in Names : Delete(n) \/ \E c \in Contents : Save(n, c)
  \/ FormatEntry \/ Find \/ WalkFree \/ Gather \/ WriteData \/ WriteEntry
  \/ Pulled

CardSpec == CardInit /\ [][CardNext]_cardVars

-----------------------------------------------------------------------------
(* Properties.                                                             *)

\* A save that psx_mc_save reported done is what psx_mc_load gives back, and psx_mc_list
\* shows it, until a call for the same name or a format: whatever calls are made for other
\* names, and wherever the card was pulled out of one of these, if that is made good first.
SavesIntact ==
  \A n \in Names :
    /\ saved[n] = NoName => n \notin Listed
    /\ saved[n] \in Contents =>
         n \in Listed /\ Load(n) = [i \in 1 .. Need(saved[n]) |-> [of |-> n, what |-> saved[n], nth |-> i]]

\* On a card without a fault since it was formatted every block is free or in the chain
\* of exactly one save (psx_mc_delete gives back all that psx_mc_save took).
NoBlockLost ==
  (clean /\ op = NoCardCall) =>
    LET firsts == {b \in CardBlocks : dir[b].st = "first"}
        chain(b) == {Walk(b, dir[b].size)[i] : i \in 1 .. dir[b].size}
    IN  /\ {b \in CardBlocks : dir[b].st # "free"} = UNION {chain(b) : b \in firsts}
        /\ \A a, b \in firsts : a # b => chain(a) \cap chain(b) = {} /\ dir[a].name # dir[b].name
=============================================================================
