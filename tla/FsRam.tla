------------------------------- MODULE FsRam --------------------------------
(***************************************************************************)
(* The fd space of the guest's file layer (fs/fs.c) over a ramfs mount     *)
(* (fs/ramfs.c): one table of fds for files, directories, the mount's root *)
(* and its current directory, and a pool of nodes that names, handles and  *)
(* the current directory refer to by index.  A path is its components; the *)
(* bytes of files and the positions in them are left out.                  *)
(***************************************************************************)
EXTENDS Integers, Sequences, FiniteSets, FiniteSetsExt, SequencesExt

CONSTANTS
  MAXNODES,      \* RAMFS_MAXNODES
  FdNums,        \* FS_FD_BASE .. FS_MAX_FDS - 1
  RamPaths,      \* bound: the paths of the guest, [abs, comps]
  Settled        \* bound: no directory a handle is on, or one above it, is renamed or removed

ASSUME FsRamAssumption ==
  /\ MAXNODES \in Nat \ {0} /\ FdNums \subseteq Nat \ {0, 1, 2} /\ IsFiniteSet(FdNums)
  /\ Cardinality(FdNums) > 1 /\ Settled \in BOOLEAN

VARIABLES
  node,          \* nodes[]
  fdTab,         \* fd_tab[]: the kind of a slot and its handle, a node
  cwd,           \* mt->cwd: the fd of the current directory, or -1 for the root
  cwdPath,       \* cwd_path[]
  mine           \* the fds fs_open gave the guest and it has not closed

ramVars == <<node, fdTab, cwd, cwdPath, mine>>

Nodes == 0 .. MAXNODES - 1
Up == ".."
Free == [used |-> FALSE, isdir |-> FALSE, parent |-> 0, name |-> "", nopen |-> 0, unlinked |-> FALSE]
FreeSlot == [kind |-> "free", h |-> 0]
ENOENT == -1
ENOTDIR == -2
Detached == -3      \* RNODE_DETACHED
NoParent == -1
RootFd == Min(FdNums)

\* ramfs_mount and fs_install_mount: the root is the first node, its fd the first slot.
RamInit ==
  /\ node = [n \in Nodes |-> IF n = 0 THEN [Free EXCEPT !.used = TRUE, !.isdir = TRUE, !.parent = NoParent]
                             ELSE Free]
  /\ fdTab = [f \in FdNums |-> IF f = RootFd THEN [kind |-> "root", h |-> 0] ELSE FreeSlot]
  /\ cwd = -1 /\ cwdPath = <<>> /\ mine = {}

-----------------------------------------------------------------------------
(* ramfs: names and nodes.                                                 *)

FindChild(dir, name) == {n \in Nodes : node[n].used /\ node[n].parent = dir /\ node[n].name = name}

WalkStep(cur, c) ==
  IF cur < 0 THEN cur
  ELSE IF c = Up THEN (IF node[cur].parent >= 0 THEN node[cur].parent ELSE cur)
  ELSE IF ~node[cur].isdir THEN ENOTDIR
  ELSE IF FindChild(cur, c) = {} THEN ENOENT ELSE Min(FindChild(cur, c))
WalkFrom(base, comps) == FoldLeft(WalkStep, base, comps)

\* split_leaf
HasLeaf(comps) == comps # <<>> /\ Last(comps) # Up

FreeNodes == {n \in Nodes : ~node[n].used}
NewNode(isdir, parent, name) ==
  [Free EXCEPT !.used = TRUE, !.isdir = isdir, !.parent = parent, !.name = name]

-----------------------------------------------------------------------------
(* fs.c: fds and paths.                                                    *)

FreeFdNums(tab) == {f \in FdNums : tab[f].kind = "free"}
\* fd_alloc takes the lowest free slot.
FdAlloc(tab, kind, h) == [tab EXCEPT ![Min(FreeFdNums(tab))] = [kind |-> kind, h |-> h]]

\* resolve_op: the directory a path starts from.
Base(p) == IF p.abs \/ cwd = -1 THEN fdTab[RootFd].h ELSE fdTab[cwd].h
Found(p) == WalkFrom(Base(p), p.comps)
ParentOf(p) == WalkFrom(Base(p), Front(p.comps))

\* fs_open of a directory
OpenDir(p) ==
  LET n == Found(p)
  IN /\ n >= 0 /\ node[n].isdir
     /\ FreeFdNums(fdTab) # {}
     /\ fdTab' = FdAlloc(fdTab, "dir", n)
     /\ mine' = mine \cup {Min(FreeFdNums(fdTab))}
     /\ UNCHANGED <<node, cwd, cwdPath>>

\* What ram_open does for a file: take the one there is or, with FS_O_CREAT, make it.
OpensOld(n) == /\ n >= 0 /\ ~node[n].isdir
               /\ node' = [node EXCEPT ![n].nopen = @ + 1]
OpensNew(p, n) == /\ Found(p) = ENOENT /\ HasLeaf(p.comps)
                  /\ ParentOf(p) >= 0 /\ node[ParentOf(p)].isdir
                  /\ FreeNodes # {} /\ n = Min(FreeNodes)
                  /\ node' = [node EXCEPT ![n] = [NewNode(FALSE, ParentOf(p), Last(p.comps))
                                                  EXCEPT !.nopen = 1]]

\* fs_open of a file; without a free fd the handle is closed again (ram_close), which
\* leaves a file that was created in the tree.
OpenFile(p, creat) ==
  /\ \E n \in Nodes :
       /\ (n = Found(p) /\ OpensOld(n)) \/ (creat /\ OpensNew(p, n))
       /\ FreeFdNums(fdTab) # {}
       /\ fdTab' = FdAlloc(fdTab, "file", n)
       /\ mine' = mine \cup {Min(FreeFdNums(fdTab))}
  /\ UNCHANGED <<cwd, cwdPath>>
OpenFileNoFd(p) ==
  /\ FreeFdNums(fdTab) = {}
  /\ Found(p) = ENOENT /\ HasLeaf(p.comps) /\ ParentOf(p) >= 0 /\ node[ParentOf(p)].isdir
  /\ FreeNodes # {}
  /\ node' = [node EXCEPT ![Min(FreeNodes)] = NewNode(FALSE, ParentOf(p), Last(p.comps))]
  /\ UNCHANGED <<fdTab, cwd, cwdPath, mine>>

\* ram_close: the last close of an unlinked file frees its node.
Closed1(s) ==
  IF s.kind # "file" THEN node
  ELSE IF node[s.h].nopen <= 1 /\ node[s.h].unlinked THEN [node EXCEPT ![s.h] = Free]
  ELSE [node EXCEPT ![s.h].nopen = IF @ > 0 THEN @ - 1 ELSE @]

Close(f) ==
  /\ f \in mine
  /\ node' = Closed1(fdTab[f])
  /\ fdTab' = [fdTab EXCEPT ![f] = FreeSlot]
  /\ mine' = mine \ {f}
  /\ UNCHANGED <<cwd, cwdPath>>

\* Mutant of Unlink: an open file's node is freed.
MutUnlink(p) ==
  /\ HasLeaf(p.comps) /\ ParentOf(p) >= 0
  /\ \E n \in FindChild(ParentOf(p), Last(p.comps)) :
       ~node[n].isdir /\ node' = [node EXCEPT ![n] = Free]
  /\ UNCHANGED <<fdTab, cwd, cwdPath, mine>>

\* An open file keeps its node, out of every name lookup, until its last close.
Unlink(p) ==
  /\ HasLeaf(p.comps) /\ ParentOf(p) >= 0
  /\ \E n \in FindChild(ParentOf(p), Last(p.comps)) :
       /\ ~node[n].isdir
       /\ node' = IF node[n].nopen > 0
                  THEN [node EXCEPT ![n].unlinked = TRUE, ![n].parent = Detached]
                  ELSE [node EXCEPT ![n] = Free]
  /\ UNCHANGED <<fdTab, cwd, cwdPath, mine>>

Mkdir(p) ==
  /\ HasLeaf(p.comps) /\ ParentOf(p) >= 0 /\ node[ParentOf(p)].isdir
  /\ FindChild(ParentOf(p), Last(p.comps)) = {} /\ FreeNodes # {}
  /\ node' = [node EXCEPT ![Min(FreeNodes)] = NewNode(TRUE, ParentOf(p), Last(p.comps))]
  /\ UNCHANGED <<fdTab, cwd, cwdPath, mine>>

\* The chain of parents of a node, itself first.
Ancestors(n) ==
  LET Above(seen, k) == seen \cup {node[m].parent : m \in seen \ {NoParent, Detached}}
  IN FoldLeft(Above, {n}, [k \in Nodes \ {0} |-> k]) \ {NoParent, Detached}

Busy(n) == \E f \in FdNums : fdTab[f].kind \in {"dir", "root"} /\ n \in Ancestors(fdTab[f].h)

Rmdir(p) ==
  /\ Found(p) >= 0 /\ node[Found(p)].isdir
  /\ \A n \in Nodes : node[n].used => node[n].parent # Found(p)
  /\ Settled => ~Busy(Found(p))
  /\ node' = [node EXCEPT ![Found(p)] = Free]
  /\ UNCHANGED <<fdTab, cwd, cwdPath, mine>>

\* Mutant of Rename: a directory may move below itself.
MutRename(p, q) ==
  LET src == Found(p)
      parent == ParentOf(q)
  IN /\ Base(p) = Base(q) /\ src >= 0
     /\ HasLeaf(q.comps) /\ parent >= 0 /\ node[parent].isdir
     /\ FindChild(parent, Last(q.comps)) = {}
     /\ Settled => ~Busy(src)
     /\ node' = [node EXCEPT ![src].parent = parent, ![src].name = Last(q.comps)]
     /\ UNCHANGED <<fdTab, cwd, cwdPath, mine>>

\* fs_rename needs both paths to start from one base; a directory does not move below itself.
Rename(p, q) ==
  LET src == Found(p)
      parent == ParentOf(q)
  IN /\ Base(p) = Base(q) /\ src >= 0
     /\ HasLeaf(q.comps) /\ parent >= 0 /\ node[parent].isdir
     /\ node[src].isdir => src \notin Ancestors(parent)
     /\ FindChild(parent, Last(q.comps)) = {}
     /\ Settled => ~Busy(src)
     /\ node' = [node EXCEPT ![src].parent = parent, ![src].name = Last(q.comps)]
     /\ UNCHANGED <<fdTab, cwd, cwdPath, mine>>

\* normalize_cwd
Normal(path, comps) ==
  FoldLeft(LAMBDA out, c : IF c = Up THEN (IF out = <<>> THEN out ELSE Front(out)) ELSE Append(out, c),
           path, comps)

CwdFreed == IF cwd = -1 THEN fdTab ELSE [fdTab EXCEPT ![cwd] = FreeSlot]

\* The new directory is opened before the old one's slot is freed; without a free slot the
\* current directory falls back to the root.
Chdir(p) ==
  LET n == Found(p)
      tab == CwdFreed
  IN /\ n >= 0 /\ node[n].isdir
     /\ \/ /\ FreeFdNums(tab) = {}
           /\ cwd' = -1 /\ fdTab' = tab /\ UNCHANGED cwdPath
        \/ /\ FreeFdNums(tab) # {}
           /\ cwd' = Min(FreeFdNums(tab))
           /\ fdTab' = FdAlloc(tab, "dir", n)
           /\ cwdPath' = Normal(IF p.abs THEN <<>> ELSE cwdPath, p.comps)
     /\ UNCHANGED <<node, mine>>

RamNext ==
  \/ \E p \in RamPaths :
       \/ OpenDir(p) \/ (\E creat \in BOOLEAN : OpenFile(p, creat)) \/ OpenFileNoFd(p)
       \/ Unlink(p) \/ Mkdir(p) \/ Rmdir(p) \/ Chdir(p)
       \/ \E q \in RamPaths : Rename(p, q)
  \/ \E f \in mine : Close(f)

RamSpec == RamInit /\ [][RamNext]_ramVars

-----------------------------------------------------------------------------
(* Properties.                                                             *)

\* A node counts exactly the file handles open on it, all of them are on live files,
\* and an unlinked node is kept only while one is open: unlink, create and close in any
\* order neither reuse a node a handle is on nor lose one (ram_open, ram_unlink, ram_close).
\* Every slot in use is the root's, the current directory's or one the guest can close.
HandlesCounted ==
  /\ \A n \in Nodes :
       LET on == {f \in FdNums : fdTab[f].kind = "file" /\ fdTab[f].h = n}
       IN /\ node[n].nopen = Cardinality(on)
          /\ on # {} => node[n].used /\ ~node[n].isdir
          /\ node[n].unlinked => on # {}
  /\ FdNums \ FreeFdNums(fdTab) = {RootFd} \cup ({cwd} \ {-1}) \cup mine

\* The names form a tree: every linked node's chain of parents ends at the root through
\* directories, and no directory has two children of one name (ram_rename, ram_rmdir).  The
\* path fs_getcwd reports leads through it from the root to the directory that relative
\* paths start from (fs_chdir keeps the two in step, ".." included).
NamesAreTrue ==
  /\ \A n \in Nodes : node[n].used /\ node[n].parent # Detached =>
       /\ 0 \in Ancestors(n)
       /\ \A m \in Ancestors(n) \ {n} : node[m].used /\ node[m].isdir
       /\ n # 0 => FindChild(node[n].parent, node[n].name) = {n}
  /\ WalkFrom(fdTab[RootFd].h, cwdPath) = Base([abs |-> FALSE, comps |-> <<>>])
=============================================================================
