------------------------------- MODULE NineP --------------------------------
(***************************************************************************)
(* A 9P mount: the client in the guest (fs/ninefs.c), which draws fids     *)
(* from a bitmap and sends its messages one ring at a time, some rings     *)
(* holding several messages, and the server in the emulator                *)
(* (fs/p9_server.c), which keeps the fid table over a host directory.  The *)
(* host's directory is external: others may change it between messages.    *)
(* Contents, qids and stat fields are left out but for the directory bit;  *)
(* a host call may fail for reasons of its own.                            *)
(***************************************************************************)
EXTENDS Integers, Sequences, FiniteSets

CONSTANTS
  MAXFID,        \* P9_MAXFID and SRV_MAXFID: fid 0 is the root
  MAXWELEM,      \* P9_MAXWELEM: names in one Twalk
  HostFds,       \* fds the host gives the server; 0 is the emulator's own stdin
  Asks,          \* bound: the calls of the guest, <<operation, path>>
  Fixed,         \* host entries that nobody removes, and their kinds
  Loose          \* bound: paths that other programs on the host make and remove

ASSUME NinePAssumption ==
  /\ MAXFID \in Nat \ {0, 1} /\ MAXWELEM \in Nat \ {0}
  /\ HostFds \subseteq Nat \ {0} /\ IsFiniteSet(HostFds)
  /\ \A q \in Asks : q[2] \in Seq(STRING) /\ (q[1] = "rename" => q[3] \in STRING)

VARIABLES
  host,          \* the entries of the served directory: path -> "d" or "f"
  hfds,          \* open fds of the emulator's process
  srv,           \* the server's fid table
  nfids,         \* nm->fids: fids the client has in use
  held,          \* fids behind open files and directories of the guest, and their paths
  ask,           \* the call the client is in
  ring,          \* messages of the ring not served yet
  rsp,           \* replies of the ring so far
  up             \* the server exists

nineVars == <<host, hfds, srv, nfids, held, ask, ring, rsp, up>>

FidSet == 0 .. MAXFID - 1
NoFd == -1
Slot(used, isdir, fd, path) ==
  [used |-> used, isdir |-> isdir, fd |-> fd, path |-> path, listed |-> FALSE]
Reply(t) == [t |-> t, n |-> 0, dir |-> FALSE]
Error == Reply("error")
NoAsk == [op |-> "no", rel |-> <<>>, to |-> "", st |-> "idle", goal |-> "",
          path |-> <<>>, fid |-> 0, off |-> 0, k |-> 0, got |-> Error]

\* p9_server_create, then the client's handshake (ninefs_mount, ninefs_adopt).
NineInit ==
  /\ host = Fixed /\ hfds = {0} /\ up = TRUE
  /\ srv = [f \in FidSet |-> Slot(FALSE, FALSE, NoFd, <<>>)]
  /\ nfids = {0} /\ held = <<>>
  /\ ask = [NoAsk EXCEPT !.op = "mount", !.st = "version"]
  /\ ring = <<[t |-> "version"]>> /\ rsp = <<>>

-----------------------------------------------------------------------------
(* The host's directory.                                                   *)

Kind(p) == IF p = <<>> THEN "d" ELSE IF p \in DOMAIN host THEN host[p] ELSE "none"
Parent(p) == SubSeq(p, 1, Len(p) - 1)
Leaf(p) == p[Len(p)]
Present(p) == Kind(p) # "none"
Place(p, kind) == [q \in DOMAIN host \cup {p} |-> IF q = p THEN kind ELSE host[q]]
Without(ps) == [q \in DOMAIN host \ ps |-> host[q]]
Children(p) == {q \in DOMAIN host : Len(q) > 0 /\ Parent(q) = p}
Below(p) == {q \in DOMAIN host : Len(q) >= Len(p) /\ SubSeq(q, 1, Len(p)) = p}

HostMakes(p, kind) ==
  /\ ~Present(p) /\ Kind(Parent(p)) = "d" /\ host' = Place(p, kind)
  /\ UNCHANGED <<hfds, srv, nfids, held, ask, ring, rsp, up>>
HostRemoves(p) ==
  /\ Present(p) /\ Children(p) = {} /\ host' = Without({p})
  /\ UNCHANGED <<hfds, srv, nfids, held, ask, ring, rsp, up>>

-----------------------------------------------------------------------------
(* The server: one action per message type.                                *)

Answer(r) == /\ ring' = Tail(ring) /\ rsp' = Append(rsp, r)
             /\ UNCHANGED <<nfids, held, ask, up>>
Serves(t) == up /\ ring # <<>> /\ Head(ring).t = t
Refuse(r) == Answer(r) /\ UNCHANGED <<host, hfds, srv>>
OwnFd(f) == {srv[f].fd} \ {NoFd}

\* Every fid slot is zeroed, its fd with it; nothing is closed.
ServeVersion ==
  /\ Serves("version")
  /\ srv' = [f \in FidSet |-> Slot(FALSE, FALSE, 0, <<>>)]
  /\ Answer(Reply("version")) /\ UNCHANGED <<host, hfds>>

\* bind_fid: what the slot held open is closed first.
Bind(f, path, isdir) ==
  /\ hfds' = IF srv[f].used THEN hfds \ OwnFd(f) ELSE hfds
  /\ srv' = [srv EXCEPT ![f] = Slot(TRUE, isdir, NoFd, path)]

ServeAttach ==
  /\ Serves("attach")
  /\ Bind(Head(ring).fid, <<>>, TRUE)
  /\ Answer(Reply("attach")) /\ UNCHANGED host

\* The loop over the names: the first nq of them can be walked from a path, no more.
Walked(path, names, nq) ==
  /\ \A i \in 1 .. nq : Present(path \o SubSeq(names, 1, i))
  /\ nq < Len(names) => ~Present(path \o SubSeq(names, 1, nq + 1))

Arrived(nq, names) == nq = Len(names)

ServeWalk ==
  /\ Serves("walk")
  /\ \E nq \in 0 .. Len(Head(ring).names) :
     LET m == Head(ring)
         base == srv[m.fid]
         end == base.path \o SubSeq(m.names, 1, nq)
     IN /\ Walked(base.path, m.names, nq)
        /\ \/ /\ ~base.used \/ (nq = 0 /\ m.names # <<>>)
              /\ Refuse(Error)
           \/ /\ base.used /\ (nq > 0 \/ m.names = <<>>)
              /\ IF Arrived(nq, m.names)
                 THEN Bind(m.newfid, end, IF nq = 0 THEN base.isdir ELSE Kind(end) = "d")
                 ELSE UNCHANGED <<hfds, srv>>
              /\ Answer([t |-> "walk", n |-> nq, dir |-> nq = 0 \/ Kind(end) = "d"])
              /\ UNCHANGED host

\* open of a file stores what the host's open returned, NoFd when it failed, over
\* the slot's fd; a directory is listed once.
ServeOpen ==
  /\ Serves("open")
  /\ LET f == Head(ring).fid
         k == Kind(srv[f].path)
     IN \/ /\ ~srv[f].used \/ k = "none"
           /\ Refuse(Error)
        \/ /\ srv[f].used /\ k = "d"
           /\ \E ok \in BOOLEAN :
                /\ srv' = [srv EXCEPT ![f].isdir = TRUE, ![f].listed = @ \/ ok]
                /\ Answer(IF ok \/ srv[f].listed THEN Reply("open") ELSE Error)
           /\ UNCHANGED <<host, hfds>>
        \/ /\ srv[f].used /\ k = "f"
           /\ \E fd \in (HostFds \ hfds) \cup {NoFd} :
                /\ srv' = [srv EXCEPT ![f].isdir = FALSE, ![f].fd = fd]
                /\ hfds' = hfds \cup ({fd} \ {NoFd})
                /\ Answer(IF fd = NoFd THEN Error ELSE Reply("open"))
           /\ UNCHANGED host

\* The slot's path moves to the new name before the host is asked, and stays there
\* when the host refuses.
ServeCreate ==
  /\ Serves("create")
  /\ LET m == Head(ring)
         f == m.fid
         path == Append(srv[f].path, m.name)
         room == Kind(srv[f].path) = "d"
     IN \/ ~srv[f].used /\ Refuse(Error)
        \/ /\ srv[f].used /\ m.isdir
           /\ \E ok \in {TRUE, FALSE} :
                /\ ok => room /\ ~Present(path)
                /\ host' = IF ok THEN Place(path, "d") ELSE host
                /\ srv' = [srv EXCEPT ![f].path = path, ![f].isdir = @ \/ ok]
                /\ Answer(IF ok THEN Reply("create") ELSE Error)
           /\ UNCHANGED hfds
        \/ /\ srv[f].used /\ ~m.isdir
           /\ \E fd \in (HostFds \ hfds) \cup {NoFd} :
                /\ fd # NoFd => room /\ Kind(path) # "d"
                /\ host' = IF fd = NoFd THEN host ELSE Place(path, "f")
                /\ hfds' = hfds \cup ({fd} \ {NoFd})
                /\ srv' = [srv EXCEPT ![f].path = path, ![f].fd = fd,
                                      ![f].isdir = @ /\ fd = NoFd]
                /\ Answer(IF fd = NoFd THEN Error ELSE Reply("create"))

\* Mutant of Unbind: the host's fd stays open.
MutUnbind(f) == srv' = [srv EXCEPT ![f] = Slot(FALSE, @.isdir, NoFd, <<>>)] /\ UNCHANGED hfds

\* clunk_fid
Unbind(f) ==
  /\ hfds' = hfds \ OwnFd(f)
  /\ srv' = [srv EXCEPT ![f] = Slot(FALSE, @.isdir, NoFd, <<>>)]

\* Mutant of ServeClunk: a fid that is not bound gets no answer.
MutServeClunk ==
  /\ Serves("clunk") /\ srv[Head(ring).fid].used
  /\ Unbind(Head(ring).fid)
  /\ Answer(Reply("clunk")) /\ UNCHANGED host

ServeClunk ==
  /\ Serves("clunk")
  /\ LET f == Head(ring).fid
     IN IF srv[f].used THEN Unbind(f) ELSE UNCHANGED <<hfds, srv>>
  /\ Answer(Reply("clunk")) /\ UNCHANGED host

\* rmdir or unlink by the kind the slot remembers; the fid is clunked either way.
ServeRemove ==
  /\ Serves("remove")
  /\ LET f == Head(ring).fid
         path == srv[f].path
     IN \/ ~srv[f].used /\ Refuse(Error)
        \/ /\ srv[f].used
           /\ \E ok \in BOOLEAN :
                /\ ok => /\ path \in DOMAIN host \ DOMAIN Fixed /\ Children(path) = {}
                         /\ Kind(path) = IF srv[f].isdir THEN "d" ELSE "f"
                /\ host' = IF ok THEN Without({path}) ELSE host
                /\ Answer(IF ok THEN Reply("remove") ELSE Error)
           /\ Unbind(f)

ServeStat ==
  /\ Serves("stat")
  /\ LET s == srv[Head(ring).fid]
     IN Refuse(IF s.used /\ Present(s.path)
               THEN [t |-> "stat", n |-> 0, dir |-> Kind(s.path) = "d"] ELSE Error)

\* A rename within the directory; the slot follows, others that name the old path do not.
ServeWstat ==
  /\ Serves("wstat")
  /\ LET m == Head(ring)
         f == m.fid
         old == srv[f].path
         new == IF old = <<>> THEN <<m.name>> ELSE Append(Parent(old), m.name)
         moved == [q \in (DOMAIN host \ Below(old)) \cup
                         {new \o SubSeq(q, Len(old) + 1, Len(q)) : q \in Below(old)} |->
                     IF Len(q) >= Len(new) /\ SubSeq(q, 1, Len(new)) = new
                     THEN host[old \o SubSeq(q, Len(new) + 1, Len(q))] ELSE host[q]]
     IN \E ok \in BOOLEAN :
          /\ ok => /\ srv[f].used /\ old # <<>> /\ Present(old)
                   /\ (Below(old) \cup {new}) \cap DOMAIN Fixed = {}
                   /\ Kind(new) \in {"none", Kind(old)} /\ (Children(new) = {} \/ new = old)
          /\ host' = IF ok THEN moved ELSE host
          /\ srv' = IF ok THEN [srv EXCEPT ![f].path = new] ELSE srv
          /\ Answer(Reply(IF ok THEN "wstat" ELSE "error"))
  /\ UNCHANGED hfds

\* Tread and Twrite: the slot must be a listed directory or hold an fd.
ServeIo ==
  /\ Serves("io")
  /\ LET s == srv[Head(ring).fid]
     IN Refuse(IF s.used /\ (s.isdir \/ s.fd \in hfds) THEN Reply("io") ELSE Error)

\* guest_p9_free at the end of the guest, killed in a call or not.
Destroy ==
  /\ up /\ ring = <<>>
  /\ hfds' = hfds \ UNION {OwnFd(f) : f \in FidSet}
  /\ up' = FALSE
  /\ UNCHANGED <<host, srv, nfids, held, ask, ring, rsp>>

-----------------------------------------------------------------------------
(* The client.  A call is at stage st until the replies to its ring are in. *)

Twalk(from, to, names) == [t |-> "walk", fid |-> from, newfid |-> to, names |-> names]
Tmsg(t, f) == [t |-> t, fid |-> f]
Tcreate(f, name, isdir) == [t |-> "create", fid |-> f, name |-> name, isdir |-> isdir]

Idle == up /\ ask.st = "idle"
At(st) == up /\ ask.st = st /\ ring = <<>>
Send(a, msgs, fids) ==
  /\ ask' = a /\ ring' = msgs /\ rsp' = <<>> /\ nfids' = fids
  /\ UNCHANGED <<host, hfds, srv, up>>
FinishAsk(fids) == Send(NoAsk, <<>>, fids)

\* fid_alloc: the first fid that is free.
NextFid(f, fids) == f \notin fids /\ 0 .. f - 1 \subseteq fids

\* One ring that walks from the root into a new fid and goes on with that fid.
Batch(a, st, path, then, fids) ==
  IF fids = FidSet THEN FinishAsk(fids)
  ELSE \E f \in FidSet :
         /\ NextFid(f, fids)
         /\ Send([a EXCEPT !.st = st, !.fid = f, !.path = path],
                 <<Twalk(0, f, path)>> \o then[f], fids \cup {f})

\* Names of a path that the next ring carries, of n still to go.
Chunk(n) == IF n > MAXWELEM THEN MAXWELEM ELSE n

\* walk_rel: at most MAXWELEM names in a ring, the later ones from the new fid itself.
WalkRel(a, goal, path, fids) ==
  LET k == Chunk(Len(path))
  IN IF fids = FidSet THEN FinishAsk(fids)
     ELSE \E f \in FidSet :
            /\ NextFid(f, fids)
            /\ Send([a EXCEPT !.st = "walk", !.goal = goal, !.fid = f, !.path = path,
                              !.off = 0, !.k = k],
                    <<Twalk(0, f, SubSeq(path, 1, k))>>, fids \cup {f})

Deep(path) == Len(path) > MAXWELEM
Wants(op) == CASE op \in {"open", "create", "unlink"} -> "f" [] op \in {"opendir", "rmdir"} -> "d"
               [] OTHER -> "any"
Clunk(a) == Send([a EXCEPT !.st = "clunk"], <<Tmsg("clunk", a.fid)>>, nfids)

\* p9_handshake and bind_mount
MountVersion == /\ At("version") /\ UNCHANGED held
                /\ Send([ask EXCEPT !.st = "attach"], <<Tmsg("attach", 0)>>, nfids)
MountAttach == At("attach") /\ UNCHANGED held /\ FinishAsk({0})

\* nine_open; op "create" stands for FS_O_CREAT, "opendir" for FS_O_DIRECTORY.
NineOpen(op, rel) ==
  /\ Idle /\ UNCHANGED held
  /\ LET a == [NoAsk EXCEPT !.op = op, !.rel = rel]
         then == [f \in FidSet |-> <<Tmsg("open", f)>>]
     IN IF Deep(rel) THEN WalkRel(a, "open", rel, nfids) ELSE Batch(a, "bopen", rel, then, nfids)

\* What nine_open and open_stepwise do when the walk failed: open_create walks to the parent.
OpenMissing(fids) ==
  IF ask.op = "create" /\ ask.rel # <<>> THEN WalkRel(ask, "create", Parent(ask.rel), fids)
  ELSE FinishAsk(fids)

Holding(f) == [g \in DOMAIN held \cup {f} |-> IF g = f THEN ask.rel ELSE held[g]]

Full(r, names) == r.t = "walk" /\ r.n = Len(names)
WrongKind(r) == (ask.op = "opendir") # r.dir

OpenReply ==
  /\ At("bopen")
  /\ LET f == ask.fid
     IN \/ /\ ~Full(rsp[1], ask.path) /\ OpenMissing(nfids \ {f}) /\ UNCHANGED held
        \/ /\ Full(rsp[1], ask.path) /\ (WrongKind(rsp[1]) \/ rsp[2].t # "open")
           /\ Clunk(ask) /\ UNCHANGED held
        \/ /\ Full(rsp[1], ask.path) /\ ~WrongKind(rsp[1]) /\ rsp[2].t = "open"
           /\ held' = Holding(f) /\ FinishAsk(nfids)

\* The loop of walk_rel, then what its caller does with the fid.
WalkReply ==
  /\ At("walk") /\ UNCHANGED held
  /\ LET f == ask.fid
         off == ask.off + ask.k
         k == Chunk(Len(ask.path) - off)
         full == rsp[1].t = "walk" /\ rsp[1].n = ask.k
         Go(st, msg) == Send([ask EXCEPT !.st = st], <<msg>>, nfids)
     IN \/ /\ ~full
           /\ IF ask.goal = "open" THEN OpenMissing(nfids \ {f}) ELSE FinishAsk(nfids \ {f})
        \/ /\ full /\ off < Len(ask.path)
           /\ Send([ask EXCEPT !.off = off, !.k = k],
                   <<Twalk(f, f, SubSeq(ask.path, off + 1, off + k))>>, nfids)
        \/ /\ full /\ off = Len(ask.path)
           /\ CASE ask.goal = "open" -> IF WrongKind(rsp[1]) THEN Clunk(ask)
                                        ELSE Go("opened", Tmsg("open", f))
                [] ask.goal = "create" -> Go("opened", Tcreate(f, Leaf(ask.rel), FALSE))
                [] ask.goal = "mkdir" -> Go("last", Tcreate(f, Leaf(ask.rel), TRUE))
                [] ask.goal = "rename" -> Go("last", [t |-> "wstat", fid |-> f, name |-> ask.to])
                [] ask.goal = "stat" -> Go("stat", Tmsg("stat", f))
                [] ask.goal = "remove" -> Go("free", Tmsg("remove", f))

\* do_open or do_create answered; then the fid is the open file's, or is clunked.
OpenedReply ==
  /\ At("opened")
  /\ IF rsp[1].t \in {"open", "create"}
     THEN held' = Holding(ask.fid) /\ FinishAsk(nfids)
     ELSE Clunk(ask) /\ UNCHANGED held

\* The last message but the clunk of nine_mkdir and nine_rename.
LastReply == At("last") /\ Clunk(ask) /\ UNCHANGED held
ClunkReply == At("clunk") /\ FinishAsk(nfids \ {ask.fid}) /\ UNCHANGED held

\* nine_exists, nine_size, nine_isdir, nine_stat, and first in nine_unlink and nine_rmdir.
StatRel(op, rel) ==
  /\ Idle /\ UNCHANGED held
  /\ LET a == [NoAsk EXCEPT !.op = op, !.rel = rel]
         then == [f \in FidSet |-> <<Tmsg("stat", f), Tmsg("clunk", f)>>]
     IN IF Deep(rel) THEN WalkRel(a, "stat", rel, nfids) ELSE Batch(a, "bstat", rel, then, nfids)

RemoveRel(fids) ==
  LET then == [f \in FidSet |-> <<Tmsg("remove", f)>>]
  IN IF Deep(ask.rel) THEN WalkRel(ask, "remove", ask.rel, fids)
     ELSE Batch(ask, "free", ask.rel, then, fids)

\* What unlink and rmdir do once stat_rel is back.
Statted(r, fids) ==
  IF r.t = "stat" /\ Wants(ask.op) = (IF r.dir THEN "d" ELSE "f") THEN RemoveRel(fids)
  ELSE FinishAsk(fids)

StatReply ==
  /\ UNCHANGED held
  /\ \/ At("bstat") /\ Statted(IF Full(rsp[1], ask.path) THEN rsp[2] ELSE Error, nfids \ {ask.fid})
     \/ At("stat") /\ Send([ask EXCEPT !.st = "statted", !.got = rsp[1]],
                           <<Tmsg("clunk", ask.fid)>>, nfids)
     \/ At("statted") /\ Statted(ask.got, nfids \ {ask.fid})

NineMkdir(rel) ==
  /\ Idle /\ rel # <<>> /\ UNCHANGED held
  /\ LET a == [NoAsk EXCEPT !.op = "mkdir", !.rel = rel]
         then == [f \in FidSet |-> <<Tcreate(f, Leaf(rel), TRUE), Tmsg("clunk", f)>>]
     IN IF Deep(Parent(rel)) THEN WalkRel(a, "mkdir", Parent(rel), nfids)
        ELSE Batch(a, "free", Parent(rel), then, nfids)

\* remove_rel and nine_mkdir free the fid whatever the replies say.
FreeReply == At("free") /\ FinishAsk(nfids \ {ask.fid}) /\ UNCHANGED held

\* nine_rename, to another name in the same directory.
NineRename(rel, to) ==
  /\ Idle /\ UNCHANGED held
  /\ WalkRel([NoAsk EXCEPT !.op = "rename", !.rel = rel, !.to = to], "rename", rel, nfids)

\* nine_close frees the client's fid once the clunk is answered.
NineClose(h) ==
  /\ Idle /\ h \in DOMAIN held
  /\ held' = [g \in DOMAIN held \ {h} |-> held[g]]
  /\ Clunk([NoAsk EXCEPT !.op = "close", !.fid = h])

\* nine_read, nine_readdir, nine_write and nine_fstat of an open handle.
NineIo(h) ==
  /\ Idle /\ h \in DOMAIN held /\ UNCHANGED held
  /\ Send([NoAsk EXCEPT !.op = "io", !.st = "io", !.fid = h], <<Tmsg("io", h)>>, nfids)
IoReply == At("io") /\ FinishAsk(nfids) /\ UNCHANGED held

-----------------------------------------------------------------------------
Serve ==
  \/ ServeVersion \/ ServeAttach \/ ServeWalk \/ ServeOpen \/ ServeCreate \/ ServeClunk
  \/ ServeRemove \/ ServeStat \/ ServeWstat \/ ServeIo
Client ==
  \/ MountVersion \/ MountAttach \/ OpenReply \/ WalkReply \/ OpenedReply \/ LastReply
  \/ ClunkReply \/ StatReply \/ FreeReply \/ IoReply
Guest ==
  \/ \E q \in Asks :
       \/ q[1] \in {"open", "create", "opendir"} /\ NineOpen(q[1], q[2])
       \/ q[1] \in {"stat", "unlink", "rmdir"} /\ StatRel(q[1], q[2])
       \/ q[1] = "mkdir" /\ NineMkdir(q[2])
       \/ q[1] = "rename" /\ NineRename(q[2], q[3])
  \/ \E h \in DOMAIN held : NineClose(h) \/ NineIo(h)
HostMeddles == \E p \in Loose : HostRemoves(p) \/ \E kind \in {"d", "f"} : HostMakes(p, kind)

NineNext == Serve \/ Client \/ Guest \/ HostMeddles \/ Destroy

\* The server runs inside the doorbell call, the client goes on when it returns.
NineSpec == NineInit /\ [][NineNext]_nineVars /\ WF_nineVars(Serve \/ Client)

-----------------------------------------------------------------------------
(* Properties.                                                             *)

\* Between calls the client's bitmap and the server's table agree: a fid the client would
\* draw next is not bound to anything, and a handle the guest holds is bound to the path it
\* was opened by, and open (fid_alloc, fid_free, bind_fid, clunk_fid).  The server's open
\* host fds are those of its bound fids, each in one slot, and p9_server_destroy leaves
\* none open.
TablesAgree ==
  /\ Idle => \A f \in FidSet : srv[f].used <=> f \in nfids
  /\ up => \A h \in DOMAIN held :
              /\ h \in nfids /\ srv[h].used
              /\ srv[h].path = held[h]
              /\ srv[h].listed \/ srv[h].fd \in HostFds \cap hfds
  /\ LET own == {f \in FidSet : srv[f].used /\ srv[f].fd # NoFd}
     IN  /\ hfds \cap HostFds = IF up THEN {srv[f].fd : f \in own} ELSE {}
         /\ up => \A f, g \in own : srv[f].fd = srv[g].fd => f = g

\* After a walk that failed, the later messages of the ring touch no fid (nine_open:
\* "walk failed: the Topen hit no fid").
FailedWalkHitsNoFid ==
  ask.st \in {"bopen", "bstat", "free"} /\ rsp # <<>> /\ ask.goal = "" /\ ~Full(rsp[1], ask.path) =>
    \A i \in 2 .. Len(rsp) : rsp[i].t \in {"error", "clunk"}

\* Every call of the guest comes back, deep walks and creations included.
CallsReturn == (ask.op # "no") ~> (ask.op = "no" \/ ~up)

=============================================================================
