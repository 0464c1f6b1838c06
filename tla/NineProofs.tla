---------------------------- MODULE NineProofs -----------------------------
(***************************************************************************)
(* The 9P client and its server keep their tables in step, for any served  *)
(* tree, any number of fids and any calls.  The invariant follows a call   *)
(* through the messages of its ring: for each stage, what is still to be   *)
(* served, what was answered, and what became of the call's fid.           *)
(***************************************************************************)
EXTENDS NineP, TLAPS

Names == STRING \cup {""}
Paths == Seq(Names)
Replies == [t : {"error", "version", "attach", "walk", "open", "create", "clunk", "remove", "stat", "wstat", "io"},
            n : Nat, dir : BOOLEAN]
Slots == [used : BOOLEAN, isdir : BOOLEAN, fd : HostFds \cup {0, NoFd}, path : Paths, listed : BOOLEAN]
AskTypes ==
  [op : {"no", "mount", "open", "create", "opendir", "stat", "unlink", "rmdir", "mkdir", "rename", "close", "io"},
   rel : Paths, to : Names,
   st : {"idle", "version", "attach", "bopen", "walk", "opened", "last", "clunk", "bstat", "stat", "statted", "free", "io"},
   goal : {"", "open", "create", "mkdir", "rename", "stat", "remove"},
   path : Paths, fid : FidSet, off : Nat, k : Nat, got : Replies]

NineTypes ==
  /\ srv \in [FidSet -> Slots] /\ ask \in AskTypes
  /\ rsp \in Seq(Replies) /\ nfids \in SUBSET FidSet /\ up \in BOOLEAN

F == ask.fid
Own == srv[F]
\* A slot through which the guest can read or write.
IsOpen(s, fds) == s.listed \/ s.fd \in HostFds \cap fds
Root == srv[0].used /\ srv[0].path = <<>> /\ srv[0].fd = NoFd

Mounting ==
  /\ nfids = {0} /\ DOMAIN held = {}
  /\ \/ /\ ask.st = "version" /\ ring \in {<<[t |-> "version"]>>, <<>>}
        /\ \A g \in FidSet : ~srv[g].used
     \/ /\ ask.st = "attach" /\ ring = <<Tmsg("attach", 0)>>
        /\ \A g \in FidSet : ~srv[g].used
     \/ /\ ask.st = "attach" /\ ring = <<>> /\ Root
        /\ \A g \in FidSet \ {0} : ~srv[g].used

\* Messages of the call that the server has yet to answer.
Fresh == ~Own.used \/ Own.fd = NoFd
Bopen == ask.st = "bopen" /\ ask.path = ask.rel
Walking ==
  /\ ask.st = "walk"
  /\ ask.goal \in {"open", "create", "mkdir", "rename", "stat", "remove"}
  /\ ask.goal = "open" => ask.path = ask.rel
  /\ ask.goal \in {"create", "mkdir"} => ask.rel # <<>> /\ ask.path = Parent(ask.rel)
  /\ ask.off + ask.k <= Len(ask.path) /\ (ask.k = 0 => ask.path = <<>>)
Got(r) == r.t = "walk" /\ r.n = ask.k

\* Where the messages of a call are: the stage, the ring, and what the server has made of
\* the fid so far.
WalkPending ==
  /\ rsp = <<>>
  /\ \/ Bopen /\ ring = <<Twalk(0, F, ask.path), Tmsg("open", F)>> /\ ~Own.used
     \/ /\ Walking /\ ask.off = 0 /\ ring = <<Twalk(0, F, SubSeq(ask.path, 1, ask.k))>> /\ ~Own.used
     \/ /\ Walking /\ ask.off # 0
        /\ ring = <<Twalk(F, F, SubSeq(ask.path, ask.off + 1, ask.off + ask.k))>>
        /\ Own.used /\ Own.fd = NoFd /\ Own.path = SubSeq(ask.path, 1, ask.off)
     \/ ask.st = "bstat" /\ ~Own.used
          /\ ring = <<Twalk(0, F, ask.path), Tmsg("stat", F), Tmsg("clunk", F)>>
     \/ ask.st = "free" /\ ~Own.used /\ ring = <<Twalk(0, F, ask.path), Tmsg("remove", F)>>
     \/ /\ ask.st = "free" /\ ~Own.used
        /\ \E name \in Names :
             ring = <<Twalk(0, F, ask.path), Tcreate(F, name, TRUE), Tmsg("clunk", F)>>
OpenPending ==
  \/ Bopen /\ ring = <<Tmsg("open", F)>> /\ Len(rsp) = 1
       /\ (Own.used <=> Full(rsp[1], ask.path))
       /\ (Own.used => Own.fd = NoFd /\ Own.path = ask.rel)
  \/ ask.st = "opened" /\ ring = <<Tmsg("open", F)>> /\ rsp = <<>>
       /\ Own.used /\ Own.fd = NoFd /\ Own.path = ask.rel
CreatePending ==
  \/ /\ ask.st = "opened" /\ ask.rel # <<>> /\ ring = <<Tcreate(F, Leaf(ask.rel), FALSE)>>
     /\ rsp = <<>> /\ Own.used /\ Own.fd = NoFd /\ Own.path = Parent(ask.rel)
  \/ ask.st = "last" /\ Own.used /\ \E name \in Names : ring = <<Tcreate(F, name, TRUE)>>
  \/ ask.st = "free" /\ \E name \in Names : ring = <<Tcreate(F, name, TRUE), Tmsg("clunk", F)>>
LastPending ==
  \/ ask.st = "last" /\ Own.used /\ \E name \in Names : ring = <<[t |-> "wstat", fid |-> F, name |-> name]>>
  \/ ask.st \in {"clunk", "statted", "bstat", "free"} /\ ring = <<Tmsg("clunk", F)>>
  \/ ask.st = "bstat" /\ ring = <<Tmsg("stat", F), Tmsg("clunk", F)>>
  \/ ask.st = "stat" /\ ring = <<Tmsg("stat", F)>> /\ rsp = <<>>
  \/ ask.st = "free" /\ ring = <<Tmsg("remove", F)>>
Replied ==
  /\ ring = <<>>
  /\ \/ Bopen /\ Len(rsp) = 2
          /\ (Own.used <=> Full(rsp[1], ask.path))
          /\ (Own.used /\ rsp[2].t = "open" => Own.path = ask.rel /\ IsOpen(Own, hfds))
     \/ Walking /\ Len(rsp) = 1
          /\ (Own.used <=> Got(rsp[1]) \/ ask.off # 0)
          /\ (Got(rsp[1]) => Own.fd = NoFd /\ Own.path = SubSeq(ask.path, 1, ask.off + ask.k))
     \/ ask.st = "opened" /\ Len(rsp) = 1 /\ Own.used
          /\ (rsp[1].t \in {"open", "create"} => Own.path = ask.rel /\ IsOpen(Own, hfds))
     \/ ask.st = "last" /\ Own.used
     \/ ask.st = "stat" /\ Len(rsp) = 1
     \/ ask.st \in {"bstat", "clunk", "statted", "free"} /\ ~Own.used

\* A call with a fid of its own.
Calling ==
  /\ F \in nfids \ {0}
  /\ \/ WalkPending \/ OpenPending \/ CreatePending \/ LastPending \/ Replied
     \/ ask.st = "io" /\ Own.used /\ ring \in {<<Tmsg("io", F)>>, <<>>}

Mounted ==
  /\ 0 \in nfids /\ Root
  /\ \A g \in FidSet \ {F} : srv[g].used <=> g \in nfids
  /\ \A h \in DOMAIN held :
       /\ h \in nfids \ {0} /\ (h = F => ask.st = "io")
       /\ srv[h].path = held[h] /\ IsOpen(srv[h], hfds)
  /\ (ask = NoAsk /\ ring = <<>>) \/ Calling

OwnFds == {g \in FidSet : srv[g].used /\ srv[g].fd # NoFd}
FdsAgree ==
  /\ \A g \in OwnFds : srv[g].fd \in HostFds
  /\ \A g, h \in OwnFds : srv[g].fd = srv[h].fd => g = h
  /\ \A x \in HostFds : x \in hfds <=> \E g \in OwnFds : srv[g].fd = x

NineInv ==
  /\ NineTypes
  /\ up => FdsAgree /\ (Mounting \/ Mounted)
  /\ ~up => hfds \cap HostFds = {}


\* No deep walk loses its way after its first message.
WalksHold == At("walk") /\ ask.off # 0 => Got(rsp[1])

-----------------------------------------------------------------------------
(* Sequences.                                                              *)

LEMMA Appended ==
  ASSUME NEW S, NEW q \in Seq(S), NEW e \in S
  PROVE  Append(q, e) \in Seq(S)
  OBVIOUS

LEMMA Joined ==
  ASSUME NEW S, NEW q \in Seq(S), NEW t \in Seq(S)
  PROVE  q \o t \in Seq(S)
  OBVIOUS

LEMMA SameItems ==
  ASSUME NEW S, NEW q \in Seq(S), NEW t \in Seq(S), Len(q) = Len(t), \A i \in 1 .. Len(q) : q[i] = t[i]
  PROVE  q = t
  OBVIOUS

LEMMA JoinTwo ==
  ASSUME NEW x, NEW y PROVE <<x>> \o <<y>> = <<x, y>>
<1> DEFINE s == <<x>> \o <<y>>
           t == <<x, y>>
<1>1. s \in Seq({x, y}) /\ Len(s) = 2 /\ s[1] = x /\ s[2] = y
  OBVIOUS
<1>2. t \in Seq({x, y}) /\ Len(t) = 2 /\ t[1] = x /\ t[2] = y
  OBVIOUS
<1> HIDE DEF s, t
<1>3. \A i \in 1 .. Len(s) : s[i] = t[i]
  BY <1>1, <1>2
<1>4. s = t
  BY Zenon, <1>1, <1>2, <1>3, SameItems
<1> QED BY Zenon, <1>4 DEF s, t

LEMMA JoinThree ==
  ASSUME NEW x, NEW y, NEW z PROVE <<x>> \o <<y, z>> = <<x, y, z>>
<1> DEFINE s == <<x>> \o <<y, z>>
           t == <<x, y, z>>
<1>1. s \in Seq({x, y, z}) /\ Len(s) = 3 /\ s[1] = x /\ s[2] = y /\ s[3] = z
  OBVIOUS
<1>2. t \in Seq({x, y, z}) /\ Len(t) = 3 /\ t[1] = x /\ t[2] = y /\ t[3] = z
  OBVIOUS
<1> HIDE DEF s, t
<1>3. \A i \in 1 .. Len(s) : s[i] = t[i]
  BY <1>1, <1>2
<1>4. s = t
  BY Zenon, <1>1, <1>2, <1>3, SameItems
<1> QED BY Zenon, <1>4 DEF s, t

\* A path is its parent and its leaf; the whole of it is its first names and the rest.
LEMMA PathParts ==
  ASSUME NEW p \in Paths
  PROVE  /\ SubSeq(p, 1, Len(p)) = p /\ <<>> \o p = p
         /\ p # <<>> => /\ Parent(p) \in Paths /\ Leaf(p) \in Names
                        /\ Append(Parent(p), Leaf(p)) = p
  BY DEF Paths, Parent, Leaf

LEMMA PathSplit ==
  ASSUME NEW p \in Paths, NEW i \in Nat, NEW k \in Nat, i + k <= Len(p)
  PROVE  /\ SubSeq(p, i + 1, i + k) \in Paths /\ Len(SubSeq(p, i + 1, i + k)) = k
         /\ SubSeq(p, 1, i) \in Paths
         /\ SubSeq(p, 1, i) \o SubSeq(p, i + 1, i + k) = SubSeq(p, 1, i + k)
  BY DEF Paths

-----------------------------------------------------------------------------
\* A slot is given other contents; the host's fds follow.
SlotSet(f, s) ==
  /\ srv' = [srv EXCEPT ![f] = s]
  /\ \A x \in HostFds :
       x \in hfds' <=> (x \in hfds /\ ~(srv[f].used /\ srv[f].fd = x)) \/ (s.used /\ s.fd = x)
  /\ s.used /\ s.fd # NoFd =>
       s.fd \in HostFds /\ (s.fd \notin hfds \/ (srv[f].used /\ srv[f].fd = s.fd))

LEMMA SlotsAfter ==
  ASSUME NineTypes, NEW f \in FidSet, NEW s, srv' = [srv EXCEPT ![f] = s]
  PROVE  srv'[f] = s /\ \A g \in FidSet \ {f} : srv'[g] = srv[g]
  BY Zenon DEF NineTypes

LEMMA FdsStep ==
  ASSUME NineTypes, FdsAgree, NEW f \in FidSet, NEW s, SlotSet(f, s)
  PROVE  /\ FdsAgree'
         /\ \A h \in FidSet \ {f} : srv[h].used /\ IsOpen(srv[h], hfds) => IsOpen(srv'[h], hfds')
<1>1. srv'[f] = s /\ \A g \in FidSet \ {f} : srv'[g] = srv[g]
  BY Zenon, SlotsAfter DEF SlotSet
<1>2. \A g \in FidSet \ {f} : g \in OwnFds' <=> g \in OwnFds
  BY Zenon, <1>1 DEF OwnFds
<1>3. f \in OwnFds' <=> s.used /\ s.fd # NoFd
  BY Zenon, <1>1 DEF OwnFds
<1>4. \A g \in OwnFds : g \in FidSet /\ srv[g].used /\ srv[g].fd # NoFd /\ srv[g].fd \in HostFds /\ srv[g].fd \in hfds
  BY Zenon DEF FdsAgree, OwnFds
<1>5. \A g, h \in OwnFds : srv[g].fd = srv[h].fd => g = h
  BY Zenon DEF FdsAgree
<1>6. OwnFds' \subseteq FidSet /\ NoFd \notin HostFds
  BY NinePAssumption DEF OwnFds, NoFd
<1>7. srv[f].used /\ srv[f].fd \in HostFds => f \in OwnFds
  BY Zenon, <1>6 DEF OwnFds
<1>8. \A g \in OwnFds' : srv'[g].fd \in HostFds
  <2> SUFFICES ASSUME NEW g \in OwnFds' PROVE srv'[g].fd \in HostFds
    BY Zenon
  <2>1. CASE g = f
    BY Zenon, <1>1, <1>3, <2>1 DEF SlotSet
  <2>2. CASE g # f
    BY Zenon, <1>1, <1>2, <1>4, <1>6, <2>2
  <2> QED BY Zenon, <2>1, <2>2
<1>9. ASSUME NEW g \in OwnFds', g # f, f \in OwnFds', srv'[g].fd = s.fd PROVE FALSE
  <2>1. g \in OwnFds /\ srv'[g] = srv[g] /\ srv[g].fd \in hfds
    BY Zenon, <1>1, <1>2, <1>4, <1>6, <1>9
  <2>2. s.used /\ s.fd # NoFd /\ s.fd \in HostFds /\ s.fd \in hfds
    BY Zenon, <1>3, <1>9, <2>1 DEF SlotSet
  <2>3. srv[f].used /\ srv[f].fd = s.fd
    BY Zenon, <2>2 DEF SlotSet
  <2>4. f \in OwnFds
    BY Zenon, <1>7, <2>2, <2>3
  <2> QED BY Zenon, <1>5, <1>9, <2>1, <2>3, <2>4
<1>10. \A g, h \in OwnFds' : srv'[g].fd = srv'[h].fd => g = h
  <2> SUFFICES ASSUME NEW g \in OwnFds', NEW h \in OwnFds', srv'[g].fd = srv'[h].fd PROVE g = h
    BY Zenon
  <2>1. CASE g = f \/ h = f
    BY Zenon, <1>1, <1>9, <2>1
  <2>2. CASE g # f /\ h # f
    BY Zenon, <1>1, <1>2, <1>5, <1>6, <2>2
  <2> QED BY Zenon, <2>1, <2>2
<1>11. \A x \in HostFds : x \in hfds' <=> \E g \in OwnFds' : srv'[g].fd = x
  <2> SUFFICES ASSUME NEW x \in HostFds PROVE x \in hfds' <=> \E g \in OwnFds' : srv'[g].fd = x
    BY Zenon
  <2>1. x \in hfds' <=> (x \in hfds /\ ~(srv[f].used /\ srv[f].fd = x)) \/ (s.used /\ s.fd = x)
    BY Zenon DEF SlotSet
  <2>2. x \in hfds <=> \E g \in OwnFds : srv[g].fd = x
    BY Zenon DEF FdsAgree
  <2>3. ASSUME s.used /\ s.fd = x PROVE f \in OwnFds' /\ srv'[f].fd = x
    BY Zenon, <1>1, <1>3, <1>6, <2>3
  <2>4. ASSUME x \in hfds, ~(srv[f].used /\ srv[f].fd = x) PROVE \E g \in OwnFds' : srv'[g].fd = x
    <3>1. PICK g \in OwnFds : srv[g].fd = x
      BY Zenon, <2>2, <2>4
    <3>2. g # f
      BY Zenon, <1>4, <2>4, <3>1
    <3> QED BY Zenon, <1>1, <1>2, <1>4, <3>1, <3>2
  <2>5. ASSUME NEW g \in OwnFds', srv'[g].fd = x PROVE x \in hfds'
    <3>1. CASE g = f
      BY Zenon, <1>1, <1>3, <2>1, <2>5, <3>1
    <3>2. CASE g # f
      <4>1. g \in OwnFds /\ srv[g].fd = x
        BY Zenon, <1>1, <1>2, <1>6, <2>5, <3>2
      <4>2. ~(srv[f].used /\ srv[f].fd = x)
        BY Zenon, <1>5, <1>7, <3>2, <4>1
      <4> QED BY Zenon, <2>1, <2>2, <4>1, <4>2
    <3> QED BY Zenon, <3>1, <3>2
  <2> QED BY Zenon, <2>1, <2>3, <2>4, <2>5
<1>12. FdsAgree'
  BY Zenon, <1>8, <1>10, <1>11 DEF FdsAgree
<1>13. ASSUME NEW h \in FidSet \ {f}, srv[h].used, IsOpen(srv[h], hfds) PROVE IsOpen(srv'[h], hfds')
  <2>1. srv'[h] = srv[h] /\ h # f
    BY Zenon, <1>1, <1>13
  <2>2. CASE srv[h].listed
    BY Zenon, <2>1, <2>2 DEF IsOpen
  <2>3. CASE srv[h].fd \in HostFds \cap hfds
    <3>1. h \in OwnFds
      BY Zenon, <1>6, <1>13, <2>3 DEF OwnFds
    <3>2. ~(srv[f].used /\ srv[f].fd = srv[h].fd)
      BY Zenon, <1>5, <1>7, <2>1, <2>3, <3>1
    <3>3. srv[h].fd \in hfds'
      BY Zenon, <2>3, <3>2 DEF SlotSet
    <3> QED BY Zenon, <2>1, <2>3, <3>3 DEF IsOpen
  <2> QED BY Zenon, <1>13, <2>2, <2>3 DEF IsOpen
<1> QED BY Zenon, <1>12, <1>13

LEMMA FdsSame ==
  ASSUME FdsAgree, srv' = srv, hfds' = hfds
  PROVE  FdsAgree'
<1>1. OwnFds' = OwnFds
  BY Zenon DEF OwnFds
<1> QED BY <1>1 DEF FdsAgree

\* The server answers a message of a call that is about the call's own fid.
LEMMA ServeKeeps ==
  ASSUME NineTypes, up, FdsAgree, Mounted, F \in nfids \ {0}, ask.st # "io",
         NEW s \in Slots, SlotSet(F, s), NEW r \in Replies, Answer(r), Calling'
  PROVE  NineInv'
<1>1. /\ rsp' = Append(rsp, r) /\ ring' = Tail(ring)
      /\ nfids' = nfids /\ held' = held /\ ask' = ask /\ up' = up
  BY Zenon DEF Answer
<1>2. F \in FidSet /\ F # 0 /\ F' = F /\ 0 \in FidSet
  <2>1. F \in FidSet
    BY Zenon DEF NineTypes
  <2>2. 0 \in FidSet
    BY NinePAssumption DEF FidSet
  <2> QED BY Zenon, <1>1, <2>1, <2>2 DEF F
<1>3. srv'[F] = s /\ \A g \in FidSet \ {F} : srv'[g] = srv[g]
  BY Zenon, <1>2, SlotsAfter DEF SlotSet
<1>4. NineTypes'
  <2>1. srv' \in [FidSet -> Slots]
    BY Zenon, <1>2 DEF NineTypes, SlotSet
  <2>2. rsp' \in Seq(Replies)
    BY Zenon, <1>1, Appended DEF NineTypes
  <2> QED BY Zenon, <1>1, <2>1, <2>2 DEF NineTypes
<1>5. /\ FdsAgree'
      /\ \A h \in FidSet \ {F} : srv[h].used /\ IsOpen(srv[h], hfds) => IsOpen(srv'[h], hfds')
  BY Zenon, <1>2, FdsStep
<1>6. Root'
  BY Zenon, <1>2, <1>3 DEF Root, Mounted
<1>7. \A g \in FidSet \ {F} : srv'[g].used <=> g \in nfids
  BY Zenon, <1>3 DEF Mounted
<1>8. \A h \in DOMAIN held :
        /\ h \in nfids \ {0} /\ (h = F => ask.st = "io")
        /\ srv'[h].path = held[h] /\ IsOpen(srv'[h], hfds')
  <2> SUFFICES ASSUME NEW h \in DOMAIN held
               PROVE  /\ h \in nfids \ {0} /\ (h = F => ask.st = "io")
                      /\ srv'[h].path = held[h] /\ IsOpen(srv'[h], hfds')
    BY Zenon
  <2>1. h \in nfids \ {0} /\ h # F /\ srv[h].path = held[h] /\ IsOpen(srv[h], hfds)
    BY Zenon DEF Mounted
  <2>2. h \in FidSet \ {F} /\ srv[h].used
    BY Zenon, <2>1 DEF Mounted, NineTypes
  <2> QED BY Zenon, <1>3, <1>5, <2>1, <2>2
<1>9. Mounted'
  BY Zenon, <1>1, <1>2, <1>6, <1>7, <1>8 DEF Mounted
<1> QED BY Zenon, <1>1, <1>4, <1>5, <1>9 DEF NineInv

\* The same for a message that changes nothing.
LEMMA RefuseKeeps ==
  ASSUME NineTypes, up, FdsAgree, Mounted, NEW r \in Replies, Refuse(r), Calling'
  PROVE  NineInv'
<1>1. /\ rsp' = Append(rsp, r) /\ ring' = Tail(ring) /\ srv' = srv /\ hfds' = hfds
      /\ nfids' = nfids /\ held' = held /\ ask' = ask /\ up' = up
  BY Zenon DEF Answer, Refuse
<1>2. NineTypes'
  <2>1. rsp' \in Seq(Replies)
    BY Zenon, <1>1, Appended DEF NineTypes
  <2> QED BY Zenon, <1>1, <2>1 DEF NineTypes
<1>3. FdsAgree'
  BY Zenon, <1>1, FdsSame
<1>4. Mounted'
  BY Zenon, <1>1 DEF Mounted, Root, F
<1> QED BY Zenon, <1>1, <1>2, <1>3, <1>4 DEF NineInv

-----------------------------------------------------------------------------
(* The first message of a ring.                                            *)

LEMMA ThreeHeads ==
  ASSUME NEW a, NEW b, NEW c, ring = <<a, b, c>>
  PROVE  Head(ring) = a /\ Tail(ring) = <<b, c>>
  OBVIOUS

LEMMA TwoHeads ==
  ASSUME NEW a, NEW b, ring = <<a, b>>
  PROVE  Head(ring) = a /\ Tail(ring) = <<b>>
  OBVIOUS

LEMMA OneHead ==
  ASSUME NEW a, ring = <<a>>
  PROVE  Head(ring) = a /\ Tail(ring) = <<>>
  OBVIOUS

\* The other messages, by type.
WstatPending == ask.st = "last" /\ Own.used /\ \E name \in Names : ring = <<[t |-> "wstat", fid |-> F, name |-> name]>>
ClunkPending == ask.st \in {"clunk", "statted", "bstat", "free"} /\ ring = <<Tmsg("clunk", F)>>
StatPending ==
  \/ ask.st = "bstat" /\ ring = <<Tmsg("stat", F), Tmsg("clunk", F)>>
  \/ ask.st = "stat" /\ ring = <<Tmsg("stat", F)>> /\ rsp = <<>>
RemovePending == ask.st = "free" /\ ring = <<Tmsg("remove", F)>>

LEMMA HeadIs ==
  /\ WalkPending => Head(ring).t = "walk"
  /\ OpenPending => Head(ring).t = "open" /\ Head(ring).fid = F
  /\ CreatePending => Head(ring).t = "create" /\ Head(ring).fid = F
  /\ WstatPending => Head(ring).t = "wstat" /\ Head(ring).fid = F
  /\ ClunkPending => Head(ring).t = "clunk" /\ Head(ring).fid = F
  /\ StatPending => Head(ring).t = "stat" /\ Head(ring).fid = F
  /\ RemovePending => Head(ring).t = "remove" /\ Head(ring).fid = F
<1>1. WalkPending => Head(ring).t = "walk"
  <2>1. ASSUME NEW f, NEW g, NEW n, NEW a, NEW b
        PROVE  /\ Head(<<Twalk(f, g, n)>>).t = "walk" /\ Head(<<Twalk(f, g, n), a>>).t = "walk"
               /\ Head(<<Twalk(f, g, n), a, b>>).t = "walk"
    BY DEF Twalk
  <2> SUFFICES ASSUME WalkPending PROVE Head(ring).t = "walk"
    BY Zenon
  <2>2. \/ \E f, g, n : ring = <<Twalk(f, g, n)>>
        \/ \E f, g, n, a : ring = <<Twalk(f, g, n), a>>
        \/ \E f, g, n, a, b : ring = <<Twalk(f, g, n), a, b>>
    BY Zenon DEF WalkPending
  <2> QED BY Zenon, <2>1, <2>2
<1>2. OpenPending => Head(ring).t = "open" /\ Head(ring).fid = F
  BY DEF OpenPending, Tmsg
<1>3. CreatePending => Head(ring).t = "create" /\ Head(ring).fid = F
  BY DEF CreatePending, Tcreate
<1>4. WstatPending => Head(ring).t = "wstat" /\ Head(ring).fid = F
  <2> SUFFICES ASSUME NEW name, ring = <<[t |-> "wstat", fid |-> F, name |-> name]>>
               PROVE Head(ring).t = "wstat" /\ Head(ring).fid = F
    BY Zenon DEF WstatPending
  <2> QED OBVIOUS
<1>5. ClunkPending => Head(ring).t = "clunk" /\ Head(ring).fid = F
  BY DEF ClunkPending, Tmsg
<1>6. StatPending => Head(ring).t = "stat" /\ Head(ring).fid = F
  BY DEF StatPending, Tmsg
<1>7. RemovePending => Head(ring).t = "remove" /\ Head(ring).fid = F
  BY DEF RemovePending, Tmsg
<1> QED BY Zenon, <1>1, <1>2, <1>3, <1>4, <1>5, <1>6, <1>7

\* What the message that is served next says of the call.
LEMMA Serving ==
  ASSUME NineInv, NEW t, Serves(t)
  PROVE  \/ t \in {"version", "attach"} /\ Mounting
         \/ /\ NineTypes /\ up /\ FdsAgree /\ Mounted /\ F \in nfids \ {0} /\ F \in FidSet
            /\ \/ t = "walk" /\ WalkPending
               \/ t = "open" /\ OpenPending /\ Head(ring).fid = F
               \/ t = "create" /\ CreatePending /\ Head(ring).fid = F
               \/ t = "wstat" /\ WstatPending /\ Head(ring).fid = F
               \/ t = "clunk" /\ ClunkPending /\ Head(ring).fid = F
               \/ t = "stat" /\ StatPending /\ Head(ring).fid = F
               \/ t = "remove" /\ RemovePending /\ Head(ring).fid = F
               \/ t = "io" /\ ask.st = "io" /\ Own.used /\ ring = <<Tmsg("io", F)>> /\ Head(ring).fid = F
<1>1. NineTypes /\ up /\ FdsAgree /\ (Mounting \/ Mounted) /\ ring # <<>> /\ Head(ring).t = t
  BY Zenon DEF NineInv, Serves
<1>2. CASE Mounting
  <2>1. ring = <<[t |-> "version"]>> \/ ring = <<Tmsg("attach", 0)>>
    BY Zenon, <1>1, <1>2 DEF Mounting
  <2>2. Head(<<[t |-> "version"]>>).t = "version" /\ Head(<<Tmsg("attach", 0)>>).t = "attach"
    BY DEF Tmsg
  <2>3. t = "version" \/ t = "attach"
    BY Zenon, <1>1, <2>1, <2>2
  <2> QED BY Zenon, <1>2, <2>3
<1>3. CASE Mounted
  <2>1. Calling
    BY Zenon, <1>1, <1>3 DEF Mounted
  <2>2. F \in nfids \ {0} /\ F \in FidSet
    BY Zenon, <1>1, <2>1 DEF Calling, NineTypes
  <2>3. \/ WalkPending \/ OpenPending \/ CreatePending \/ WstatPending \/ ClunkPending
        \/ StatPending \/ RemovePending
        \/ ask.st = "io" /\ Own.used /\ ring = <<Tmsg("io", F)>>
    BY Zenon, <1>1, <2>1
       DEF Calling, LastPending, Replied, WstatPending, ClunkPending, StatPending, RemovePending
  <2>4. ring = <<Tmsg("io", F)>> => Head(ring).t = "io" /\ Head(ring).fid = F
    BY DEF Tmsg
  <2> QED BY Zenon, <1>1, <1>3, <2>2, <2>3, <2>4, HeadIs
<1> QED BY Zenon, <1>1, <1>2, <1>3

\* The state of a call after an answer.
LEMMA Answered ==
  ASSUME NineTypes, F \in FidSet, NEW s, SlotSet(F, s), NEW r, Answer(r)
  PROVE  /\ ask' = ask /\ F' = F /\ Own' = s /\ nfids' = nfids /\ up' = up /\ held' = held
         /\ ring' = Tail(ring) /\ rsp' = Append(rsp, r)
<1>1. ask' = ask /\ nfids' = nfids /\ up' = up /\ held' = held /\ ring' = Tail(ring) /\ rsp' = Append(rsp, r)
  BY Zenon DEF Answer
<1>2. F' = F
  BY Zenon, <1>1 DEF F
<1>3. srv'[F] = s
  BY Zenon, SlotsAfter DEF SlotSet
<1> QED BY Zenon, <1>1, <1>2, <1>3 DEF Own

LEMMA FirstReply ==
  ASSUME NEW r, rsp = <<>>
  PROVE  Append(rsp, r)[1] = r /\ Len(Append(rsp, r)) = 1
  OBVIOUS

LEMMA Second ==
  ASSUME NEW S, NEW q \in Seq(S), NEW e, Len(q) = 1
  PROVE  Len(Append(q, e)) = 2 /\ Append(q, e)[1] = q[1] /\ Append(q, e)[2] = e
<1>1. PICK a : a = q[1]
  BY Zenon
<1>2. q = <<a>>
  BY <1>1
<1>3. Len(Append(<<a>>, e)) = 2 /\ Append(<<a>>, e)[1] = a /\ Append(<<a>>, e)[2] = e
  OBVIOUS
<1> QED BY Zenon, <1>1, <1>2, <1>3

\* Nothing is done to the slot.
LEMMA SameSlot ==
  ASSUME NineTypes, FdsAgree, F \in FidSet, srv' = srv, hfds' = hfds
  PROVE  SlotSet(F, Own) /\ Own \in Slots
<1>1. srv' = [srv EXCEPT ![F] = srv[F]] /\ srv[F] \in Slots
  BY Zenon DEF NineTypes
<1>2. srv[F].used /\ srv[F].fd # NoFd => srv[F].fd \in HostFds /\ srv[F].fd \in hfds
  BY Zenon DEF FdsAgree, OwnFds
<1>3. NoFd \notin HostFds
  BY NinePAssumption DEF NoFd
<1>4. \A x \in HostFds :
        x \in hfds <=> (x \in hfds /\ ~(srv[F].used /\ srv[F].fd = x)) \/ (srv[F].used /\ srv[F].fd = x)
  BY Zenon, <1>2, <1>3
<1> QED BY Zenon, <1>1, <1>2, <1>4 DEF SlotSet, Own

\* bind_fid
LEMMA BindSets ==
  ASSUME NineTypes, FdsAgree, NEW f \in FidSet, NEW path \in Paths, NEW d \in BOOLEAN, Bind(f, path, d)
  PROVE  SlotSet(f, Slot(TRUE, d, NoFd, path)) /\ Slot(TRUE, d, NoFd, path) \in Slots
<1> DEFINE s == Slot(TRUE, d, NoFd, path)
<1>1. s \in Slots /\ s.fd = NoFd
  BY Zenon DEF Slot, Slots
<1>2. srv' = [srv EXCEPT ![f] = s] /\ hfds' = IF srv[f].used THEN hfds \ OwnFd(f) ELSE hfds
  BY Zenon DEF Bind
<1> HIDE DEF s
<1>3. NoFd \notin HostFds
  BY NinePAssumption DEF NoFd
<1>4. \A x \in HostFds :
        x \in hfds' <=> (x \in hfds /\ ~(srv[f].used /\ srv[f].fd = x)) \/ (s.used /\ s.fd = x)
  BY Zenon, <1>1, <1>2, <1>3 DEF OwnFd
<1>5. SlotSet(f, s)
  BY Zenon, <1>1, <1>2, <1>4 DEF SlotSet
<1> QED BY Zenon, <1>1, <1>5 DEF s

\* What a Twalk from a bound fid comes to.
LEMMA WalkOutcome ==
  ASSUME NineTypes, FdsAgree, F \in FidSet, ServeWalk, NEW from \in FidSet, NEW names \in Paths,
         Head(ring).fid = from, Head(ring).newfid = F, Head(ring).names = names, srv[from].used
  PROVE  \E r \in Replies :
           /\ Answer(r)
           /\ IF r.t = "walk" /\ r.n = Len(names)
              THEN \E d \in BOOLEAN :
                     /\ SlotSet(F, Slot(TRUE, d, NoFd, srv[from].path \o names))
                     /\ Slot(TRUE, d, NoFd, srv[from].path \o names) \in Slots
              ELSE SlotSet(F, Own) /\ Own \in Slots
<1> DEFINE base == srv[from]
           Way(n) == base.path \o SubSeq(names, 1, n)
<1>0. PICK nq \in 0 .. Len(names) :
        \/ Refuse(Error)
        \/ /\ IF Arrived(nq, names)
              THEN Bind(F, Way(nq), IF nq = 0 THEN base.isdir ELSE Kind(Way(nq)) = "d")
              ELSE UNCHANGED <<hfds, srv>>
           /\ Answer([t |-> "walk", n |-> nq, dir |-> nq = 0 \/ Kind(Way(nq)) = "d"])
  BY Zenon DEF ServeWalk
<1> DEFINE end == Way(nq)
           r == [t |-> "walk", n |-> nq, dir |-> nq = 0 \/ Kind(end) = "d"]
           d == IF nq = 0 THEN base.isdir ELSE Kind(end) = "d"
<1>1. Len(names) \in Nat /\ base \in Slots
  <2>1. Len(names) \in Nat
    BY DEF Paths
  <2> QED BY Zenon, <2>1 DEF NineTypes
<1>2. \/ Refuse(Error)
      \/ /\ IF Arrived(nq, names) THEN Bind(F, end, d) ELSE UNCHANGED <<hfds, srv>>
         /\ Answer(r)
  BY Zenon, <1>0
<1>3. r \in Replies /\ r.t = "walk" /\ r.n = nq
  <2> HIDE DEF end
  <2> QED BY <1>1 DEF Replies
<1>4. Error \in Replies /\ Error.t # "walk"
  BY Zenon DEF Error, Reply, Replies
<1>5. d \in BOOLEAN
  <2> HIDE DEF end
  <2>1. base.isdir \in BOOLEAN
    BY Zenon, <1>1 DEF Slots
  <2> QED BY Zenon, <2>1
<1>6. nq = Len(names) => end = base.path \o names
  <2>1. SubSeq(names, 1, Len(names)) = names
    BY Zenon, PathParts
  <2> QED BY Zenon, <2>1
<1>7. base.path \o names \in Paths
  <2> HIDE DEF base
  <2> QED BY Zenon, <1>1, Joined DEF Slots, Paths
<1> HIDE DEF r, end, d, base
<1>8. CASE Refuse(Error)
  <2>1. Answer(Error) /\ srv' = srv /\ hfds' = hfds
    BY Zenon, <1>8 DEF Refuse
  <2>2. SlotSet(F, Own) /\ Own \in Slots
    BY Zenon, <2>1, SameSlot
  <2> QED BY Zenon, <1>4, <2>1, <2>2
<1>9. CASE Answer(r) /\ ~Arrived(nq, names) /\ UNCHANGED <<hfds, srv>>
  <2>1. SlotSet(F, Own) /\ Own \in Slots
    BY Zenon, <1>9, SameSlot
  <2>2. r.n # Len(names)
    BY Zenon, <1>3, <1>9 DEF Arrived
  <2> QED BY Zenon, <1>3, <1>9, <2>1, <2>2
<1>10. CASE Answer(r) /\ Arrived(nq, names) /\ Bind(F, end, d)
  <2>1. nq = Len(names) /\ end = base.path \o names
    BY Zenon, <1>6, <1>10 DEF Arrived
  <2>2. Bind(F, base.path \o names, d)
    BY Zenon, <1>10, <2>1
  <2>3. /\ SlotSet(F, Slot(TRUE, d, NoFd, base.path \o names))
        /\ Slot(TRUE, d, NoFd, base.path \o names) \in Slots
    BY Zenon, <1>5, <1>7, <2>2, BindSets
  <2> QED BY Zenon, <1>3, <1>5, <1>10, <2>1, <2>3 DEF base
<1> QED BY Zenon, <1>2, <1>8, <1>9, <1>10

\* What a walk's answer must bring about.
WalkLeadsOn(from, names) ==
  \A r \in Replies, s \in Slots :
    /\ ask' = ask /\ F' = F /\ Own' = s /\ nfids' = nfids /\ ring' = Tail(ring)
    /\ Len(rsp') = 1 /\ rsp'[1] = r
    /\ IF r.t = "walk" /\ r.n = Len(names)
       THEN s.used /\ s.fd = NoFd /\ s.path = srv[from].path \o names ELSE s = Own
    => Calling'

\* One walk of a call from a bound fid: r is the answer, and the fid is bound if it says so.
LEMMA WalkServed ==
  ASSUME NineInv, NineTypes, up, FdsAgree, Mounted, F \in nfids \ {0}, F \in FidSet, ServeWalk,
         ask.st # "io", rsp = <<>>,
         NEW from \in FidSet, srv[from].used, NEW names \in Paths, Head(ring) = Twalk(from, F, names),
         WalkLeadsOn(from, names)
  PROVE  NineInv'
<1>1. Head(ring).fid = from /\ Head(ring).newfid = F /\ Head(ring).names = names
  BY DEF Twalk
<1>2. PICK r \in Replies :
        /\ Answer(r)
        /\ IF r.t = "walk" /\ r.n = Len(names)
           THEN \E d \in BOOLEAN :
                  /\ SlotSet(F, Slot(TRUE, d, NoFd, srv[from].path \o names))
                  /\ Slot(TRUE, d, NoFd, srv[from].path \o names) \in Slots
           ELSE SlotSet(F, Own) /\ Own \in Slots
  BY Zenon, <1>1, WalkOutcome
<1>3. PICK s \in Slots :
        /\ SlotSet(F, s)
        /\ IF r.t = "walk" /\ r.n = Len(names)
           THEN s.used /\ s.fd = NoFd /\ s.path = srv[from].path \o names ELSE s = Own
  <2>1. CASE r.t = "walk" /\ r.n = Len(names)
    <3>1. PICK d \in BOOLEAN :
            /\ SlotSet(F, Slot(TRUE, d, NoFd, srv[from].path \o names))
            /\ Slot(TRUE, d, NoFd, srv[from].path \o names) \in Slots
      BY Zenon, <1>2, <2>1
    <3> DEFINE s == Slot(TRUE, d, NoFd, srv[from].path \o names)
    <3>2. s.used /\ s.fd = NoFd /\ s.path = srv[from].path \o names
      BY Zenon DEF Slot
    <3> HIDE DEF s
    <3>3. SlotSet(F, s) /\ s \in Slots
      BY Zenon, <3>1 DEF s
    <3> QED BY Zenon, <2>1, <3>2, <3>3
  <2>2. CASE ~(r.t = "walk" /\ r.n = Len(names))
    BY Zenon, <1>2, <2>2
  <2> QED BY Zenon, <2>1, <2>2
<1>4. /\ ask' = ask /\ F' = F /\ Own' = s /\ nfids' = nfids /\ ring' = Tail(ring) /\ rsp' = Append(rsp, r)
  BY Zenon, <1>2, <1>3, Answered
<1>5. Len(rsp') = 1 /\ rsp'[1] = r
  BY Zenon, <1>4, FirstReply
<1>6. Calling'
  BY Zenon, <1>3, <1>4, <1>5 DEF WalkLeadsOn
<1> QED BY Zenon, <1>2, <1>3, <1>6, ServeKeeps

LEMMA AskIs ==
  ASSUME NineTypes
  PROVE  /\ ask.path \in Paths /\ ask.rel \in Paths /\ ask.off \in Nat /\ ask.k \in Nat
         /\ ask.fid \in FidSet /\ ask.to \in Names
  BY Zenon DEF NineTypes, AskTypes

LEMMA WalkKeeps ==
  ASSUME NineInv, ServeWalk
  PROVE  NineInv'
<1>1. /\ NineTypes /\ up /\ FdsAgree /\ Mounted /\ F \in nfids \ {0} /\ F \in FidSet /\ WalkPending
  <2>1. Serves("walk")
    BY Zenon DEF ServeWalk
  <2> QED BY <2>1, Serving
<1>2. rsp = <<>> /\ ask.path \in Paths /\ ask.rel \in Paths /\ ask.off \in Nat /\ ask.k \in Nat
  BY Zenon, <1>1, AskIs DEF WalkPending
<1>3. 0 \in FidSet /\ srv[0].used /\ srv[0].path = <<>>
  <2>1. 0 \in FidSet
    BY NinePAssumption DEF FidSet
  <2> QED BY Zenon, <1>1, <2>1 DEF Mounted, Root
<1>4. \A p \in Paths : srv[0].path \o p = p
  BY Zenon, <1>3, PathParts
<1>5. CASE Bopen /\ ring = <<Twalk(0, F, ask.path), Tmsg("open", F)>> /\ ~Own.used
  <2>1. Head(ring) = Twalk(0, F, ask.path) /\ Tail(ring) = <<Tmsg("open", F)>>
    BY Zenon, <1>5, TwoHeads
  <2>2. ask.st # "io"
    BY Zenon, <1>5 DEF Bopen
  <2>3. ASSUME NEW r \in Replies, NEW s \in Slots,
               ask' = ask, F' = F, Own' = s, nfids' = nfids, ring' = Tail(ring), Len(rsp') = 1, rsp'[1] = r,
               IF r.t = "walk" /\ r.n = Len(ask.path)
               THEN s.used /\ s.fd = NoFd /\ s.path = srv[0].path \o ask.path ELSE s = Own
        PROVE  Calling'
    <3>1. Bopen' /\ ring' = <<Tmsg("open", F)>> /\ ask'.rel = ask.path /\ ask'.path = ask.path
      BY Zenon, <1>5, <2>1, <2>3 DEF Bopen
    <3>2. (s.used <=> Full(r, ask.path)) /\ (s.used => s.fd = NoFd /\ s.path = ask.path)
      BY Zenon, <1>2, <1>4, <1>5, <2>3 DEF Full
    <3>3. OpenPending'
      BY Zenon, <2>3, <3>1, <3>2 DEF OpenPending
    <3> QED BY Zenon, <1>1, <2>3, <3>3 DEF Calling
  <2>9. WalkLeadsOn(0, ask.path)
    BY Zenon, <2>3 DEF WalkLeadsOn
  <2> QED BY Zenon, <1>1, <1>2, <1>3, <2>1, <2>2, <2>9, WalkServed
<1>6. CASE Walking /\ ask.off = 0 /\ ring = <<Twalk(0, F, SubSeq(ask.path, 1, ask.k))>> /\ ~Own.used
  <2> DEFINE names == SubSeq(ask.path, 1, ask.k)
  <2>1. names \in Paths /\ Len(names) = ask.k /\ ask.off + ask.k = ask.k
    <3>1. ask.off + ask.k <= Len(ask.path) /\ ask.off = 0 /\ Len(ask.path) \in Nat
      BY <1>2, <1>6 DEF Walking, Paths
    <3>2. 0 + ask.k <= Len(ask.path) /\ 0 \in Nat /\ 0 + 1 = 1 /\ 0 + ask.k = ask.k
      BY <1>2, <3>1
    <3>3. SubSeq(ask.path, 0 + 1, 0 + ask.k) \in Paths /\ Len(SubSeq(ask.path, 0 + 1, 0 + ask.k)) = ask.k
      BY Zenon, <1>2, <3>2, PathSplit
    <3> QED BY Zenon, <3>1, <3>2, <3>3
  <2>2. Head(ring) = Twalk(0, F, names) /\ Tail(ring) = <<>>
    BY Zenon, <1>6, OneHead
  <2>3. ask.st # "io"
    BY Zenon, <1>6 DEF Walking
  <2>4. ASSUME NEW r \in Replies, NEW s \in Slots,
               ask' = ask, F' = F, Own' = s, nfids' = nfids, ring' = Tail(ring), Len(rsp') = 1, rsp'[1] = r,
               IF r.t = "walk" /\ r.n = Len(names)
               THEN s.used /\ s.fd = NoFd /\ s.path = srv[0].path \o names ELSE s = Own
        PROVE  Calling'
    <3> HIDE DEF names
    <3>1. Walking' /\ ring' = <<>> /\ ask'.off = 0
      BY Zenon, <1>6, <2>2, <2>4 DEF Walking
    <3>2. (s.used <=> Got(r)) /\ (Got(r) => s.fd = NoFd /\ s.path = names)
      BY Zenon, <1>4, <1>6, <2>1, <2>4 DEF Got
    <3>3. Got(rsp[1])' <=> Got(r)
      BY Zenon, <2>4 DEF Got
    <3>4. names = SubSeq(ask'.path, 1, ask'.off + ask'.k)
      BY Zenon, <2>1, <2>4 DEF names
    <3>5. Replied'
      BY Zenon, <2>4, <3>1, <3>2, <3>3, <3>4 DEF Replied
    <3> QED BY Zenon, <1>1, <2>4, <3>5 DEF Calling
  <2>9. WalkLeadsOn(0, names)
    BY Zenon, <2>4 DEF WalkLeadsOn
  <2> HIDE DEF names
  <2> QED BY Zenon, <1>1, <1>2, <1>3, <2>1, <2>2, <2>3, <2>9, WalkServed
<1>7. CASE /\ Walking /\ ask.off # 0
           /\ ring = <<Twalk(F, F, SubSeq(ask.path, ask.off + 1, ask.off + ask.k))>>
           /\ Own.used /\ Own.fd = NoFd /\ Own.path = SubSeq(ask.path, 1, ask.off)
  <2> DEFINE names == SubSeq(ask.path, ask.off + 1, ask.off + ask.k)
  <2>1. names \in Paths /\ Len(names) = ask.k
        /\ srv[F].path \o names = SubSeq(ask.path, 1, ask.off + ask.k)
    <3>1. ask.off + ask.k <= Len(ask.path)
      BY Zenon, <1>7 DEF Walking
    <3>2. srv[F].path = SubSeq(ask.path, 1, ask.off)
      BY Zenon, <1>7 DEF Own
    <3>3. /\ SubSeq(ask.path, ask.off + 1, ask.off + ask.k) \in Paths
          /\ Len(SubSeq(ask.path, ask.off + 1, ask.off + ask.k)) = ask.k
          /\ SubSeq(ask.path, 1, ask.off) \o SubSeq(ask.path, ask.off + 1, ask.off + ask.k)
             = SubSeq(ask.path, 1, ask.off + ask.k)
      BY Zenon, <1>2, <3>1, PathSplit
    <3> QED BY Zenon, <3>2, <3>3
  <2>2. Head(ring) = Twalk(F, F, names) /\ Tail(ring) = <<>>
    BY Zenon, <1>7, OneHead
  <2>3. ask.st # "io" /\ srv[F].used
    BY Zenon, <1>7 DEF Walking, Own
  <2>4. ASSUME NEW r \in Replies, NEW s \in Slots,
               ask' = ask, F' = F, Own' = s, nfids' = nfids, ring' = Tail(ring), Len(rsp') = 1, rsp'[1] = r,
               IF r.t = "walk" /\ r.n = Len(names)
               THEN s.used /\ s.fd = NoFd /\ s.path = srv[F].path \o names ELSE s = Own
        PROVE  Calling'
    <3> HIDE DEF names
    <3>1. Walking' /\ ring' = <<>> /\ ask'.off # 0
      BY Zenon, <1>7, <2>2, <2>4 DEF Walking
    <3>2. s.used /\ (Got(r) => s.fd = NoFd /\ s.path = SubSeq(ask'.path, 1, ask'.off + ask'.k))
      BY Zenon, <1>7, <2>1, <2>4 DEF Got
    <3>3. Got(rsp[1])' <=> Got(r)
      BY Zenon, <2>4 DEF Got
    <3>4. Replied'
      BY Zenon, <2>4, <3>1, <3>2, <3>3 DEF Replied
    <3> QED BY Zenon, <1>1, <2>4, <3>4 DEF Calling
  <2>9. WalkLeadsOn(F, names)
    BY Zenon, <2>4 DEF WalkLeadsOn
  <2> HIDE DEF names
  <2> QED BY Zenon, <1>1, <1>2, <2>1, <2>2, <2>3, <2>9, WalkServed
<1>8. CASE ask.st = "bstat" /\ ring = <<Twalk(0, F, ask.path), Tmsg("stat", F), Tmsg("clunk", F)>>
  <2>1. Head(ring) = Twalk(0, F, ask.path) /\ Tail(ring) = <<Tmsg("stat", F), Tmsg("clunk", F)>>
    BY Zenon, <1>8, ThreeHeads
  <2>2. ask.st # "io"
    BY Zenon, <1>8
  <2>3. ASSUME NEW r \in Replies, NEW s \in Slots,
               ask' = ask, F' = F, Own' = s, nfids' = nfids, ring' = Tail(ring), Len(rsp') = 1, rsp'[1] = r
        PROVE  Calling'
    <3>1. LastPending'
      BY Zenon, <1>8, <2>1, <2>3 DEF LastPending
    <3> QED BY Zenon, <1>1, <2>3, <3>1 DEF Calling
  <2>9. WalkLeadsOn(0, ask.path)
    BY Zenon, <2>3 DEF WalkLeadsOn
  <2> QED BY Zenon, <1>1, <1>2, <1>3, <2>1, <2>2, <2>9, WalkServed
<1>9. CASE ask.st = "free" /\ ring = <<Twalk(0, F, ask.path), Tmsg("remove", F)>>
  <2>1. Head(ring) = Twalk(0, F, ask.path) /\ Tail(ring) = <<Tmsg("remove", F)>>
    BY Zenon, <1>9, TwoHeads
  <2>2. ask.st # "io"
    BY Zenon, <1>9
  <2>3. ASSUME NEW r \in Replies, NEW s \in Slots,
               ask' = ask, F' = F, Own' = s, nfids' = nfids, ring' = Tail(ring), Len(rsp') = 1, rsp'[1] = r
        PROVE  Calling'
    <3>1. LastPending'
      BY Zenon, <1>9, <2>1, <2>3 DEF LastPending
    <3> QED BY Zenon, <1>1, <2>3, <3>1 DEF Calling
  <2>9. WalkLeadsOn(0, ask.path)
    BY Zenon, <2>3 DEF WalkLeadsOn
  <2> QED BY Zenon, <1>1, <1>2, <1>3, <2>1, <2>2, <2>9, WalkServed
<1>10. CASE ask.st = "free" /\ \E name \in Names :
              ring = <<Twalk(0, F, ask.path), Tcreate(F, name, TRUE), Tmsg("clunk", F)>>
  <2>1. PICK name \in Names : ring = <<Twalk(0, F, ask.path), Tcreate(F, name, TRUE), Tmsg("clunk", F)>>
    BY Zenon, <1>10
  <2>2. /\ Head(ring) = Twalk(0, F, ask.path)
        /\ Tail(ring) = <<Tcreate(F, name, TRUE), Tmsg("clunk", F)>>
    BY Zenon, <2>1, ThreeHeads
  <2>3. ask.st # "io"
    BY Zenon, <1>10
  <2>4. ASSUME NEW r \in Replies, NEW s \in Slots,
               ask' = ask, F' = F, Own' = s, nfids' = nfids, ring' = Tail(ring), Len(rsp') = 1, rsp'[1] = r
        PROVE  Calling'
    <3>1. CreatePending'
      BY Zenon, <1>10, <2>2, <2>4 DEF CreatePending
    <3> QED BY Zenon, <1>1, <2>4, <3>1 DEF Calling
  <2>9. WalkLeadsOn(0, ask.path)
    BY Zenon, <2>4 DEF WalkLeadsOn
  <2> QED BY Zenon, <1>1, <1>2, <1>3, <2>2, <2>3, <2>9, WalkServed
<1> QED BY Zenon, <1>1, <1>5, <1>6, <1>7, <1>8, <1>9, <1>10 DEF WalkPending

\* The other messages: r is the answer and s the slot after it.
LEMMA Served ==
  ASSUME NineTypes, up, FdsAgree, Mounted, F \in nfids \ {0}, F \in FidSet, ask.st # "io",
         NEW r \in Replies, Answer(r), NEW s \in Slots, SlotSet(F, s),
         /\ ask' = ask /\ F' = F /\ Own' = s /\ nfids' = nfids /\ ring' = Tail(ring)
         /\ rsp' = Append(rsp, r)
         => WalkPending' \/ OpenPending' \/ CreatePending' \/ LastPending' \/ Replied'
  PROVE  NineInv'
<1>1. /\ ask' = ask /\ F' = F /\ Own' = s /\ nfids' = nfids /\ ring' = Tail(ring)
      /\ rsp' = Append(rsp, r)
  BY Zenon, Answered
<1>2. Calling'
  BY Zenon, <1>1 DEF Calling
<1> QED BY Zenon, <1>2, ServeKeeps

\* What a Topen comes to.
LEMMA OpenOutcome ==
  ASSUME NineTypes, FdsAgree, F \in FidSet, ServeOpen, Head(ring).fid = F, Own.used => Own.fd = NoFd
  PROVE  \E r \in Replies, s \in Slots :
           /\ Answer(r) /\ SlotSet(F, s)
           /\ s.used <=> Own.used
           /\ Own.used => s.path = Own.path
           /\ Own.used /\ r.t = "open" => IsOpen(s, hfds')
           /\ r.t # "create"
<1>1. Own \in Slots /\ NoFd \notin HostFds
  BY NinePAssumption DEF Own, NineTypes, NoFd
<1>2. CASE Refuse(Error)
  <2>1. Answer(Error) /\ srv' = srv /\ hfds' = hfds
    BY Zenon, <1>2 DEF Refuse
  <2>2. SlotSet(F, Own) /\ Own \in Slots
    BY Zenon, <2>1, SameSlot
  <2>3. Error.t # "open" /\ Error.t # "create" /\ Error \in Replies
    BY Zenon DEF Error, Reply, Replies
  <2> QED BY Zenon, <2>1, <2>2, <2>3
<1>3. ASSUME Own.used, NEW ok \in BOOLEAN,
             srv' = [srv EXCEPT ![F].isdir = TRUE, ![F].listed = @ \/ ok],
             Answer(IF ok \/ srv[F].listed THEN Reply("open") ELSE Error), hfds' = hfds
      PROVE  \E r \in Replies, s \in Slots :
               /\ Answer(r) /\ SlotSet(F, s) /\ s.used /\ s.path = Own.path
               /\ r.t = "open" => IsOpen(s, hfds')
               /\ r.t # "create"
  <2> DEFINE s == [Own EXCEPT !.isdir = TRUE, !.listed = @ \/ ok]
             r == IF ok \/ srv[F].listed THEN Reply("open") ELSE Error
  <2>1. s \in Slots /\ s.used /\ s.path = Own.path /\ s.fd = NoFd /\ (s.listed <=> Own.listed \/ ok)
    BY Zenon, <1>1, <1>3 DEF Slots
  <2>2. srv' = [srv EXCEPT ![F] = s]
    BY Zenon, <1>3 DEF Own, NineTypes
  <2>3. r \in Replies /\ r.t # "create" /\ (r.t = "open" => ok \/ Own.listed)
    BY Zenon DEF Replies, Reply, Error, Own
  <2>4. Answer(r)
    BY Zenon, <1>3
  <2> HIDE DEF s, r
  <2>5. SlotSet(F, s)
    <3>1. srv[F].used /\ srv[F].fd = NoFd
      BY Zenon, <1>3 DEF Own
    <3> QED BY Zenon, <1>1, <1>3, <2>1, <2>2, <3>1 DEF SlotSet
  <2>6. r.t = "open" => IsOpen(s, hfds')
    BY Zenon, <2>1, <2>3 DEF IsOpen
  <2> QED BY Zenon, <2>1, <2>3, <2>4, <2>5, <2>6
<1>4. ASSUME Own.used, NEW fd \in (HostFds \ hfds) \cup {NoFd},
             srv' = [srv EXCEPT ![F].isdir = FALSE, ![F].fd = fd],
             hfds' = hfds \cup ({fd} \ {NoFd}),
             Answer(IF fd = NoFd THEN Error ELSE Reply("open"))
      PROVE  \E r \in Replies, s \in Slots :
               /\ Answer(r) /\ SlotSet(F, s) /\ s.used /\ s.path = Own.path
               /\ r.t = "open" => IsOpen(s, hfds')
               /\ r.t # "create"
  <2> DEFINE s == [Own EXCEPT !.isdir = FALSE, !.fd = fd]
             r == IF fd = NoFd THEN Error ELSE Reply("open")
  <2>1. s \in Slots /\ s.used /\ s.path = Own.path /\ s.fd = fd
    BY Zenon, <1>1, <1>4 DEF Slots
  <2>2. srv' = [srv EXCEPT ![F] = s]
    BY Zenon, <1>4 DEF Own, NineTypes
  <2>3. r \in Replies /\ r.t # "create" /\ (r.t = "open" => fd # NoFd)
    BY Zenon DEF Replies, Reply, Error
  <2>4. Answer(r)
    BY Zenon, <1>4
  <2> HIDE DEF s, r
  <2>5. SlotSet(F, s)
    <3>1. srv[F].used /\ srv[F].fd = NoFd
      BY Zenon, <1>4 DEF Own
    <3>2. \A x \in HostFds : x \in hfds' <=> x \in hfds \/ fd = x
      BY Zenon, <1>1, <1>4
    <3> QED BY Zenon, <1>1, <1>4, <2>1, <2>2, <3>1, <3>2 DEF SlotSet
  <2>6. r.t = "open" => IsOpen(s, hfds')
    BY Zenon, <1>4, <2>1, <2>3 DEF IsOpen
  <2> QED BY Zenon, <2>1, <2>3, <2>4, <2>5, <2>6
<1>5. \/ Refuse(Error)
      \/ Own.used /\ \E ok \in BOOLEAN :
           /\ srv' = [srv EXCEPT ![F].isdir = TRUE, ![F].listed = @ \/ ok]
           /\ Answer(IF ok \/ srv[F].listed THEN Reply("open") ELSE Error) /\ hfds' = hfds
      \/ Own.used /\ \E fd \in (HostFds \ hfds) \cup {NoFd} :
           /\ srv' = [srv EXCEPT ![F].isdir = FALSE, ![F].fd = fd]
           /\ hfds' = hfds \cup ({fd} \ {NoFd})
           /\ Answer(IF fd = NoFd THEN Error ELSE Reply("open"))
  BY Zenon DEF ServeOpen, Own
<1> QED BY Zenon, <1>2, <1>3, <1>4, <1>5

LEMMA OpenKeeps ==
  ASSUME NineInv, ServeOpen
  PROVE  NineInv'
<1>1. /\ NineTypes /\ up /\ FdsAgree /\ Mounted /\ F \in nfids \ {0} /\ F \in FidSet
      /\ OpenPending /\ Head(ring).fid = F
  <2>1. Serves("open")
    BY Zenon DEF ServeOpen
  <2> QED BY <2>1, Serving
<1>2. Own.used => Own.fd = NoFd /\ Own.path = ask.rel
  BY Zenon, <1>1 DEF OpenPending
<1>3. PICK r \in Replies, s \in Slots :
           /\ Answer(r) /\ SlotSet(F, s)
           /\ s.used <=> Own.used
           /\ Own.used => s.path = Own.path
           /\ Own.used /\ r.t = "open" => IsOpen(s, hfds')
           /\ r.t # "create"
  BY Zenon, <1>1, <1>2, OpenOutcome
<1>4. ask.st # "io" /\ ring = <<Tmsg("open", F)>> /\ Tail(ring) = <<>>
  BY Zenon, <1>1, OneHead DEF OpenPending, Bopen
<1>5. ASSUME ask' = ask, F' = F, Own' = s, nfids' = nfids, ring' = Tail(ring), rsp' = Append(rsp, r)
      PROVE  WalkPending' \/ OpenPending' \/ CreatePending' \/ LastPending' \/ Replied'
  <2>1. CASE /\ Bopen /\ Len(rsp) = 1
             /\ (Own.used <=> Full(rsp[1], ask.path)) /\ (Own.used => Own.path = ask.rel)
    <3>1. Len(rsp') = 2 /\ rsp'[1] = rsp[1] /\ rsp'[2] = r
      <4>1. rsp \in Seq(Replies) /\ Len(rsp) = 1
        BY Zenon, <1>1, <2>1 DEF NineTypes
      <4>2. Len(Append(rsp, r)) = 2 /\ Append(rsp, r)[1] = rsp[1] /\ Append(rsp, r)[2] = r
        BY Zenon, <4>1, Second
      <4> QED BY Zenon, <1>5, <4>2
    <3>2. Bopen'
      BY Zenon, <1>5, <2>1 DEF Bopen
    <3> QED BY Zenon, <1>3, <1>4, <1>5, <2>1, <3>1, <3>2 DEF Replied
  <2>2. CASE ask.st = "opened" /\ rsp = <<>> /\ Own.used /\ Own.path = ask.rel
    <3>1. Len(rsp') = 1 /\ rsp'[1] = r
      BY Zenon, <1>5, <2>2, FirstReply
    <3> QED BY Zenon, <1>3, <1>4, <1>5, <2>2, <3>1 DEF Replied
  <2> QED BY Zenon, <1>1, <2>1, <2>2 DEF OpenPending
<1> QED BY Zenon, <1>1, <1>3, <1>4, <1>5, Served

\* A slot that keeps its fd.
LEMMA KeptFd ==
  ASSUME NineTypes, FdsAgree, F \in FidSet, NEW s, srv' = [srv EXCEPT ![F] = s], hfds' = hfds,
         s.used <=> Own.used, s.fd = Own.fd
  PROVE  SlotSet(F, s)
<1>2. srv[F].used /\ srv[F].fd # NoFd => srv[F].fd \in HostFds /\ srv[F].fd \in hfds
  BY Zenon DEF FdsAgree, OwnFds
<1>3. NoFd \notin HostFds
  BY NinePAssumption DEF NoFd
<1>4. \A x \in HostFds :
        x \in hfds <=> (x \in hfds /\ ~(srv[F].used /\ srv[F].fd = x)) \/ (srv[F].used /\ srv[F].fd = x)
  BY Zenon, <1>2, <1>3
<1> QED BY Zenon, <1>2, <1>4 DEF SlotSet, Own

\* What a Tcreate comes to.
LEMMA CreateOutcome ==
  ASSUME NineTypes, FdsAgree, F \in FidSet, ServeCreate, NEW name \in Names, NEW d \in BOOLEAN,
         Head(ring).fid = F, Head(ring).name = name, Head(ring).isdir = d,
         Own.used /\ ~d => Own.fd = NoFd
  PROVE  \E r \in Replies, s \in Slots :
           /\ Answer(r) /\ SlotSet(F, s)
           /\ s.used <=> Own.used
           /\ Own.used /\ ~d /\ r.t \in {"open", "create"} => s.path = Append(Own.path, name) /\ IsOpen(s, hfds')
<1> DEFINE path == Append(Own.path, name)
<1>1. Own \in Slots /\ NoFd \notin HostFds
  BY NinePAssumption DEF Own, NineTypes, NoFd
<1>2. path \in Paths
  BY Zenon, <1>1, Appended DEF Slots, Paths
<1> HIDE DEF path
<1>3. Reply("create") \in Replies /\ Error \in Replies /\ Error.t \notin {"open", "create"}
  BY Zenon DEF Replies, Reply, Error
<1>4. CASE Refuse(Error)
  <2>1. Answer(Error) /\ srv' = srv /\ hfds' = hfds
    BY Zenon, <1>4 DEF Refuse
  <2>2. SlotSet(F, Own) /\ Own \in Slots
    BY Zenon, <2>1, SameSlot
  <2> QED BY Zenon, <1>3, <2>1, <2>2
<1>5. ASSUME Own.used, d, NEW ok \in BOOLEAN,
             srv' = [srv EXCEPT ![F].path = path, ![F].isdir = @ \/ ok],
             Answer(IF ok THEN Reply("create") ELSE Error), hfds' = hfds
      PROVE  \E r \in Replies, s \in Slots : Answer(r) /\ SlotSet(F, s) /\ s.used
  <2> DEFINE s == [Own EXCEPT !.path = path, !.isdir = @ \/ ok]
  <2>1. s \in Slots /\ s.used /\ s.fd = Own.fd
    BY Zenon, <1>1, <1>2, <1>5 DEF Slots
  <2>2. srv' = [srv EXCEPT ![F] = s]
    BY Zenon, <1>5 DEF Own, NineTypes
  <2> HIDE DEF s
  <2>3. SlotSet(F, s)
    BY Zenon, <1>5, <2>1, <2>2, KeptFd
  <2> QED BY Zenon, <1>3, <1>5, <2>1, <2>3
<1>6. ASSUME Own.used, ~d, NEW fd \in (HostFds \ hfds) \cup {NoFd},
             srv' = [srv EXCEPT ![F].path = path, ![F].fd = fd, ![F].isdir = @ /\ fd = NoFd],
             hfds' = hfds \cup ({fd} \ {NoFd}),
             Answer(IF fd = NoFd THEN Error ELSE Reply("create"))
      PROVE  \E r \in Replies, s \in Slots :
               /\ Answer(r) /\ SlotSet(F, s) /\ s.used
               /\ r.t \in {"open", "create"} => s.path = path /\ IsOpen(s, hfds')
  <2> DEFINE s == [Own EXCEPT !.path = path, !.fd = fd, !.isdir = @ /\ fd = NoFd]
             r == IF fd = NoFd THEN Error ELSE Reply("create")
  <2>1. s \in Slots /\ s.used /\ s.path = path /\ s.fd = fd
    <3>1. fd \in HostFds \cup {NoFd}
      BY Zenon
    <3> QED BY Zenon, <1>1, <1>2, <1>6, <3>1 DEF Slots
  <2>2. srv' = [srv EXCEPT ![F] = s]
    BY Zenon, <1>6 DEF Own, NineTypes
  <2>3. r \in Replies /\ (r.t \in {"open", "create"} => fd # NoFd)
    BY Zenon, <1>3
  <2>4. Answer(r)
    BY Zenon, <1>6
  <2> HIDE DEF s, r
  <2>5. SlotSet(F, s)
    <3>1. srv[F].used /\ srv[F].fd = NoFd
      BY Zenon, <1>6 DEF Own
    <3>2. \A x \in HostFds : x \in hfds' <=> x \in hfds \/ fd = x
      BY Zenon, <1>1, <1>6
    <3> QED BY Zenon, <1>1, <1>6, <2>1, <2>2, <3>1, <3>2 DEF SlotSet
  <2>6. r.t \in {"open", "create"} => IsOpen(s, hfds')
    BY Zenon, <1>6, <2>1, <2>3 DEF IsOpen
  <2> QED BY Zenon, <2>1, <2>3, <2>4, <2>5, <2>6
<1>7. \/ Refuse(Error)
      \/ Own.used /\ d /\ \E ok \in BOOLEAN :
           /\ srv' = [srv EXCEPT ![F].path = path, ![F].isdir = @ \/ ok]
           /\ Answer(IF ok THEN Reply("create") ELSE Error) /\ hfds' = hfds
      \/ Own.used /\ ~d /\ \E fd \in (HostFds \ hfds) \cup {NoFd} :
           /\ srv' = [srv EXCEPT ![F].path = path, ![F].fd = fd, ![F].isdir = @ /\ fd = NoFd]
           /\ hfds' = hfds \cup ({fd} \ {NoFd})
           /\ Answer(IF fd = NoFd THEN Error ELSE Reply("create"))
  BY Zenon DEF ServeCreate, Own, path
<1> QED BY Zenon, <1>4, <1>5, <1>6, <1>7 DEF path

LEMMA CreateKeeps ==
  ASSUME NineInv, ServeCreate
  PROVE  NineInv'
<1>1. /\ NineTypes /\ up /\ FdsAgree /\ Mounted /\ F \in nfids \ {0} /\ F \in FidSet
      /\ CreatePending /\ Head(ring).fid = F
  <2>1. Serves("create")
    BY Zenon DEF ServeCreate
  <2> QED BY <2>1, Serving
<1>2. ask.rel \in Paths
  BY Zenon, <1>1, AskIs
<1>3. ask.st # "io"
  BY Zenon, <1>1 DEF CreatePending
<1>4. CASE /\ ask.st = "opened" /\ ask.rel # <<>> /\ ring = <<Tcreate(F, Leaf(ask.rel), FALSE)>>
           /\ rsp = <<>> /\ Own.used /\ Own.fd = NoFd /\ Own.path = Parent(ask.rel)
  <2>1. Leaf(ask.rel) \in Names /\ Append(Own.path, Leaf(ask.rel)) = ask.rel
    BY Zenon, <1>2, <1>4, PathParts
  <2>2. Head(ring) = Tcreate(F, Leaf(ask.rel), FALSE) /\ Tail(ring) = <<>>
    BY Zenon, <1>4, OneHead
  <2>3. Head(ring).name = Leaf(ask.rel) /\ Head(ring).isdir = FALSE
    BY <2>2 DEF Tcreate
  <2>4. PICK r \in Replies, s \in Slots :
           /\ Answer(r) /\ SlotSet(F, s)
           /\ s.used <=> Own.used
           /\ Own.used /\ ~FALSE /\ r.t \in {"open", "create"} =>
                s.path = Append(Own.path, Leaf(ask.rel)) /\ IsOpen(s, hfds')
    <3>1. FALSE \in BOOLEAN /\ (Own.used /\ ~FALSE => Own.fd = NoFd)
      BY Zenon, <1>4
    <3> QED BY Zenon, <1>1, <2>1, <2>3, <3>1, CreateOutcome
  <2>5. ASSUME ask' = ask, F' = F, Own' = s, nfids' = nfids, ring' = Tail(ring), rsp' = Append(rsp, r)
        PROVE  WalkPending' \/ OpenPending' \/ CreatePending' \/ LastPending' \/ Replied'
    <3>1. Len(rsp') = 1 /\ rsp'[1] = r
      BY Zenon, <1>4, <2>5, FirstReply
    <3> QED BY Zenon, <1>4, <2>1, <2>2, <2>4, <2>5, <3>1 DEF Replied
  <2> QED BY Zenon, <1>1, <1>3, <2>4, <2>5, Served
<1>5. CASE \E name \in Names :
             \/ ask.st = "last" /\ Own.used /\ ring = <<Tcreate(F, name, TRUE)>>
             \/ ask.st = "free" /\ ring = <<Tcreate(F, name, TRUE), Tmsg("clunk", F)>>
  <2>1. PICK name \in Names :
             \/ ask.st = "last" /\ Own.used /\ ring = <<Tcreate(F, name, TRUE)>>
             \/ ask.st = "free" /\ ring = <<Tcreate(F, name, TRUE), Tmsg("clunk", F)>>
    BY Zenon, <1>5
  <2>2. /\ Head(ring) = Tcreate(F, name, TRUE)
        /\ \/ ask.st = "last" /\ Own.used /\ Tail(ring) = <<>>
           \/ ask.st = "free" /\ Tail(ring) = <<Tmsg("clunk", F)>>
    BY Zenon, <2>1, OneHead, TwoHeads
  <2>3. Head(ring).name = name /\ Head(ring).isdir = TRUE
    BY <2>2 DEF Tcreate
  <2>4. PICK r \in Replies, s \in Slots : Answer(r) /\ SlotSet(F, s) /\ (s.used <=> Own.used)
    <3>1. TRUE \in BOOLEAN /\ (Own.used /\ ~TRUE => Own.fd = NoFd)
      BY Zenon
    <3> QED BY Zenon, <1>1, <2>1, <2>3, <3>1, CreateOutcome
  <2>5. ASSUME ask' = ask, F' = F, Own' = s, nfids' = nfids, ring' = Tail(ring), rsp' = Append(rsp, r)
        PROVE  WalkPending' \/ OpenPending' \/ CreatePending' \/ LastPending' \/ Replied'
    <3>1. CASE ask.st = "last" /\ Own.used /\ Tail(ring) = <<>>
      BY Zenon, <2>4, <2>5, <3>1 DEF Replied
    <3>2. CASE ask.st = "free" /\ Tail(ring) = <<Tmsg("clunk", F)>>
      BY Zenon, <2>5, <3>2 DEF LastPending
    <3> QED BY Zenon, <2>2, <3>1, <3>2
  <2> QED BY Zenon, <1>1, <1>3, <2>4, <2>5, Served
<1> QED BY Zenon, <1>1, <1>4, <1>5 DEF CreatePending

\* A rename through the fid moves its path, nothing else.
LEMMA WstatKeeps ==
  ASSUME NineInv, ServeWstat
  PROVE  NineInv'
<1>1. /\ NineTypes /\ up /\ FdsAgree /\ Mounted /\ F \in nfids \ {0} /\ F \in FidSet
      /\ WstatPending /\ Head(ring).fid = F
  <2>1. Serves("wstat")
    BY Zenon DEF ServeWstat
  <2> QED BY <2>1, Serving
<1>2. PICK name \in Names : ring = <<[t |-> "wstat", fid |-> F, name |-> name]>>
  BY Zenon, <1>1 DEF WstatPending
<1>3. Head(ring).name = name /\ Tail(ring) = <<>>
  BY <1>2
<1>4. ask.st = "last" /\ ask.st # "io" /\ Own.used
  BY Zenon, <1>1 DEF WstatPending
<1> DEFINE new == IF Own.path = <<>> THEN <<name>> ELSE Append(Parent(Own.path), name)
<1>5. PICK ok \in BOOLEAN : /\ srv' = IF ok THEN [srv EXCEPT ![F].path = new] ELSE srv
                            /\ Answer(Reply(IF ok THEN "wstat" ELSE "error")) /\ hfds' = hfds
  <2> DEFINE m == Head(ring)
             to == IF srv[m.fid].path = <<>> THEN <<m.name>> ELSE Append(Parent(srv[m.fid].path), m.name)
  <2>1. \E ok \in BOOLEAN : /\ srv' = IF ok THEN [srv EXCEPT ![m.fid].path = to] ELSE srv
                            /\ Answer(Reply(IF ok THEN "wstat" ELSE "error")) /\ hfds' = hfds
    BY Zenon DEF ServeWstat
  <2>2. to = new /\ m.fid = F
    BY Zenon, <1>1, <1>3 DEF Own
  <2> HIDE DEF to, new, m
  <2> QED BY Zenon, <2>1, <2>2
<1> DEFINE s == IF ok THEN [Own EXCEPT !.path = new] ELSE Own
           r == Reply(IF ok THEN "wstat" ELSE "error")
<1>6. Own \in Slots /\ Own.path \in Paths
  BY Zenon, <1>1 DEF Own, NineTypes, Slots
<1>7. new \in Paths
  <2>1. CASE Own.path = <<>>
    <3>1. new = <<name>>
      BY Zenon, <2>1
    <3>2. <<name>> \in Seq(Names)
      <4> HIDE DEF Names
      <4> QED OBVIOUS
    <3> QED BY Zenon, <3>1, <3>2 DEF Paths
  <2>2. CASE Own.path # <<>>
    <3>1. Parent(Own.path) \in Paths
      BY Zenon, <1>6, <2>2, PathParts
    <3>2. Append(Parent(Own.path), name) \in Paths
      BY Zenon, <3>1, Appended DEF Paths
    <3> QED BY Zenon, <2>2, <3>2
  <2> QED BY Zenon, <2>1, <2>2
<1> HIDE DEF new
<1>8. s \in Slots /\ s.used /\ s.fd = Own.fd
  <2>1. CASE ok
    <3>1. s = [Own EXCEPT !.path = new]
      BY Zenon, <2>1
    <3> HIDE DEF s
    <3> QED BY Zenon, <1>4, <1>6, <1>7, <3>1 DEF Slots
  <2>2. CASE ~ok
    BY Zenon, <1>4, <1>6, <2>2
  <2> QED BY Zenon, <2>1, <2>2
<1>9. srv' = [srv EXCEPT ![F] = s]
  <2>1. srv \in [FidSet -> Slots]
    BY Zenon, <1>1 DEF NineTypes
  <2>2. CASE ok
    <3>1. s = [srv[F] EXCEPT !.path = new] /\ srv' = [srv EXCEPT ![F].path = new]
      BY Zenon, <1>5, <2>2 DEF Own
    <3> HIDE DEF s
    <3> QED BY Zenon, <1>1, <2>1, <3>1
  <2>3. CASE ~ok
    <3>1. s = srv[F] /\ srv' = srv
      BY Zenon, <1>5, <2>3 DEF Own
    <3> HIDE DEF s
    <3> QED BY Zenon, <1>1, <2>1, <3>1
  <2> QED BY Zenon, <2>2, <2>3
<1>10. r \in Replies /\ Answer(r)
  <2>1. Reply("wstat") \in Replies /\ Reply("error") \in Replies
    BY Zenon DEF Reply, Replies
  <2>2. Answer(r)
    BY Zenon, <1>5
  <2>3. CASE ok
    BY Zenon, <2>1, <2>2, <2>3
  <2>4. CASE ~ok
    BY Zenon, <2>1, <2>2, <2>4
  <2> QED BY Zenon, <2>3, <2>4
<1> HIDE DEF s, r
<1>11. SlotSet(F, s)
  <2>1. hfds' = hfds /\ (s.used <=> Own.used)
    BY Zenon, <1>4, <1>5, <1>8
  <2> QED BY Zenon, <1>1, <1>8, <1>9, <2>1, KeptFd
<1>12. ASSUME ask' = ask, F' = F, Own' = s, nfids' = nfids, ring' = Tail(ring), rsp' = Append(rsp, r)
       PROVE  WalkPending' \/ OpenPending' \/ CreatePending' \/ LastPending' \/ Replied'
  BY Zenon, <1>3, <1>4, <1>8, <1>12 DEF Replied
<1> QED BY Zenon, <1>1, <1>4, <1>8, <1>10, <1>11, <1>12, Served

\* clunk_fid
LEMMA UnbindSets ==
  ASSUME NineTypes, F \in FidSet, Own.used, Unbind(F)
  PROVE  \E s \in Slots : ~s.used /\ SlotSet(F, s)
<1> DEFINE s == Slot(FALSE, srv[F].isdir, NoFd, <<>>)
<1>1. s \in Slots /\ ~s.used
  <2>1. srv[F].isdir \in BOOLEAN
    BY Zenon DEF NineTypes, Slots
  <2>2. <<>> \in Paths
    BY DEF Paths
  <2> QED BY Zenon, <2>1, <2>2 DEF Slot, Slots
<1>2. srv' = [srv EXCEPT ![F] = s]
  BY Zenon DEF Unbind, NineTypes
<1> HIDE DEF s
<1>3. NoFd \notin HostFds
  BY NinePAssumption DEF NoFd
<1>4. \A x \in HostFds : x \in hfds' <=> x \in hfds /\ srv[F].fd # x
  BY Zenon, <1>3 DEF Unbind, OwnFd
<1> QED BY Zenon, <1>1, <1>2, <1>4 DEF SlotSet, Own

LEMMA ClunkKeeps ==
  ASSUME NineInv, ServeClunk
  PROVE  NineInv'
<1>1. /\ NineTypes /\ up /\ FdsAgree /\ Mounted /\ F \in nfids \ {0} /\ F \in FidSet
      /\ ClunkPending /\ Head(ring).fid = F
  <2>1. Serves("clunk")
    BY Zenon DEF ServeClunk
  <2> QED BY <2>1, Serving
<1>2. ask.st \in {"clunk", "statted", "bstat", "free"} /\ ask.st # "io" /\ Tail(ring) = <<>>
  <2>1. ask.st \in {"clunk", "statted", "bstat", "free"} /\ Tail(ring) = <<>>
    BY Zenon, <1>1, OneHead DEF ClunkPending
  <2> QED BY Zenon, <2>1
<1>3. Answer(Reply("clunk")) /\ Reply("clunk") \in Replies
  <2>1. Reply("clunk") \in Replies
    BY Zenon DEF Replies, Reply
  <2> QED BY Zenon, <2>1 DEF ServeClunk
<1>4. PICK s \in Slots : ~s.used /\ SlotSet(F, s)
  <2>1. CASE Own.used
    <3>1. Unbind(F)
      BY Zenon, <1>1, <2>1 DEF ServeClunk, Own
    <3> QED BY Zenon, <1>1, <2>1, <3>1, UnbindSets
  <2>2. CASE ~Own.used
    <3>1. srv' = srv /\ hfds' = hfds
      BY Zenon, <1>1, <2>2 DEF ServeClunk, Own
    <3>2. SlotSet(F, Own) /\ Own \in Slots
      BY Zenon, <1>1, <3>1, SameSlot
    <3> QED BY Zenon, <2>2, <3>2
  <2> QED BY Zenon, <2>1, <2>2
<1>5. ASSUME ask' = ask, F' = F, Own' = s, nfids' = nfids, ring' = Tail(ring), rsp' = Append(rsp, Reply("clunk"))
      PROVE  WalkPending' \/ OpenPending' \/ CreatePending' \/ LastPending' \/ Replied'
  BY Zenon, <1>2, <1>4, <1>5 DEF Replied
<1> QED BY Zenon, <1>1, <1>2, <1>3, <1>4, <1>5, Served

LEMMA RemoveKeeps ==
  ASSUME NineInv, ServeRemove
  PROVE  NineInv'
<1>1. /\ NineTypes /\ up /\ FdsAgree /\ Mounted /\ F \in nfids \ {0} /\ F \in FidSet
      /\ RemovePending /\ Head(ring).fid = F
  <2>1. Serves("remove")
    BY Zenon DEF ServeRemove
  <2> QED BY <2>1, Serving
<1>2. ask.st = "free" /\ ask.st # "io" /\ Tail(ring) = <<>>
  BY Zenon, <1>1, OneHead DEF RemovePending
<1>3. PICK r \in Replies, s \in Slots : Answer(r) /\ ~s.used /\ SlotSet(F, s)
  <2>1. Reply("remove") \in Replies /\ Error \in Replies
    BY Zenon DEF Replies, Reply, Error
  <2>2. CASE ~Own.used
    <3>1. Answer(Error) /\ srv' = srv /\ hfds' = hfds
      BY Zenon, <1>1, <2>2 DEF ServeRemove, Refuse, Own
    <3>2. SlotSet(F, Own) /\ Own \in Slots
      BY Zenon, <1>1, <3>1, SameSlot
    <3> QED BY Zenon, <2>1, <2>2, <3>1, <3>2
  <2>3. CASE Own.used
    <3>1. PICK ok \in BOOLEAN : Answer(IF ok THEN Reply("remove") ELSE Error)
      BY Zenon, <1>1, <2>3 DEF ServeRemove, Own
    <3>2. Unbind(F)
      BY Zenon, <1>1, <2>3 DEF ServeRemove, Own
    <3>3. PICK s \in Slots : ~s.used /\ SlotSet(F, s)
      BY Zenon, <1>1, <2>3, <3>2, UnbindSets
    <3> QED BY Zenon, <2>1, <3>1, <3>3
  <2> QED BY Zenon, <2>2, <2>3
<1>4. ASSUME ask' = ask, F' = F, Own' = s, nfids' = nfids, ring' = Tail(ring), rsp' = Append(rsp, r)
      PROVE  WalkPending' \/ OpenPending' \/ CreatePending' \/ LastPending' \/ Replied'
  BY Zenon, <1>2, <1>3, <1>4 DEF Replied
<1> QED BY Zenon, <1>1, <1>2, <1>3, <1>4, Served

LEMMA StatKeeps ==
  ASSUME NineInv, ServeStat
  PROVE  NineInv'
<1>1. /\ NineTypes /\ up /\ FdsAgree /\ Mounted /\ F \in nfids \ {0} /\ F \in FidSet
      /\ StatPending
  <2>1. Serves("stat")
    BY Zenon DEF ServeStat
  <2> QED BY <2>1, Serving
<1>2. PICK r \in Replies : Answer(r) /\ srv' = srv /\ hfds' = hfds
  <2> DEFINE s == srv[Head(ring).fid]
             d == Kind(s.path) = "d"
             r == IF s.used /\ Present(s.path) THEN [t |-> "stat", n |-> 0, dir |-> d] ELSE Error
  <2>1. Error \in Replies
    BY Zenon DEF Replies, Reply, Error
  <2>2. d \in BOOLEAN
    BY Zenon
  <2>3. Refuse(r)
    BY Zenon DEF ServeStat
  <2> HIDE DEF d, s
  <2>4. [t |-> "stat", n |-> 0, dir |-> d] \in Replies
    BY Zenon, <2>2 DEF Replies
  <2>5. r \in Replies
    BY Zenon, <2>1, <2>4
  <2> HIDE DEF r
  <2> QED BY Zenon, <2>3, <2>5 DEF Refuse
<1>3. SlotSet(F, Own) /\ Own \in Slots
  BY Zenon, <1>1, <1>2, SameSlot
<1>4. ask.st # "io"
  BY Zenon, <1>1 DEF StatPending
<1>5. ASSUME ask' = ask, F' = F, Own' = Own, nfids' = nfids, ring' = Tail(ring), rsp' = Append(rsp, r)
      PROVE  WalkPending' \/ OpenPending' \/ CreatePending' \/ LastPending' \/ Replied'
  <2>1. CASE ask.st = "bstat" /\ ring = <<Tmsg("stat", F), Tmsg("clunk", F)>>
    <3>1. Tail(ring) = <<Tmsg("clunk", F)>>
      BY Zenon, <2>1, TwoHeads
    <3> QED BY Zenon, <1>5, <2>1, <3>1 DEF LastPending
  <2>2. CASE ask.st = "stat" /\ ring = <<Tmsg("stat", F)>> /\ rsp = <<>>
    <3>1. Tail(ring) = <<>> /\ Len(rsp') = 1
      BY Zenon, <1>5, <2>2, OneHead, FirstReply
    <3> QED BY Zenon, <1>5, <2>2, <3>1 DEF Replied
  <2> QED BY Zenon, <1>1, <2>1, <2>2 DEF StatPending
<1> QED BY Zenon, <1>1, <1>2, <1>3, <1>4, <1>5, Served

LEMMA IoKeeps ==
  ASSUME NineInv, ServeIo
  PROVE  NineInv'
<1>1. /\ NineTypes /\ up /\ FdsAgree /\ Mounted /\ F \in nfids \ {0} /\ F \in FidSet
      /\ ask.st = "io" /\ Own.used /\ ring = <<Tmsg("io", F)>>
  <2>1. Serves("io")
    BY Zenon DEF ServeIo
  <2> QED BY <2>1, Serving
<1>2. PICK r \in Replies : Refuse(r)
  <2>1. Reply("io") \in Replies /\ Error \in Replies
    BY Zenon DEF Replies, Reply, Error
  <2> QED BY Zenon, <2>1 DEF ServeIo
<1>3. Calling'
  <2>1. ask' = ask /\ nfids' = nfids /\ srv' = srv /\ ring' = <<>>
    BY Zenon, <1>1, <1>2, OneHead DEF Refuse, Answer
  <2>2. F' = F /\ Own' = Own
    BY Zenon, <2>1 DEF F, Own
  <2> QED BY Zenon, <1>1, <2>1, <2>2 DEF Calling
<1> QED BY Zenon, <1>1, <1>2, <1>3, RefuseKeeps

LEMMA MountServing ==
  ASSUME NineInv, NEW t \in {"version", "attach"}, Serves(t)
  PROVE  /\ NineTypes /\ up /\ FdsAgree /\ nfids = {0} /\ DOMAIN held = {}
         /\ \A g \in FidSet : ~srv[g].used
         /\ t = "version" => ask.st = "version" /\ ring = <<[t |-> "version"]>>
         /\ t = "attach" => ask.st = "attach" /\ ring = <<Tmsg("attach", 0)>>
<1>1. Mounting
  BY Zenon, Serving
<1>2. NineTypes /\ up /\ FdsAgree /\ ring # <<>> /\ Head(ring).t = t
  BY Zenon DEF NineInv, Serves
<1>3. \/ ask.st = "version" /\ ring = <<[t |-> "version"]>> /\ t = "version"
      \/ ask.st = "attach" /\ ring = <<Tmsg("attach", 0)>> /\ t = "attach"
  <2>1. Head(<<[t |-> "version"]>>).t = "version" /\ Head(<<Tmsg("attach", 0)>>).t = "attach"
    BY DEF Tmsg
  <2> QED BY Zenon, <1>1, <1>2, <2>1 DEF Mounting
<1>4. \A g \in FidSet : ~srv[g].used
  BY Zenon, <1>1, <1>2 DEF Mounting
<1> QED BY Zenon, <1>1, <1>2, <1>3, <1>4 DEF Mounting

LEMMA VersionKeeps ==
  ASSUME NineInv, ServeVersion
  PROVE  NineInv'
<1>1. /\ NineTypes /\ up /\ FdsAgree /\ nfids = {0} /\ DOMAIN held = {}
      /\ \A g \in FidSet : ~srv[g].used
      /\ ask.st = "version" /\ ring = <<[t |-> "version"]>>
  <2>1. Serves("version")
    BY Zenon DEF ServeVersion
  <2> QED BY Zenon, <2>1, MountServing
<1>2. /\ srv' = [f \in FidSet |-> Slot(FALSE, FALSE, 0, <<>>)] /\ hfds' = hfds
      /\ Answer(Reply("version"))
  BY Zenon DEF ServeVersion
<1>3. /\ rsp' = Append(rsp, Reply("version")) /\ ring' = <<>>
      /\ nfids' = nfids /\ held' = held /\ ask' = ask /\ up' = up
  BY Zenon, <1>1, <1>2, OneHead DEF Answer
<1>4. \A g \in FidSet : ~srv'[g].used
  BY Zenon, <1>2 DEF Slot
<1>5. NineTypes'
  <2>1. Slot(FALSE, FALSE, 0, <<>>) \in Slots
    <3>1. <<>> \in Paths
      BY DEF Paths
    <3> QED BY Zenon, <3>1 DEF Slot, Slots
  <2>2. srv' \in [FidSet -> Slots]
    BY Zenon, <1>2, <2>1
  <2>3. Reply("version") \in Replies
    BY Zenon DEF Replies, Reply
  <2>4. rsp' \in Seq(Replies)
    BY Zenon, <1>1, <1>3, <2>3, Appended DEF NineTypes
  <2> QED BY Zenon, <1>1, <1>3, <2>2, <2>4 DEF NineTypes
<1>6. FdsAgree'
  BY Zenon, <1>1, <1>2, <1>4 DEF FdsAgree, OwnFds
<1>7. Mounting'
  BY Zenon, <1>1, <1>3, <1>4 DEF Mounting
<1> QED BY Zenon, <1>1, <1>3, <1>5, <1>6, <1>7 DEF NineInv

LEMMA AttachKeeps ==
  ASSUME NineInv, ServeAttach
  PROVE  NineInv'
<1>1. /\ NineTypes /\ up /\ FdsAgree /\ nfids = {0} /\ DOMAIN held = {}
      /\ \A g \in FidSet : ~srv[g].used
      /\ ask.st = "attach" /\ ring = <<Tmsg("attach", 0)>>
  <2>1. Serves("attach")
    BY Zenon DEF ServeAttach
  <2> QED BY Zenon, <2>1, MountServing
<1> DEFINE s == Slot(TRUE, TRUE, NoFd, <<>>)
<1>2. 0 \in FidSet /\ <<>> \in Paths /\ s.used /\ s.path = <<>> /\ s.fd = NoFd
  BY NinePAssumption DEF FidSet, Paths, Slot
<1>3. Bind(0, <<>>, TRUE) /\ Answer(Reply("attach"))
  <2>1. Head(ring) = Tmsg("attach", 0)
    BY Zenon, <1>1, OneHead
  <2>2. Head(ring).fid = 0
    BY <2>1 DEF Tmsg
  <2> QED BY Zenon, <2>2 DEF ServeAttach
<1>4. /\ rsp' = Append(rsp, Reply("attach")) /\ ring' = <<>>
      /\ nfids' = nfids /\ held' = held /\ ask' = ask /\ up' = up
  BY Zenon, <1>1, <1>3, OneHead DEF Answer
<1>5. SlotSet(0, s) /\ s \in Slots
  BY Zenon, <1>1, <1>2, <1>3, BindSets
<1> HIDE DEF s
<1>6. FdsAgree'
  BY Zenon, <1>1, <1>2, <1>5, FdsStep
<1>7. srv'[0] = s /\ \A g \in FidSet \ {0} : srv'[g] = srv[g]
  BY Zenon, <1>1, <1>2, <1>5, SlotsAfter DEF SlotSet
<1>8. NineTypes'
  <2>1. srv' \in [FidSet -> Slots]
    BY Zenon, <1>1, <1>2, <1>5 DEF NineTypes, SlotSet
  <2>2. Reply("attach") \in Replies
    BY Zenon DEF Replies, Reply
  <2>3. rsp' \in Seq(Replies)
    BY Zenon, <1>1, <1>4, <2>2, Appended DEF NineTypes
  <2> QED BY Zenon, <1>1, <1>4, <2>1, <2>3 DEF NineTypes
<1>9. Mounting'
  <2>1. Root'
    BY Zenon, <1>2, <1>7 DEF Root
  <2>2. \A g \in FidSet \ {0} : ~srv'[g].used
    BY Zenon, <1>1, <1>7
  <2> QED BY Zenon, <1>1, <1>4, <2>1, <2>2 DEF Mounting
<1> QED BY Zenon, <1>1, <1>4, <1>6, <1>8, <1>9 DEF NineInv

LEMMA ServerKeeps ==
  ASSUME NineInv, Serve
  PROVE  NineInv'
  BY Zenon, VersionKeeps, AttachKeeps, WalkKeeps, OpenKeeps, CreateKeeps, ClunkKeeps, RemoveKeeps,
     StatKeeps, WstatKeeps, IoKeeps DEF Serve

-----------------------------------------------------------------------------
(* The client.                                                             *)

\* Between calls: the fids in use are the bound ones, and handles are what they were.
Settled(fids, files) ==
  /\ fids \in SUBSET FidSet /\ 0 \in fids
  /\ \A g \in FidSet : srv[g].used <=> g \in fids
  /\ \A h \in DOMAIN files :
       h \in fids \ {0} /\ srv[h].path = files[h] /\ IsOpen(srv[h], hfds)
Standing == NineTypes /\ up /\ FdsAgree /\ Root

LEMMA SendKeeps ==
  ASSUME Standing, NEW a \in AskTypes, NEW msgs, NEW fids \in SUBSET FidSet, Send(a, msgs, fids),
         0 \in fids, \A g \in FidSet \ {a.fid} : srv[g].used <=> g \in fids,
         \A h \in DOMAIN held' :
           /\ h \in fids \ {0} /\ (h = a.fid => a.st = "io")
           /\ srv[h].path = held'[h] /\ IsOpen(srv[h], hfds),
         (a = NoAsk /\ msgs = <<>>) \/ Calling'
  PROVE  NineInv'
<1>1. ask' = a /\ ring' = msgs /\ rsp' = <<>> /\ nfids' = fids /\ hfds' = hfds /\ srv' = srv /\ up' = up
  BY Zenon DEF Send
<1>2. NineTypes'
  <2>1. <<>> \in Seq(Replies)
    OBVIOUS
  <2> QED BY Zenon, <1>1, <2>1 DEF NineTypes, Standing
<1>3. FdsAgree' /\ Root' /\ F' = a.fid
  BY Zenon, <1>1, FdsSame DEF Root, Standing, F
<1>4. Mounted'
  BY Zenon, <1>1, <1>3 DEF Mounted
<1> QED BY Zenon, <1>1, <1>2, <1>3, <1>4 DEF NineInv, Standing

LEMMA NoAskIs == NoAsk \in AskTypes /\ NoAsk.fid = 0 /\ NoAsk.st = "idle" /\ NoAsk.rel = <<>>
<1>1. 0 \in FidSet /\ <<>> \in Paths
  BY NinePAssumption DEF FidSet, Paths
<1>2. Error \in Replies
  BY Zenon DEF Error, Reply, Replies
<1>3. "" \in Names
  BY Zenon DEF Names
<1> QED BY Zenon, <1>1, <1>2, <1>3 DEF NoAsk, AskTypes

\* A call ends.
LEMMA FinishKeeps ==
  ASSUME Standing, NEW fids, Settled(fids, held'), FinishAsk(fids)
  PROVE  NineInv'
<1>1. Send(NoAsk, <<>>, fids)
  BY Zenon DEF FinishAsk
<1>2. fids \in SUBSET FidSet /\ 0 \in fids
  BY Zenon DEF Settled
<1>3. \A g \in FidSet \ {NoAsk.fid} : srv[g].used <=> g \in fids
  BY Zenon DEF Settled
<1>4. \A h \in DOMAIN held' :
        /\ h \in fids \ {0} /\ (h = NoAsk.fid => NoAsk.st = "io")
        /\ srv[h].path = held'[h] /\ IsOpen(srv[h], hfds)
  BY Zenon, NoAskIs DEF Settled
<1>5. (NoAsk = NoAsk /\ <<>> = <<>>) \/ Calling'
  BY Zenon
<1> QED BY Zenon, <1>1, <1>2, <1>3, <1>4, <1>5, NoAskIs, SendKeeps

\* A ring that starts with a walk into a new fid.
LEMMA NewCall ==
  ASSUME Standing, NEW fids, Settled(fids, held), held' = held, NEW a \in AskTypes,
         a.fid \in FidSet \ fids, NEW msgs, Send(a, msgs, fids \cup {a.fid}), WalkPending'
  PROVE  NineInv'
<1> DEFINE all == fids \cup {a.fid}
<1>1. all \in SUBSET FidSet /\ 0 \in all /\ a.fid # 0
  BY Zenon DEF Settled
<1>2. \A g \in FidSet \ {a.fid} : srv[g].used <=> g \in all
  BY Zenon DEF Settled
<1>3. \A h \in DOMAIN held' :
        /\ h \in all \ {0} /\ (h = a.fid => a.st = "io")
        /\ srv[h].path = held'[h] /\ IsOpen(srv[h], hfds)
  BY Zenon DEF Settled
<1>4. ask' = a /\ nfids' = all /\ F' = a.fid
  BY Zenon DEF Send, F
<1>5. F' \in nfids' \ {0}
  BY Zenon, <1>1, <1>4
<1>6. (a = NoAsk /\ msgs = <<>>) \/ Calling'
  BY Zenon, <1>5 DEF Calling
<1> HIDE DEF all
<1>7. Send(a, msgs, all)
  BY Zenon DEF all
<1> QED BY Zenon, <1>1, <1>2, <1>3, <1>6, <1>7, SendKeeps

LEMMA ChunkIs ==
  ASSUME NEW n \in Nat
  PROVE  /\ Chunk(n) \in Nat /\ Chunk(n) <= n
         /\ (Chunk(n) = 0 => n = 0)
  BY NinePAssumption DEF Chunk

LEMMA WalkRelKeeps ==
  ASSUME Standing, NEW fids, Settled(fids, held), held' = held, NEW a \in AskTypes,
         NEW goal \in {"open", "create", "mkdir", "rename", "stat", "remove"}, NEW path \in Paths,
         WalkRel(a, goal, path, fids),
         goal = "open" => path = a.rel,
         goal \in {"create", "mkdir"} => a.rel # <<>> /\ path = Parent(a.rel)
  PROVE  NineInv'
<1> DEFINE k == Chunk(Len(path))
           With(f) == [a EXCEPT !.st = "walk", !.goal = goal, !.fid = f, !.path = path, !.off = 0, !.k = k]
<1>1. CASE fids = FidSet
  BY Zenon, <1>1, FinishKeeps DEF WalkRel
<1>2. CASE fids # FidSet
  <2>1. PICK f \in FidSet \ fids : Send(With(f), <<Twalk(0, f, SubSeq(path, 1, k))>>, fids \cup {f})
    BY Zenon, <1>2 DEF WalkRel, NextFid
  <2> DEFINE b == With(f)
  <2>2. Len(path) \in Nat /\ (Len(path) = 0 => path = <<>>)
    BY DEF Paths
  <2>3. k \in Nat /\ k <= Len(path) /\ (k = 0 => Len(path) = 0)
    BY Zenon, <2>2, ChunkIs
  <2> HIDE DEF k
  <2>4. b \in AskTypes
    BY Zenon, <2>1, <2>3 DEF AskTypes
  <2>5. b.st = "walk" /\ b.goal = goal /\ b.fid = f /\ b.path = path /\ b.off = 0 /\ b.k = k /\ b.rel = a.rel
    BY Zenon DEF AskTypes
  <2>6. Send(b, <<Twalk(0, f, SubSeq(path, 1, k))>>, fids \cup {f})
    BY Zenon, <2>1
  <2> HIDE DEF b
  <2>7. ask' = b /\ F' = f /\ ring' = <<Twalk(0, f, SubSeq(path, 1, k))>> /\ rsp' = <<>> /\ srv' = srv
    BY Zenon, <2>5, <2>6 DEF Send, F
  <2>8. ~Own'.used
    BY Zenon, <2>1, <2>7 DEF Own, Settled
  <2>9. Walking'
    <3>1. 0 + k <= Len(path)
      BY <2>3
    <3> QED BY Zenon, <2>2, <2>3, <2>5, <2>7, <3>1 DEF Walking
  <2>10. WalkPending'
    BY Zenon, <2>5, <2>7, <2>8, <2>9 DEF WalkPending
  <2>11. Send(b, <<Twalk(0, f, SubSeq(path, 1, k))>>, fids \cup {b.fid}) /\ b.fid \in FidSet \ fids
    BY Zenon, <2>1, <2>5, <2>6
  <2> QED BY Zenon, <2>4, <2>10, <2>11, NewCall
<1> QED BY Zenon, <1>1, <1>2

\* The first disjunct that a batch starts in, by stage.
LEMMA BatchStarts ==
  ASSUME Standing, NEW fids, Settled(fids, held), held' = held, NEW a \in AskTypes,
         NEW st \in {"bopen", "bstat", "free"}, NEW path \in Paths, NEW f \in FidSet \ fids, NEW msgs,
         Send([a EXCEPT !.st = st, !.fid = f, !.path = path], msgs, fids \cup {f}),
         \/ st = "bopen" /\ path = a.rel /\ msgs = <<Twalk(0, f, path), Tmsg("open", f)>>
         \/ st = "bstat" /\ msgs = <<Twalk(0, f, path), Tmsg("stat", f), Tmsg("clunk", f)>>
         \/ st = "free" /\ msgs = <<Twalk(0, f, path), Tmsg("remove", f)>>
         \/ /\ st = "free"
            /\ \E name \in Names : msgs = <<Twalk(0, f, path), Tcreate(f, name, TRUE), Tmsg("clunk", f)>>
  PROVE  NineInv'
<1> DEFINE b == [a EXCEPT !.st = st, !.fid = f, !.path = path]
<1>1. b \in AskTypes
  BY Zenon DEF AskTypes
<1>2. b.st = st /\ b.fid = f /\ b.path = path /\ b.rel = a.rel
  BY Zenon DEF AskTypes
<1>3. Send(b, msgs, fids \cup {f})
  BY Zenon
<1> HIDE DEF b
<1>4. ask' = b /\ F' = f /\ ring' = msgs /\ rsp' = <<>> /\ srv' = srv
  BY Zenon, <1>2, <1>3 DEF Send, F
<1>5. ~Own'.used
  BY Zenon, <1>4 DEF Own, Settled
<1>6. WalkPending'
  <2>1. CASE st = "bopen" /\ path = a.rel /\ msgs = <<Twalk(0, f, path), Tmsg("open", f)>>
    BY Zenon, <1>2, <1>4, <1>5, <2>1 DEF WalkPending, Bopen
  <2>2. CASE st = "bstat" /\ msgs = <<Twalk(0, f, path), Tmsg("stat", f), Tmsg("clunk", f)>>
    BY Zenon, <1>2, <1>4, <1>5, <2>2 DEF WalkPending
  <2>3. CASE st = "free" /\ msgs = <<Twalk(0, f, path), Tmsg("remove", f)>>
    BY Zenon, <1>2, <1>4, <1>5, <2>3 DEF WalkPending
  <2>4. CASE /\ st = "free"
             /\ \E name \in Names : msgs = <<Twalk(0, f, path), Tcreate(f, name, TRUE), Tmsg("clunk", f)>>
    BY Zenon, <1>2, <1>4, <1>5, <2>4 DEF WalkPending
  <2> QED BY Zenon, <2>1, <2>2, <2>3, <2>4
<1>7. Send(b, msgs, fids \cup {b.fid}) /\ b.fid \in FidSet \ fids
  BY Zenon, <1>2, <1>3
<1> QED BY Zenon, <1>1, <1>6, <1>7, NewCall

\* The call goes on with its fid.
LEMMA SameCall ==
  ASSUME Standing, Mounted, F \in nfids \ {0}, ask.st # "io", held' = held,
         NEW a \in AskTypes, a.fid = F, NEW msgs, Send(a, msgs, nfids),
         OpenPending' \/ CreatePending' \/ LastPending' \/ WalkPending'
  PROVE  NineInv'
<1>1. nfids \in SUBSET FidSet /\ 0 \in nfids
  BY Zenon DEF Standing, NineTypes, Mounted
<1>2. \A g \in FidSet \ {a.fid} : srv[g].used <=> g \in nfids
  BY Zenon DEF Mounted
<1>3. \A h \in DOMAIN held' :
        /\ h \in nfids \ {0} /\ (h = a.fid => a.st = "io")
        /\ srv[h].path = held'[h] /\ IsOpen(srv[h], hfds)
  BY Zenon DEF Mounted
<1>4. F' \in nfids' \ {0}
  BY Zenon DEF Send, F
<1>5. (a = NoAsk /\ msgs = <<>>) \/ Calling'
  BY Zenon, <1>4 DEF Calling
<1> QED BY Zenon, <1>1, <1>2, <1>3, <1>5, SendKeeps

\* The fid is let go of.
LEMMA ClunkSent ==
  ASSUME Standing, Mounted, F \in nfids \ {0}, ask.st # "io", held' = held, Clunk(ask)
  PROVE  NineInv'
<1> DEFINE a == [ask EXCEPT !.st = "clunk"]
<1>1. ask \in AskTypes
  BY Zenon DEF Standing, NineTypes
<1>2. a \in AskTypes
  BY Zenon, <1>1 DEF AskTypes
<1>3. a.st = "clunk" /\ a.fid = F
  BY Zenon, <1>1 DEF AskTypes, F
<1>4. Send(a, <<Tmsg("clunk", F)>>, nfids)
  BY Zenon DEF Clunk, F
<1> HIDE DEF a
<1>5. ask' = a /\ F' = F /\ ring' = <<Tmsg("clunk", F)>>
  <2>1. ask' = a /\ ring' = <<Tmsg("clunk", F)>>
    BY Zenon, <1>4 DEF Send
  <2> QED BY Zenon, <1>3, <2>1 DEF F
<1>6. LastPending'
  BY Zenon, <1>3, <1>5 DEF LastPending
<1> QED BY Zenon, <1>2, <1>3, <1>4, <1>6, SameCall

\* What a call leaves behind when it ends.
LEMMA CallEnds ==
  ASSUME Standing, Mounted, F \in nfids \ {0}, F \in FidSet
  PROVE  /\ ask.st # "io" /\ ~Own.used => Settled(nfids \ {F}, held)
         /\ Own.used => Settled(nfids, held)
<1>1. nfids \in SUBSET FidSet /\ 0 \in nfids /\ F # 0
  BY Zenon DEF Standing, NineTypes, Mounted
<1>2. \A g \in FidSet \ {F} : srv[g].used <=> g \in nfids
  BY Zenon DEF Mounted
<1>3. \A h \in DOMAIN held :
        /\ h \in nfids \ {0} /\ (h = F => ask.st = "io")
        /\ srv[h].path = held[h] /\ IsOpen(srv[h], hfds)
  BY Zenon DEF Mounted
<1>4. ASSUME ask.st # "io", ~Own.used PROVE Settled(nfids \ {F}, held)
  <2>1. \A g \in FidSet : srv[g].used <=> g \in nfids \ {F}
    BY Zenon, <1>2, <1>4 DEF Own
  <2>2. \A h \in DOMAIN held :
          h \in (nfids \ {F}) \ {0} /\ srv[h].path = held[h] /\ IsOpen(srv[h], hfds)
    BY Zenon, <1>3, <1>4
  <2> QED BY Zenon, <1>1, <2>1, <2>2 DEF Settled
<1>5. ASSUME Own.used PROVE Settled(nfids, held)
  <2>1. \A g \in FidSet : srv[g].used <=> g \in nfids
    BY Zenon, <1>2, <1>5 DEF Own
  <2> QED BY Zenon, <1>1, <1>3, <2>1 DEF Settled
<1> QED BY Zenon, <1>4, <1>5

\* The guest gets a handle.
LEMMA HoldKeeps ==
  ASSUME Standing, Mounted, F \in nfids \ {0}, F \in FidSet, Own.used, Own.path = ask.rel, IsOpen(Own, hfds),
         held' = Holding(F), FinishAsk(nfids)
  PROVE  NineInv'
<1>1. Settled(nfids, held)
  BY Zenon, CallEnds
<1>2. DOMAIN held' = DOMAIN held \cup {F} /\ held'[F] = ask.rel
      /\ \A h \in DOMAIN held \ {F} : held'[h] = held[h]
  BY Zenon DEF Holding
<1>3. ASSUME NEW h \in DOMAIN held'
      PROVE  h \in nfids \ {0} /\ srv[h].path = held'[h] /\ IsOpen(srv[h], hfds)
  <2>1. CASE h = F
    BY Zenon, <1>2, <2>1 DEF Own
  <2>2. CASE h # F
    BY Zenon, <1>1, <1>2, <1>3, <2>2 DEF Settled
  <2> QED BY Zenon, <2>1, <2>2
<1>4. Settled(nfids, held')
  BY Zenon, <1>1, <1>3 DEF Settled
<1> QED BY Zenon, <1>4, FinishKeeps

\* The replies of a call are in.
LEMMA ReplyIs ==
  ASSUME NineInv, NEW st, At(st), st \notin {"version", "attach", "idle", "io"}
  PROVE  /\ Standing /\ Mounted /\ F \in nfids \ {0} /\ F \in FidSet /\ ask \in AskTypes
         /\ Replied /\ ask.st = st /\ ask.st # "io"
<1>1. up /\ NineTypes /\ FdsAgree /\ ask.st = st /\ ring = <<>>
  BY Zenon DEF NineInv, At
<1>2. Mounted /\ ask # NoAsk
  BY Zenon, <1>1, NoAskIs DEF NineInv, Mounting
<1>3. Standing
  BY Zenon, <1>1, <1>2 DEF Standing, Mounted
<1>4. Calling
  BY Zenon, <1>2 DEF Mounted
<1>5. F \in nfids \ {0} /\ F \in FidSet /\ ask \in AskTypes
  BY Zenon, <1>1, <1>4 DEF Calling, NineTypes
<1>6. \A a, b, c : <<a>> # <<>> /\ <<a, b>> # <<>> /\ <<a, b, c>> # <<>>
  BY Zenon
<1>7. ~WalkPending /\ ~OpenPending /\ ~CreatePending /\ ~LastPending
  BY Zenon, <1>1, <1>6 DEF WalkPending, OpenPending, CreatePending, LastPending
<1>8. Replied
  BY Zenon, <1>1, <1>4, <1>7 DEF Calling
<1> QED BY Zenon, <1>1, <1>2, <1>3, <1>5, <1>8

\* Between calls.
LEMMA IdleIs ==
  ASSUME NineInv, Idle
  PROVE  Standing /\ ask = NoAsk /\ Settled(nfids, held)
<1>1. up /\ NineTypes /\ FdsAgree /\ ask.st = "idle"
  BY Zenon DEF NineInv, Idle
<1>2. Mounted
  BY Zenon, <1>1 DEF NineInv, Mounting
<1>3. ~Calling
  BY Zenon, <1>1 DEF Calling, WalkPending, OpenPending, CreatePending, LastPending, Replied, Bopen, Walking
<1>4. ask = NoAsk /\ F = 0
  BY Zenon, <1>2, <1>3, NoAskIs DEF Mounted, F
<1>5. nfids \in SUBSET FidSet /\ 0 \in nfids /\ srv[0].used
  BY Zenon, <1>1, <1>2 DEF NineTypes, Mounted, Root
<1>6. \A g \in FidSet : srv[g].used <=> g \in nfids
  BY Zenon, <1>2, <1>4, <1>5 DEF Mounted
<1>7. \A h \in DOMAIN held : h \in nfids \ {0} /\ srv[h].path = held[h] /\ IsOpen(srv[h], hfds)
  BY Zenon, <1>2 DEF Mounted
<1> QED BY Zenon, <1>1, <1>2, <1>4, <1>5, <1>6, <1>7 DEF Standing, Mounted, Settled

LEMMA OpenMissingKeeps ==
  ASSUME Standing, NEW fids, Settled(fids, held), held' = held, ask \in AskTypes, OpenMissing(fids)
  PROVE  NineInv'
<1>1. CASE ask.op = "create" /\ ask.rel # <<>>
  <2>1. ask.rel \in Paths
    BY Zenon, AskIs DEF Standing
  <2>2. Parent(ask.rel) \in Paths
    BY Zenon, <1>1, <2>1, PathParts
  <2>3. WalkRel(ask, "create", Parent(ask.rel), fids)
    BY Zenon, <1>1 DEF OpenMissing
  <2>4. "create" \in {"open", "create", "mkdir", "rename", "stat", "remove"}
    BY Zenon
  <2>5. /\ "create" = "open" => Parent(ask.rel) = ask.rel
        /\ "create" \in {"create", "mkdir"} => ask.rel # <<>> /\ Parent(ask.rel) = Parent(ask.rel)
    BY Zenon, <1>1
  <2> QED BY Zenon, <2>2, <2>3, <2>4, <2>5, WalkRelKeeps
<1>2. CASE ~(ask.op = "create" /\ ask.rel # <<>>)
  <2>1. FinishAsk(fids)
    BY Zenon, <1>2 DEF OpenMissing
  <2> QED BY Zenon, <2>1, FinishKeeps
<1> QED BY Zenon, <1>1, <1>2

LEMMA OpenReplyKeeps ==
  ASSUME NineInv, OpenReply
  PROVE  NineInv'
<1>1. /\ Standing /\ Mounted /\ F \in nfids \ {0} /\ F \in FidSet /\ ask \in AskTypes
      /\ Replied /\ ask.st = "bopen" /\ ask.st # "io"
  <2>1. At("bopen") /\ "bopen" \notin {"version", "attach", "idle", "io"}
    BY Zenon DEF OpenReply
  <2> QED BY Zenon, <2>1, ReplyIs
<1>2. /\ Own.used <=> Full(rsp[1], ask.path)
      /\ Own.used /\ rsp[2].t = "open" => Own.path = ask.rel /\ IsOpen(Own, hfds)
  BY Zenon, <1>1 DEF Replied, Walking
<1>3. CASE ~Full(rsp[1], ask.path)
  <2>1. OpenMissing(nfids \ {F}) /\ held' = held
    BY Zenon, <1>3 DEF OpenReply, F
  <2>2. Settled(nfids \ {F}, held)
    BY Zenon, <1>1, <1>2, <1>3, CallEnds
  <2> QED BY Zenon, <1>1, <2>1, <2>2, OpenMissingKeeps
<1>4. CASE Full(rsp[1], ask.path) /\ Clunk(ask) /\ held' = held
  BY Zenon, <1>1, <1>4, ClunkSent
<1>5. CASE Full(rsp[1], ask.path) /\ rsp[2].t = "open" /\ held' = Holding(F) /\ FinishAsk(nfids)
  BY Zenon, <1>1, <1>2, <1>5, HoldKeeps
<1>6. \/ Full(rsp[1], ask.path) /\ Clunk(ask) /\ held' = held
      \/ Full(rsp[1], ask.path) /\ rsp[2].t = "open" /\ held' = Holding(F) /\ FinishAsk(nfids)
      \/ ~Full(rsp[1], ask.path)
  BY Zenon DEF OpenReply, F
<1> QED BY Zenon, <1>3, <1>4, <1>5, <1>6

LEMMA OpenedReplyKeeps ==
  ASSUME NineInv, OpenedReply
  PROVE  NineInv'
<1>1. /\ Standing /\ Mounted /\ F \in nfids \ {0} /\ F \in FidSet /\ ask \in AskTypes
      /\ Replied /\ ask.st = "opened" /\ ask.st # "io"
  <2>1. At("opened") /\ "opened" \notin {"version", "attach", "idle", "io"}
    BY Zenon DEF OpenedReply
  <2> QED BY Zenon, <2>1, ReplyIs
<1>2. Own.used /\ (rsp[1].t \in {"open", "create"} => Own.path = ask.rel /\ IsOpen(Own, hfds))
  BY Zenon, <1>1 DEF Replied, Walking, Bopen
<1>3. CASE rsp[1].t \in {"open", "create"}
  <2>1. held' = Holding(F) /\ FinishAsk(nfids)
    BY Zenon, <1>3 DEF OpenedReply, F
  <2> QED BY Zenon, <1>1, <1>2, <1>3, <2>1, HoldKeeps
<1>4. CASE rsp[1].t \notin {"open", "create"}
  <2>1. Clunk(ask) /\ held' = held
    BY Zenon, <1>4 DEF OpenedReply
  <2> QED BY Zenon, <1>1, <2>1, ClunkSent
<1> QED BY Zenon, <1>3, <1>4

LEMMA LastReplyKeeps ==
  ASSUME NineInv, LastReply
  PROVE  NineInv'
<1>1. At("last") /\ "last" \notin {"version", "attach", "idle", "io"} /\ Clunk(ask) /\ held' = held
  BY Zenon DEF LastReply
<1>2. Standing /\ Mounted /\ F \in nfids \ {0} /\ ask.st # "io"
  BY Zenon, <1>1, ReplyIs
<1> QED BY Zenon, <1>1, <1>2, ClunkSent

\* The fid of a call is freed once the server has let go of it.
LEMMA FreedKeeps ==
  ASSUME NineInv, NEW st \in {"clunk", "free"}, At(st), FinishAsk(nfids \ {F}), held' = held
  PROVE  NineInv'
<1>1. /\ Standing /\ Mounted /\ F \in nfids \ {0} /\ F \in FidSet /\ ask \in AskTypes
      /\ Replied /\ ask.st = st /\ ask.st # "io"
  <2>1. st \notin {"version", "attach", "idle", "io"}
    BY Zenon
  <2> QED BY Zenon, <2>1, ReplyIs
<1>2. ~Own.used
  BY Zenon, <1>1 DEF Replied, Walking, Bopen
<1>3. Settled(nfids \ {F}, held)
  BY Zenon, <1>1, <1>2, CallEnds
<1> QED BY Zenon, <1>1, <1>3, FinishKeeps

\* walk_rel's loop and what follows it.
LEMMA GoOn ==
  ASSUME Standing, Mounted, F \in nfids \ {0}, ask \in AskTypes, ask.st # "io", held' = held, Own.used,
         NEW st \in {"opened", "last", "stat", "free"}, NEW msg, Send([ask EXCEPT !.st = st], <<msg>>, nfids),
         \/ /\ st = "opened" /\ Own.fd = NoFd
            /\ \/ msg = Tmsg("open", F) /\ Own.path = ask.rel
               \/ msg = Tcreate(F, Leaf(ask.rel), FALSE) /\ ask.rel # <<>> /\ Own.path = Parent(ask.rel)
         \/ /\ st = "last"
            /\ \E name \in Names : msg \in {Tcreate(F, name, TRUE), [t |-> "wstat", fid |-> F, name |-> name]}
         \/ st = "stat" /\ msg = Tmsg("stat", F)
         \/ st = "free" /\ msg = Tmsg("remove", F)
  PROVE  NineInv'
<1> DEFINE a == [ask EXCEPT !.st = st]
<1>1. a \in AskTypes
  BY Zenon DEF AskTypes
<1>2. a.st = st /\ a.fid = F /\ a.rel = ask.rel
  BY Zenon DEF AskTypes, F
<1>3. Send(a, <<msg>>, nfids)
  BY Zenon
<1> HIDE DEF a
<1>4. ask' = a /\ ring' = <<msg>> /\ rsp' = <<>> /\ srv' = srv
  BY Zenon, <1>3 DEF Send
<1>5. F' = F /\ Own' = Own
  BY Zenon, <1>2, <1>4 DEF F, Own
<1>6. OpenPending' \/ CreatePending' \/ LastPending' \/ WalkPending'
  <2>1. CASE st = "opened" /\ Own.fd = NoFd /\ msg = Tmsg("open", F) /\ Own.path = ask.rel
    BY Zenon, <1>2, <1>4, <1>5, <2>1 DEF OpenPending
  <2>2. CASE /\ st = "opened" /\ Own.fd = NoFd /\ msg = Tcreate(F, Leaf(ask.rel), FALSE)
             /\ ask.rel # <<>> /\ Own.path = Parent(ask.rel)
    BY Zenon, <1>2, <1>4, <1>5, <2>2 DEF CreatePending
  <2>3. CASE st = "last" /\ \E name \in Names : msg = Tcreate(F, name, TRUE)
    BY Zenon, <1>2, <1>4, <1>5, <2>3 DEF CreatePending
  <2>4. CASE st = "last" /\ \E name \in Names : msg = [t |-> "wstat", fid |-> F, name |-> name]
    BY Zenon, <1>2, <1>4, <1>5, <2>4 DEF LastPending
  <2>5. CASE st = "stat" /\ msg = Tmsg("stat", F)
    BY Zenon, <1>2, <1>4, <1>5, <2>5 DEF LastPending
  <2>6. CASE st = "free" /\ msg = Tmsg("remove", F)
    BY Zenon, <1>2, <1>4, <1>5, <2>6 DEF LastPending
  <2> QED BY Zenon, <2>1, <2>2, <2>3, <2>4, <2>5, <2>6
<1> QED BY Zenon, <1>1, <1>2, <1>3, <1>6, SameCall

LEMMA NextWalk ==
  ASSUME Standing, Mounted, F \in nfids \ {0}, ask \in AskTypes, ask.st # "io", held' = held, Own.used,
         Walking, Own.fd = NoFd, NEW off \in Nat, off = ask.off + ask.k, off < Len(ask.path),
         Own.path = SubSeq(ask.path, 1, off), NEW k, k = Chunk(Len(ask.path) - off),
         Send([ask EXCEPT !.off = off, !.k = k],
              <<Twalk(F, F, SubSeq(ask.path, off + 1, off + k))>>, nfids)
  PROVE  NineInv'
<1> DEFINE a == [ask EXCEPT !.off = off, !.k = k]
<1>1. ask.off \in Nat /\ ask.k \in Nat /\ Len(ask.path) \in Nat
  BY AskIs DEF Standing, Paths
<1>2. k \in Nat /\ k <= Len(ask.path) - off /\ k # 0 /\ Len(ask.path) - off \in Nat
  <2>1. Len(ask.path) - off \in Nat /\ Len(ask.path) - off # 0
    BY <1>1
  <2> QED BY Zenon, <2>1, ChunkIs
<1>3. a \in AskTypes
  BY Zenon, <1>2 DEF AskTypes
<1>4. a.st = ask.st /\ a.fid = F /\ a.rel = ask.rel /\ a.path = ask.path /\ a.off = off /\ a.k = k /\ a.goal = ask.goal
  BY Zenon DEF AskTypes, F
<1>5. Send(a, <<Twalk(F, F, SubSeq(ask.path, off + 1, off + k))>>, nfids)
  BY Zenon
<1> HIDE DEF a
<1>6. ask' = a /\ ring' = <<Twalk(F, F, SubSeq(ask.path, off + 1, off + k))>> /\ rsp' = <<>> /\ srv' = srv
  BY Zenon, <1>5 DEF Send
<1>7. F' = F /\ Own' = Own
  BY Zenon, <1>4, <1>6 DEF F, Own
<1>8. off + k <= Len(ask.path)
  BY <1>1, <1>2
<1>9. off # 0
  <2>1. ask.k # 0
    <3>1. ask.path = <<>> => Len(ask.path) = 0
      OBVIOUS
    <3>2. ask.path # <<>>
      BY <1>1, <3>1
    <3> QED BY Zenon, <3>2 DEF Walking
  <2> QED BY <1>1, <2>1
<1>10. Walking'
  BY Zenon, <1>2, <1>4, <1>6, <1>8 DEF Walking
<1>11. WalkPending'
  BY Zenon, <1>4, <1>6, <1>7, <1>9, <1>10 DEF WalkPending
<1> QED BY Zenon, <1>3, <1>4, <1>5, <1>11, SameCall

LEMMA WalkReplyKeeps ==
  ASSUME NineInv, WalkReply, WalksHold
  PROVE  NineInv'
<1>1. /\ Standing /\ Mounted /\ F \in nfids \ {0} /\ F \in FidSet /\ ask \in AskTypes
      /\ Replied /\ ask.st = "walk" /\ ask.st # "io"
  <2>1. At("walk") /\ "walk" \notin {"version", "attach", "idle", "io"}
    BY Zenon DEF WalkReply
  <2> QED BY Zenon, <2>1, ReplyIs
<1>2. /\ Walking /\ (Own.used <=> Got(rsp[1]) \/ ask.off # 0)
      /\ (Got(rsp[1]) => Own.fd = NoFd /\ Own.path = SubSeq(ask.path, 1, ask.off + ask.k))
  BY Zenon, <1>1 DEF Replied, Bopen
<1>3. held' = held
  BY Zenon DEF WalkReply
<1>4. ask.path \in Paths /\ ask.rel \in Paths /\ ask.to \in Names /\ ask.off \in Nat /\ ask.k \in Nat
  BY Zenon, <1>1, AskIs DEF Standing
<1>5. CASE ~Got(rsp[1])
  <2>1. ask.off = 0
    BY Zenon, <1>5 DEF WalksHold, WalkReply
  <2>2. Settled(nfids \ {F}, held)
    BY Zenon, <1>1, <1>2, <1>5, <2>1, CallEnds
  <2>3. IF ask.goal = "open" THEN OpenMissing(nfids \ {F}) ELSE FinishAsk(nfids \ {F})
    BY Zenon, <1>5 DEF WalkReply, Got, F
  <2>4. CASE OpenMissing(nfids \ {F})
    BY Zenon, <1>1, <1>3, <2>2, <2>4, OpenMissingKeeps
  <2>5. CASE FinishAsk(nfids \ {F})
    BY Zenon, <1>1, <1>3, <2>2, <2>5, FinishKeeps
  <2> QED BY Zenon, <2>3, <2>4, <2>5
<1>6. CASE Got(rsp[1]) /\ ask.off + ask.k < Len(ask.path)
  <2> DEFINE off == ask.off + ask.k
             k == Chunk(Len(ask.path) - off)
  <2>1. off \in Nat
    BY <1>4
  <2>2. off # Len(ask.path)
    BY <1>4, <1>6
  <2>3. Send([ask EXCEPT !.off = off, !.k = k],
             <<Twalk(F, F, SubSeq(ask.path, off + 1, off + k))>>, nfids)
    BY Zenon, <1>6, <2>2 DEF WalkReply, Got, F
  <2>4. Own.used /\ Own.fd = NoFd /\ Own.path = SubSeq(ask.path, 1, off) /\ off < Len(ask.path)
    BY Zenon, <1>2, <1>6
  <2>5. off = ask.off + ask.k /\ k = Chunk(Len(ask.path) - off)
    BY Zenon
  <2> HIDE DEF off, k
  <2> QED BY Zenon, <1>1, <1>2, <1>3, <2>1, <2>3, <2>4, <2>5, NextWalk
<1>7. CASE Got(rsp[1]) /\ ask.off + ask.k = Len(ask.path)
  <2>1. Own.used /\ Own.fd = NoFd /\ Own.path = ask.path
    BY Zenon, <1>2, <1>4, <1>7, PathParts
  <2>2. ~(ask.off + ask.k < Len(ask.path))
    BY <1>4, <1>7
  <2> DEFINE Go(st, msg) == Send([ask EXCEPT !.st = st], <<msg>>, nfids)
  <2>3. CASE ask.goal = "open"
    <3>1. Clunk(ask) \/ Go("opened", Tmsg("open", F))
      BY Zenon, <1>7, <2>2, <2>3 DEF WalkReply, Got, F
    <3>2. Own.path = ask.rel
      BY Zenon, <1>2, <2>1, <2>3 DEF Walking
    <3>3. CASE Clunk(ask)
      BY Zenon, <1>1, <1>3, <3>3, ClunkSent
    <3>4. CASE Go("opened", Tmsg("open", F))
      BY Zenon, <1>1, <1>3, <2>1, <3>2, <3>4, GoOn
    <3> QED BY Zenon, <3>1, <3>3, <3>4
  <2>4. CASE ask.goal = "create"
    <3>1. Go("opened", Tcreate(F, Leaf(ask.rel), FALSE))
      BY Zenon, <1>7, <2>2, <2>4 DEF WalkReply, Got, F
    <3>2. ask.rel # <<>> /\ Own.path = Parent(ask.rel)
      BY Zenon, <1>2, <2>1, <2>4 DEF Walking
    <3> QED BY Zenon, <1>1, <1>3, <2>1, <3>1, <3>2, GoOn
  <2>5. CASE ask.goal = "mkdir"
    <3>1. Go("last", Tcreate(F, Leaf(ask.rel), TRUE))
      BY Zenon, <1>7, <2>2, <2>5 DEF WalkReply, Got, F
    <3>2. Leaf(ask.rel) \in Names
      BY Zenon, <1>2, <1>4, <2>5, PathParts DEF Walking
    <3> QED BY Zenon, <1>1, <1>3, <2>1, <3>1, <3>2, GoOn
  <2>6. CASE ask.goal = "rename"
    <3>1. Go("last", [t |-> "wstat", fid |-> F, name |-> ask.to])
      BY Zenon, <1>7, <2>2, <2>6 DEF WalkReply, Got, F
    <3> QED BY Zenon, <1>1, <1>3, <1>4, <2>1, <3>1, GoOn
  <2>7. CASE ask.goal = "stat"
    <3>1. Go("stat", Tmsg("stat", F))
      BY Zenon, <1>7, <2>2, <2>7 DEF WalkReply, Got, F
    <3> QED BY Zenon, <1>1, <1>3, <2>1, <3>1, GoOn
  <2>8. CASE ask.goal = "remove"
    <3>1. Go("free", Tmsg("remove", F))
      BY Zenon, <1>7, <2>2, <2>8 DEF WalkReply, Got, F
    <3> QED BY Zenon, <1>1, <1>3, <2>1, <3>1, GoOn
  <2> QED BY Zenon, <1>2, <2>3, <2>4, <2>5, <2>6, <2>7, <2>8 DEF Walking
<1>8. ASSUME Got(rsp[1]) PROVE ask.off + ask.k < Len(ask.path) \/ ask.off + ask.k = Len(ask.path)
  BY Zenon, <1>8 DEF WalkReply, Got
<1> QED BY Zenon, <1>5, <1>6, <1>7, <1>8

\* A batch of one ring, or no fid is left.
LEMMA RemoveRelKeeps ==
  ASSUME Standing, NEW fids, Settled(fids, held), held' = held, ask \in AskTypes, RemoveRel(fids)
  PROVE  NineInv'
<1>1. ask.rel \in Paths /\ fids \in SUBSET FidSet
  BY Zenon, AskIs DEF Standing, Settled
<1>2. CASE Deep(ask.rel)
  <2>1. WalkRel(ask, "remove", ask.rel, fids)
    BY Zenon, <1>2 DEF RemoveRel
  <2>2. "remove" \in {"open", "create", "mkdir", "rename", "stat", "remove"} /\ "remove" \notin {"create", "mkdir"}
    BY Zenon
  <2>3. /\ "remove" = "open" => ask.rel = ask.rel
        /\ "remove" \in {"create", "mkdir"} => ask.rel # <<>> /\ ask.rel = Parent(ask.rel)
    BY Zenon, <2>2
  <2> QED BY Zenon, <1>1, <2>1, <2>2, <2>3, WalkRelKeeps
<1>3. CASE ~Deep(ask.rel) /\ fids = FidSet
  <2>1. FinishAsk(fids)
    BY Zenon, <1>3 DEF RemoveRel, Batch
  <2> QED BY Zenon, <2>1, FinishKeeps
<1>4. CASE ~Deep(ask.rel) /\ fids # FidSet
  <2>1. PICK f \in FidSet \ fids :
          Send([ask EXCEPT !.st = "free", !.fid = f, !.path = ask.rel],
               <<Twalk(0, f, ask.rel)>> \o <<Tmsg("remove", f)>>, fids \cup {f})
    BY Zenon, <1>4 DEF RemoveRel, Batch, NextFid
  <2>3. Send([ask EXCEPT !.st = "free", !.fid = f, !.path = ask.rel],
             <<Twalk(0, f, ask.rel), Tmsg("remove", f)>>, fids \cup {f})
    BY Zenon, <2>1, JoinTwo
  <2> QED BY Zenon, <1>1, <2>1, <2>3, BatchStarts
<1> QED BY Zenon, <1>2, <1>3, <1>4

LEMMA StattedKeeps ==
  ASSUME Standing, NEW r, NEW fids, Settled(fids, held), held' = held, ask \in AskTypes, Statted(r, fids)
  PROVE  NineInv'
<1>1. CASE RemoveRel(fids)
  BY Zenon, <1>1, RemoveRelKeeps
<1>2. CASE FinishAsk(fids)
  BY Zenon, <1>2, FinishKeeps
<1> QED BY Zenon, <1>1, <1>2 DEF Statted

LEMMA StatReplyKeeps ==
  ASSUME NineInv, StatReply
  PROVE  NineInv'
<1>1. held' = held
  BY Zenon DEF StatReply
<1>2. ASSUME NEW st \in {"bstat", "statted"}, At(st), NEW r, Statted(r, nfids \ {F}) PROVE NineInv'
  <2>1. st \notin {"version", "attach", "idle", "io"}
    BY Zenon, <1>2
  <2>2. /\ Standing /\ Mounted /\ F \in nfids \ {0} /\ F \in FidSet /\ ask \in AskTypes
        /\ Replied /\ ask.st = st /\ ask.st # "io"
    BY Zenon, <1>2, <2>1, ReplyIs
  <2>3. ~Own.used
    BY Zenon, <2>2 DEF Replied, Walking, Bopen
  <2>4. Settled(nfids \ {F}, held)
    BY Zenon, <2>2, <2>3, CallEnds
  <2> QED BY Zenon, <1>1, <1>2, <2>2, <2>4, StattedKeeps
<1>3. CASE At("stat") /\ Send([ask EXCEPT !.st = "statted", !.got = rsp[1]], <<Tmsg("clunk", F)>>, nfids)
  <2>1. /\ Standing /\ Mounted /\ F \in nfids \ {0} /\ F \in FidSet /\ ask \in AskTypes
        /\ Replied /\ ask.st = "stat" /\ ask.st # "io"
    <3>1. "stat" \notin {"version", "attach", "idle", "io"}
      BY Zenon
    <3> QED BY Zenon, <1>3, <3>1, ReplyIs
  <2>2. rsp[1] \in Replies
    <3>1. Len(rsp) = 1
      BY Zenon, <2>1 DEF Replied, Walking, Bopen
    <3>2. rsp \in Seq(Replies)
      BY Zenon, <2>1 DEF Standing, NineTypes
    <3> HIDE DEF Replies
    <3> QED BY <3>1, <3>2
  <2> DEFINE a == [ask EXCEPT !.st = "statted", !.got = rsp[1]]
  <2>3. a \in AskTypes
    BY Zenon, <2>1, <2>2 DEF AskTypes
  <2>4. a.st = "statted" /\ a.fid = F
    BY Zenon, <2>1 DEF AskTypes, F
  <2>5. Send(a, <<Tmsg("clunk", F)>>, nfids)
    BY Zenon, <1>3
  <2> HIDE DEF a
  <2>6. ask' = a /\ ring' = <<Tmsg("clunk", F)>>
    BY Zenon, <2>5 DEF Send
  <2>7. F' = F
    BY Zenon, <2>4, <2>6 DEF F
  <2>8. LastPending'
    BY Zenon, <2>4, <2>6, <2>7 DEF LastPending
  <2> QED BY Zenon, <1>1, <2>1, <2>3, <2>4, <2>5, <2>8, SameCall
<1>4. \/ \E st \in {"bstat", "statted"} : At(st) /\ \E r : Statted(r, nfids \ {F})
      \/ At("stat") /\ Send([ask EXCEPT !.st = "statted", !.got = rsp[1]], <<Tmsg("clunk", F)>>, nfids)
  BY Zenon DEF StatReply, F
<1> QED BY Zenon, <1>2, <1>3, <1>4

LEMMA IoReplyKeeps ==
  ASSUME NineInv, IoReply
  PROVE  NineInv'
<1>1. up /\ NineTypes /\ FdsAgree /\ ask.st = "io" /\ FinishAsk(nfids) /\ held' = held
  BY Zenon DEF NineInv, At, IoReply
<1>2. Mounted /\ ask # NoAsk
  BY Zenon, <1>1, NoAskIs DEF NineInv, Mounting
<1>3. Calling
  BY Zenon, <1>2 DEF Mounted
<1>4. Own.used /\ F \in nfids \ {0}
  BY Zenon, <1>1, <1>3 DEF Calling, WalkPending, OpenPending, CreatePending, LastPending, Replied, Bopen, Walking
<1>5. Standing /\ F \in FidSet
  BY Zenon, <1>1, <1>2, <1>4 DEF Standing, Mounted, NineTypes
<1>6. Settled(nfids, held)
  BY Zenon, <1>2, <1>4, <1>5, CallEnds
<1> QED BY Zenon, <1>1, <1>5, <1>6, FinishKeeps

LEMMA MountKeeps ==
  ASSUME NineInv, MountVersion \/ MountAttach
  PROVE  NineInv'
<1>1. up /\ NineTypes /\ FdsAgree /\ ring = <<>> /\ held' = held /\ ask \in AskTypes
  BY Zenon DEF NineInv, NineTypes, At, MountVersion, MountAttach
<1>2. ask.st = "version" \/ ask.st = "attach"
  BY Zenon DEF At, MountVersion, MountAttach
<1>3. Mounting
  <2>1. ~Calling
    BY Zenon, <1>2 DEF Calling, WalkPending, OpenPending, CreatePending, LastPending, Replied, Bopen, Walking
  <2>2. ask # NoAsk
    BY Zenon, <1>2, NoAskIs
  <2> QED BY Zenon, <1>1, <2>1, <2>2 DEF NineInv, Mounted
<1>4. CASE MountVersion
  <2> DEFINE a == [ask EXCEPT !.st = "attach"]
  <2>1. a \in AskTypes
    BY Zenon, <1>1 DEF AskTypes
  <2>2. a.st = "attach"
    BY Zenon, <1>1 DEF AskTypes
  <2>3. Send(a, <<Tmsg("attach", 0)>>, nfids) /\ ask.st = "version"
    BY Zenon, <1>4 DEF MountVersion, At
  <2> HIDE DEF a
  <2>4. /\ ask' = a /\ ring' = <<Tmsg("attach", 0)>> /\ rsp' = <<>> /\ nfids' = nfids /\ srv' = srv
        /\ hfds' = hfds /\ up' = up
    BY Zenon, <2>3 DEF Send
  <2>5. \A g \in FidSet : ~srv[g].used
    BY Zenon, <1>3, <2>3 DEF Mounting
  <2>6. Mounting'
    BY Zenon, <1>1, <1>3, <2>2, <2>4, <2>5 DEF Mounting
  <2>7. NineTypes'
    <3>1. <<>> \in Seq(Replies)
      OBVIOUS
    <3> QED BY Zenon, <1>1, <2>1, <2>4, <3>1 DEF NineTypes
  <2>8. FdsAgree'
    BY Zenon, <1>1, <2>4 DEF FdsAgree, OwnFds
  <2> QED BY Zenon, <1>1, <2>4, <2>6, <2>7, <2>8 DEF NineInv
<1>5. CASE MountAttach
  <2>1. FinishAsk({0}) /\ ask.st = "attach"
    BY Zenon, <1>5 DEF MountAttach, At
  <2>2. ring # <<Tmsg("attach", 0)>>
    BY Zenon, <1>1
  <2>3. Root /\ (\A g \in FidSet \ {0} : ~srv[g].used) /\ DOMAIN held = {}
    BY Zenon, <1>3, <2>1, <2>2 DEF Mounting
  <2>4. 0 \in FidSet
    BY NinePAssumption DEF FidSet
  <2>5. Settled({0}, held)
    BY Zenon, <2>3, <2>4 DEF Settled, Root
  <2>6. Standing
    BY Zenon, <1>1, <2>3 DEF Standing
  <2> QED BY Zenon, <1>1, <2>1, <2>5, <2>6, FinishKeeps
<1> QED BY Zenon, <1>4, <1>5

LEMMA ClientKeeps ==
  ASSUME NineInv, Client, WalksHold
  PROVE  NineInv'
<1>1. ClunkReply => NineInv'
  BY Zenon, FreedKeeps DEF ClunkReply, F
<1>2. FreeReply => NineInv'
  BY Zenon, FreedKeeps DEF FreeReply, F
<1> QED BY Zenon, <1>1, <1>2, MountKeeps, OpenReplyKeeps, WalkReplyKeeps, OpenedReplyKeeps, LastReplyKeeps,
        StatReplyKeeps, IoReplyKeeps DEF Client

-----------------------------------------------------------------------------
(* The guest's calls.                                                      *)

LEMMA PathsAre == Seq(STRING) \subseteq Paths /\ STRING \subseteq Names
<1>1. STRING \subseteq Names
  BY Zenon DEF Names
<1> HIDE DEF Names
<1>2. ASSUME NEW S, NEW T, S \subseteq T PROVE Seq(S) \subseteq Seq(T)
  BY <1>2
<1> QED BY Zenon, <1>1, <1>2 DEF Paths

\* A call that starts with op, rel and to.
LEMMA FreshAsk ==
  ASSUME NEW op \in {"open", "create", "opendir", "stat", "unlink", "rmdir", "mkdir", "rename"}, NEW rel \in Paths
  PROVE  /\ [NoAsk EXCEPT !.op = op, !.rel = rel] \in AskTypes
         /\ [NoAsk EXCEPT !.op = op, !.rel = rel].rel = rel
<1>1. NoAsk \in AskTypes
  BY Zenon, NoAskIs
<1> HIDE DEF NoAsk
<1>2. [NoAsk EXCEPT !.op = op, !.rel = rel] \in AskTypes
  BY Zenon, <1>1 DEF AskTypes
<1>3. [NoAsk EXCEPT !.op = op, !.rel = rel].rel = rel
  BY Zenon, <1>1 DEF AskTypes
<1> QED BY Zenon, <1>2, <1>3

LEMMA RenameAsk ==
  ASSUME NEW rel \in Paths, NEW to \in Names
  PROVE  [NoAsk EXCEPT !.op = "rename", !.rel = rel, !.to = to] \in AskTypes
<1>1. NoAsk \in AskTypes
  BY Zenon, NoAskIs
<1> HIDE DEF NoAsk
<1> QED BY Zenon, <1>1 DEF AskTypes

LEMMA NineOpenKeeps ==
  ASSUME NineInv, NEW op \in {"open", "create", "opendir"}, NEW rel \in Paths, NineOpen(op, rel)
  PROVE  NineInv'
<1> DEFINE a == [NoAsk EXCEPT !.op = op, !.rel = rel]
<1>1. Standing /\ Settled(nfids, held) /\ held' = held /\ nfids \in SUBSET FidSet
  BY Zenon, IdleIs DEF NineOpen, Settled
<1>2. a \in AskTypes /\ a.rel = rel
  <2>1. op \in {"open", "create", "opendir", "stat", "unlink", "rmdir", "mkdir", "rename"}
    BY Zenon
  <2> QED BY ZenonT(30), <2>1, FreshAsk
<1>3. CASE Deep(rel)
  <2>1. WalkRel(a, "open", rel, nfids)
    BY Zenon, <1>3 DEF NineOpen
  <2> HIDE DEF a
  <2>2. "open" \in {"open", "create", "mkdir", "rename", "stat", "remove"}
    BY Zenon
  <2>3. /\ "open" = "open" => rel = a.rel
        /\ "open" \in {"create", "mkdir"} => a.rel # <<>> /\ rel = Parent(a.rel)
    BY Zenon, <1>2
  <2> QED BY Zenon, <1>1, <1>2, <2>1, <2>2, <2>3, WalkRelKeeps
<1>4. CASE ~Deep(rel) /\ nfids = FidSet
  <2>1. FinishAsk(nfids)
    BY Zenon, <1>4 DEF NineOpen, Batch
  <2> QED BY Zenon, <1>1, <2>1, FinishKeeps
<1>5. CASE ~Deep(rel) /\ nfids # FidSet
  <2>1. PICK f \in FidSet \ nfids :
          Send([a EXCEPT !.st = "bopen", !.fid = f, !.path = rel],
               <<Twalk(0, f, rel)>> \o <<Tmsg("open", f)>>, nfids \cup {f})
    BY Zenon, <1>5 DEF NineOpen, Batch, NextFid
  <2> HIDE DEF a
  <2>3. Send([a EXCEPT !.st = "bopen", !.fid = f, !.path = rel],
             <<Twalk(0, f, rel), Tmsg("open", f)>>, nfids \cup {f})
    BY Zenon, <2>1, JoinTwo
  <2> QED BY Zenon, <1>1, <1>2, <2>1, <2>3, BatchStarts
<1> QED BY Zenon, <1>3, <1>4, <1>5

LEMMA StatRelKeeps ==
  ASSUME NineInv, NEW op \in {"stat", "unlink", "rmdir"}, NEW rel \in Paths, StatRel(op, rel)
  PROVE  NineInv'
<1> DEFINE a == [NoAsk EXCEPT !.op = op, !.rel = rel]
<1>1. Standing /\ Settled(nfids, held) /\ held' = held /\ nfids \in SUBSET FidSet
  BY Zenon, IdleIs DEF StatRel, Settled
<1>2. a \in AskTypes /\ a.rel = rel
  <2>1. op \in {"open", "create", "opendir", "stat", "unlink", "rmdir", "mkdir", "rename"}
    BY Zenon
  <2> QED BY Zenon, <2>1, FreshAsk
<1>3. CASE Deep(rel)
  <2>1. WalkRel(a, "stat", rel, nfids)
    BY Zenon, <1>3 DEF StatRel
  <2> HIDE DEF a
  <2>2. "stat" \in {"open", "create", "mkdir", "rename", "stat", "remove"} /\ "stat" \notin {"create", "mkdir"}
    BY Zenon
  <2>3. /\ "stat" = "open" => rel = a.rel
        /\ "stat" \in {"create", "mkdir"} => a.rel # <<>> /\ rel = Parent(a.rel)
    BY Zenon, <1>2, <2>2
  <2> QED BY Zenon, <1>1, <1>2, <2>1, <2>2, <2>3, WalkRelKeeps
<1>4. CASE ~Deep(rel) /\ nfids = FidSet
  <2>1. FinishAsk(nfids)
    BY Zenon, <1>4 DEF StatRel, Batch
  <2> QED BY Zenon, <1>1, <2>1, FinishKeeps
<1>5. CASE ~Deep(rel) /\ nfids # FidSet
  <2>1. PICK f \in FidSet \ nfids :
          Send([a EXCEPT !.st = "bstat", !.fid = f, !.path = rel],
               <<Twalk(0, f, rel)>> \o <<Tmsg("stat", f), Tmsg("clunk", f)>>, nfids \cup {f})
    BY Zenon, <1>5 DEF StatRel, Batch, NextFid
  <2> HIDE DEF a
  <2>3. Send([a EXCEPT !.st = "bstat", !.fid = f, !.path = rel],
             <<Twalk(0, f, rel), Tmsg("stat", f), Tmsg("clunk", f)>>, nfids \cup {f})
    BY Zenon, <2>1, JoinThree
  <2> QED BY Zenon, <1>1, <1>2, <2>1, <2>3, BatchStarts
<1> QED BY Zenon, <1>3, <1>4, <1>5

LEMMA NineMkdirKeeps ==
  ASSUME NineInv, NEW rel \in Paths, NineMkdir(rel)
  PROVE  NineInv'
<1> DEFINE a == [NoAsk EXCEPT !.op = "mkdir", !.rel = rel]
           p == Parent(rel)
<1>1. Standing /\ Settled(nfids, held) /\ held' = held /\ nfids \in SUBSET FidSet
  BY Zenon, IdleIs DEF NineMkdir, Settled
<1>2. a \in AskTypes /\ a.rel = rel
  <2>1. "mkdir" \in {"open", "create", "opendir", "stat", "unlink", "rmdir", "mkdir", "rename"}
    BY Zenon
  <2> QED BY Zenon, <2>1, FreshAsk
<1>3. rel # <<>> /\ p \in Paths /\ Leaf(rel) \in Names
  BY Zenon, PathParts DEF NineMkdir
<1>4. CASE Deep(p)
  <2>1. WalkRel(a, "mkdir", p, nfids)
    BY Zenon, <1>4 DEF NineMkdir
  <2> HIDE DEF a
  <2>2. "mkdir" \in {"open", "create", "mkdir", "rename", "stat", "remove"}
    BY Zenon
  <2>3. /\ "mkdir" = "open" => p = a.rel
        /\ "mkdir" \in {"create", "mkdir"} => a.rel # <<>> /\ p = Parent(a.rel)
    BY Zenon, <1>2, <1>3
  <2> QED BY Zenon, <1>1, <1>2, <1>3, <2>1, <2>2, <2>3, WalkRelKeeps
<1>5. CASE ~Deep(p) /\ nfids = FidSet
  <2>1. FinishAsk(nfids)
    BY Zenon, <1>5 DEF NineMkdir, Batch
  <2> QED BY Zenon, <1>1, <2>1, FinishKeeps
<1>6. CASE ~Deep(p) /\ nfids # FidSet
  <2>1. PICK f \in FidSet \ nfids :
          Send([a EXCEPT !.st = "free", !.fid = f, !.path = p],
               <<Twalk(0, f, p)>> \o <<Tcreate(f, Leaf(rel), TRUE), Tmsg("clunk", f)>>, nfids \cup {f})
    BY Zenon, <1>6 DEF NineMkdir, Batch, NextFid
  <2> HIDE DEF a, p
  <2>3. Send([a EXCEPT !.st = "free", !.fid = f, !.path = p],
             <<Twalk(0, f, p), Tcreate(f, Leaf(rel), TRUE), Tmsg("clunk", f)>>, nfids \cup {f})
    BY Zenon, <2>1, JoinThree
  <2> QED BY Zenon, <1>1, <1>2, <1>3, <2>1, <2>3, BatchStarts
<1> QED BY Zenon, <1>4, <1>5, <1>6

LEMMA NineRenameKeeps ==
  ASSUME NineInv, NEW rel \in Paths, NEW to \in Names, NineRename(rel, to)
  PROVE  NineInv'
<1> DEFINE a == [NoAsk EXCEPT !.op = "rename", !.rel = rel, !.to = to]
<1>1. Standing /\ Settled(nfids, held) /\ held' = held
  BY Zenon, IdleIs DEF NineRename
<1>2. a \in AskTypes
  BY Zenon, RenameAsk
<1>3. WalkRel(a, "rename", rel, nfids)
  BY Zenon DEF NineRename
<1> HIDE DEF a
<1>4. "rename" \in {"open", "create", "mkdir", "rename", "stat", "remove"} /\ "rename" \notin {"create", "mkdir"}
  BY Zenon
<1>5. /\ "rename" = "open" => rel = a.rel
      /\ "rename" \in {"create", "mkdir"} => a.rel # <<>> /\ rel = Parent(a.rel)
  BY Zenon, <1>4
<1> QED BY Zenon, <1>1, <1>2, <1>3, <1>4, <1>5, WalkRelKeeps

\* A handle that is held, while no call is under way.
LEMMA HandleIs ==
  ASSUME NineInv, Idle, NEW h \in DOMAIN held
  PROVE  /\ Standing /\ Settled(nfids, held) /\ h \in FidSet /\ h \in nfids \ {0} /\ srv[h].used
         /\ nfids \in SUBSET FidSet /\ 0 \in nfids
<1>1. Standing /\ Settled(nfids, held)
  BY Zenon, IdleIs
<1> QED BY Zenon, <1>1 DEF Settled

LEMMA HandleAsk ==
  ASSUME NEW h \in FidSet
  PROVE  /\ [NoAsk EXCEPT !.op = "close", !.fid = h] \in AskTypes
         /\ [[NoAsk EXCEPT !.op = "close", !.fid = h] EXCEPT !.st = "clunk"] \in AskTypes
         /\ [[NoAsk EXCEPT !.op = "close", !.fid = h] EXCEPT !.st = "clunk"].st = "clunk"
         /\ [[NoAsk EXCEPT !.op = "close", !.fid = h] EXCEPT !.st = "clunk"].fid = h
         /\ [NoAsk EXCEPT !.op = "close", !.fid = h].fid = h
         /\ [NoAsk EXCEPT !.op = "io", !.st = "io", !.fid = h] \in AskTypes
         /\ [NoAsk EXCEPT !.op = "io", !.st = "io", !.fid = h].st = "io"
         /\ [NoAsk EXCEPT !.op = "io", !.st = "io", !.fid = h].fid = h
<1>1. NoAsk \in AskTypes
  BY Zenon, NoAskIs
<1> HIDE DEF NoAsk
<1> DEFINE a == [NoAsk EXCEPT !.op = "close", !.fid = h]
           b == [a EXCEPT !.st = "clunk"]
           c == [NoAsk EXCEPT !.op = "io", !.st = "io", !.fid = h]
<1>2. a \in AskTypes /\ c \in AskTypes
  BY Zenon, <1>1 DEF AskTypes
<1>3. a.fid = h /\ c.st = "io" /\ c.fid = h
  BY Zenon, <1>1 DEF AskTypes
<1> HIDE DEF a, c
<1>4. b \in AskTypes
  BY Zenon, <1>2 DEF AskTypes
<1>5. b.st = "clunk" /\ b.fid = h
  BY Zenon, <1>2, <1>3 DEF AskTypes
<1> QED BY Zenon, <1>2, <1>3, <1>4, <1>5 DEF a, c

LEMMA NineCloseKeeps ==
  ASSUME NineInv, NEW h \in DOMAIN held, NineClose(h)
  PROVE  NineInv'
<1> DEFINE a == [[NoAsk EXCEPT !.op = "close", !.fid = h] EXCEPT !.st = "clunk"]
<1>1. /\ Standing /\ Settled(nfids, held) /\ h \in FidSet /\ h \in nfids \ {0} /\ srv[h].used
      /\ nfids \in SUBSET FidSet /\ 0 \in nfids
  BY Zenon, HandleIs DEF NineClose
<1>2. a \in AskTypes /\ a.st = "clunk" /\ a.fid = h
  BY Zenon, <1>1, HandleAsk
<1>3. held' = [g \in DOMAIN held \ {h} |-> held[g]] /\ Send(a, <<Tmsg("clunk", h)>>, nfids)
  BY Zenon, <1>1, HandleAsk DEF NineClose, Clunk
<1> HIDE DEF a
<1>4. \A g \in FidSet \ {a.fid} : srv[g].used <=> g \in nfids
  BY Zenon, <1>1 DEF Settled
<1>5. \A g \in DOMAIN held' :
        /\ g \in nfids \ {0} /\ (g = a.fid => a.st = "io")
        /\ srv[g].path = held'[g] /\ IsOpen(srv[g], hfds)
  <2> SUFFICES ASSUME NEW g \in DOMAIN held'
               PROVE  /\ g \in nfids \ {0} /\ (g = a.fid => a.st = "io")
                      /\ srv[g].path = held'[g] /\ IsOpen(srv[g], hfds)
    BY Zenon
  <2>1. g \in DOMAIN held /\ g # h /\ held'[g] = held[g]
    BY Zenon, <1>3
  <2> QED BY Zenon, <1>1, <1>2, <2>1 DEF Settled
<1>6. ask' = a /\ ring' = <<Tmsg("clunk", h)>> /\ nfids' = nfids
  BY Zenon, <1>3 DEF Send
<1>7. F' = h
  BY Zenon, <1>2, <1>6 DEF F
<1>8. LastPending'
  BY Zenon, <1>2, <1>6, <1>7 DEF LastPending
<1>9. (a = NoAsk /\ <<Tmsg("clunk", h)>> = <<>>) \/ Calling'
  BY Zenon, <1>1, <1>6, <1>7, <1>8 DEF Calling
<1>10. /\ Standing /\ a \in AskTypes /\ nfids \in SUBSET FidSet /\ Send(a, <<Tmsg("clunk", h)>>, nfids)
       /\ 0 \in nfids
       /\ \A g \in FidSet \ {a.fid} : srv[g].used <=> g \in nfids
       /\ \A g \in DOMAIN held' :
            /\ g \in nfids \ {0} /\ (g = a.fid => a.st = "io")
            /\ srv[g].path = held'[g] /\ IsOpen(srv[g], hfds)
       /\ (a = NoAsk /\ <<Tmsg("clunk", h)>> = <<>>) \/ Calling'
  BY Zenon, <1>1, <1>2, <1>3, <1>4, <1>5, <1>9
<1> QED BY Zenon, <1>10, SendKeeps

LEMMA NineIoKeeps ==
  ASSUME NineInv, NEW h \in DOMAIN held, NineIo(h)
  PROVE  NineInv'
<1> DEFINE a == [NoAsk EXCEPT !.op = "io", !.st = "io", !.fid = h]
<1>1. /\ Standing /\ Settled(nfids, held) /\ h \in FidSet /\ h \in nfids \ {0} /\ srv[h].used
      /\ nfids \in SUBSET FidSet /\ 0 \in nfids
  BY Zenon, HandleIs DEF NineIo
<1>2. a \in AskTypes /\ a.st = "io" /\ a.fid = h
  BY Zenon, <1>1, HandleAsk
<1>3. held' = held /\ Send(a, <<Tmsg("io", h)>>, nfids)
  BY Zenon DEF NineIo
<1> HIDE DEF a
<1>4. \A g \in FidSet \ {a.fid} : srv[g].used <=> g \in nfids
  BY Zenon, <1>1 DEF Settled
<1>5. \A g \in DOMAIN held' :
        /\ g \in nfids \ {0} /\ (g = a.fid => a.st = "io")
        /\ srv[g].path = held'[g] /\ IsOpen(srv[g], hfds)
  BY Zenon, <1>1, <1>2, <1>3 DEF Settled
<1>6. ask' = a /\ ring' = <<Tmsg("io", h)>> /\ nfids' = nfids /\ srv' = srv
  BY Zenon, <1>3 DEF Send
<1>7. F' = h /\ Own'.used
  BY Zenon, <1>1, <1>2, <1>6 DEF F, Own
<1>8. (a = NoAsk /\ <<Tmsg("io", h)>> = <<>>) \/ Calling'
  BY Zenon, <1>1, <1>2, <1>6, <1>7 DEF Calling
<1> QED BY Zenon, <1>1, <1>2, <1>3, <1>4, <1>5, <1>8, SendKeeps

LEMMA GuestKeeps ==
  ASSUME NineInv, Guest
  PROVE  NineInv'
<1>1. ASSUME NEW q \in Asks PROVE q[2] \in Paths /\ (q[1] = "rename" => q[3] \in Names)
  BY Zenon, NinePAssumption, PathsAre
<1>2. ASSUME NEW q \in Asks, q[1] \in {"open", "create", "opendir"}, NineOpen(q[1], q[2]) PROVE NineInv'
  BY Zenon, <1>1, <1>2, NineOpenKeeps
<1>3. ASSUME NEW q \in Asks, q[1] \in {"stat", "unlink", "rmdir"}, StatRel(q[1], q[2]) PROVE NineInv'
  BY Zenon, <1>1, <1>3, StatRelKeeps
<1>4. ASSUME NEW q \in Asks, q[1] = "mkdir", NineMkdir(q[2]) PROVE NineInv'
  BY Zenon, <1>1, <1>4, NineMkdirKeeps
<1>5. ASSUME NEW q \in Asks, q[1] = "rename", NineRename(q[2], q[3]) PROVE NineInv'
  BY Zenon, <1>1, <1>5, NineRenameKeeps
<1> QED BY Zenon, <1>2, <1>3, <1>4, <1>5, NineCloseKeeps, NineIoKeeps DEF Guest

\* p9_server_destroy closes what the bound fids hold.
LEMMA DestroyKeeps ==
  ASSUME NineInv, Destroy
  PROVE  NineInv'
<1>1. /\ up /\ hfds' = hfds \ UNION {OwnFd(f) : f \in FidSet} /\ up' = FALSE
      /\ srv' = srv /\ nfids' = nfids /\ ask' = ask /\ rsp' = rsp
  BY Zenon DEF Destroy
<1>2. NineTypes'
  BY Zenon, <1>1 DEF NineInv, NineTypes
<1>3. ASSUME NEW x \in HostFds, x \in hfds' PROVE FALSE
  <2>1. x \in hfds /\ \A f \in FidSet : x \notin OwnFd(f)
    BY Zenon, <1>1, <1>3
  <2>2. PICK g \in OwnFds : srv[g].fd = x
    <3>1. FdsAgree
      BY Zenon, <1>1 DEF NineInv
    <3> QED BY Zenon, <2>1, <3>1 DEF FdsAgree
  <2>3. g \in FidSet /\ x \in OwnFd(g)
    BY Zenon, <2>2 DEF OwnFds, OwnFd
  <2> QED BY Zenon, <2>1, <2>3
<1> QED BY Zenon, <1>1, <1>2, <1>3 DEF NineInv

LEMMA HostKeeps ==
  ASSUME NineInv, UNCHANGED <<hfds, srv, nfids, held, ask, ring, rsp, up>>
  PROVE  NineInv'
<1>1. /\ hfds' = hfds /\ srv' = srv /\ nfids' = nfids /\ held' = held /\ ask' = ask /\ ring' = ring
      /\ rsp' = rsp /\ up' = up
  BY Zenon
<1>2. F' = F /\ Own' = Own
  BY Zenon, <1>1 DEF F, Own
<1>3. NineTypes' <=> NineTypes
  BY Zenon, <1>1 DEF NineTypes
<1>4. FdsAgree => FdsAgree'
  BY Zenon, <1>1, FdsSame
<1>5. Mounting' <=> Mounting
  BY Zenon, <1>1 DEF Mounting, Root
<1>6. Calling => Calling'
  <2>1. Bopen' <=> Bopen
    BY Zenon, <1>1 DEF Bopen
  <2>2. Walking' <=> Walking
    BY Zenon, <1>1 DEF Walking
  <2>3. Got(rsp[1])' <=> Got(rsp[1])
    BY Zenon, <1>1 DEF Got
  <2>4. WalkPending => WalkPending'
    BY Zenon, <1>1, <1>2, <2>1, <2>2 DEF WalkPending
  <2>5. OpenPending => OpenPending'
    BY Zenon, <1>1, <1>2, <2>1 DEF OpenPending
  <2>6. CreatePending => CreatePending'
    BY Zenon, <1>1, <1>2 DEF CreatePending
  <2>7. LastPending => LastPending'
    BY Zenon, <1>1, <1>2 DEF LastPending
  <2>8. Replied => Replied'
    BY Zenon, <1>1, <1>2, <2>1, <2>2, <2>3 DEF Replied
  <2> QED BY Zenon, <1>1, <1>2, <2>4, <2>5, <2>6, <2>7, <2>8 DEF Calling
<1>7. Mounted => Mounted'
  BY Zenon, <1>1, <1>2, <1>6 DEF Mounted, Root
<1>8. CASE up
  <2>1. NineTypes /\ FdsAgree /\ (Mounting \/ Mounted)
    BY Zenon, <1>8 DEF NineInv
  <2>2. NineTypes' /\ FdsAgree' /\ (Mounting' \/ Mounted') /\ up'
    BY Zenon, <1>1, <1>3, <1>4, <1>5, <1>7, <1>8, <2>1
  <2> QED BY Zenon, <2>2 DEF NineInv
<1>9. CASE ~up
  <2>1. NineTypes' /\ ~up' /\ hfds' \cap HostFds = {}
    <3>1. NineTypes /\ hfds \cap HostFds = {}
      BY Zenon, <1>9 DEF NineInv
    <3>2. ~up'
      BY <1>1, <1>9
    <3>3. hfds' \cap HostFds = {}
      BY Zenon, <1>1, <3>1
    <3> QED BY Zenon, <1>3, <3>1, <3>2, <3>3
  <2> QED BY Zenon, <2>1 DEF NineInv
<1> QED BY Zenon, <1>8, <1>9

LEMMA NineInvInit ==
  ASSUME NineInit
  PROVE  NineInv
<1> DEFINE a == [NoAsk EXCEPT !.op = "mount", !.st = "version"]
<1>1. /\ hfds = {0} /\ up = TRUE /\ srv = [f \in FidSet |-> Slot(FALSE, FALSE, NoFd, <<>>)]
      /\ nfids = {0} /\ held = <<>> /\ ask = a /\ ring = <<[t |-> "version"]>> /\ rsp = <<>>
  BY Zenon DEF NineInit
<1>2. a \in AskTypes /\ a.st = "version"
  <2>1. NoAsk \in AskTypes
    BY Zenon, NoAskIs
  <2> HIDE DEF NoAsk
  <2>2. a \in AskTypes
    BY Zenon, <2>1 DEF AskTypes
  <2>3. a.st = "version"
    BY Zenon, <2>1 DEF AskTypes
  <2> QED BY Zenon, <2>2, <2>3
<1> HIDE DEF a
<1>3. 0 \in FidSet /\ 0 \notin HostFds
  BY NinePAssumption DEF FidSet
<1>4. \A g \in FidSet : ~srv[g].used
  BY Zenon, <1>1 DEF Slot
<1>5. NineTypes
  <2>1. Slot(FALSE, FALSE, NoFd, <<>>) \in Slots
    <3>1. <<>> \in Paths
      BY DEF Paths
    <3> QED BY Zenon, <3>1 DEF Slot, Slots
  <2>2. srv \in [FidSet -> Slots]
    BY Zenon, <1>1, <2>1
  <2>3. <<>> \in Seq(Replies)
    OBVIOUS
  <2>4. {0} \in SUBSET FidSet /\ TRUE \in BOOLEAN
    BY Zenon, <1>3
  <2> QED BY Zenon, <1>1, <1>2, <2>2, <2>3, <2>4 DEF NineTypes
<1>6. FdsAgree
  BY Zenon, <1>1, <1>3, <1>4 DEF FdsAgree, OwnFds
<1>7. DOMAIN held = {}
  BY <1>1
<1>8. Mounting
  BY Zenon, <1>1, <1>2, <1>4, <1>7 DEF Mounting
<1> QED BY Zenon, <1>1, <1>5, <1>6, <1>8 DEF NineInv

LEMMA NineInvNext ==
  ASSUME NineInv, WalksHold, [NineNext]_nineVars
  PROVE  NineInv'
<1>1. CASE Serve
  BY Zenon, <1>1, ServerKeeps
<1>2. CASE Client
  BY ZenonT(30), <1>2, ClientKeeps
<1>3. CASE Guest
  BY Zenon, <1>3, GuestKeeps
<1>4. CASE Destroy
  BY Zenon, <1>4, DestroyKeeps
<1>5. CASE HostMeddles
  <2>1. UNCHANGED <<hfds, srv, nfids, held, ask, ring, rsp, up>>
    BY Zenon, <1>5 DEF HostMeddles, HostMakes, HostRemoves
  <2> QED BY Zenon, <2>1, HostKeeps
<1>6. CASE UNCHANGED nineVars
  <2>1. UNCHANGED <<hfds, srv, nfids, held, ask, ring, rsp, up>>
    BY Zenon, <1>6 DEF nineVars
  <2> QED BY Zenon, <2>1, HostKeeps
<1> QED BY ZenonT(30), <1>1, <1>2, <1>3, <1>4, <1>5, <1>6 DEF NineNext

LEMMA NineInvTables ==
  ASSUME NineInv
  PROVE  TablesAgree
<1>1. ASSUME Idle PROVE \A f \in FidSet : srv[f].used <=> f \in nfids
  BY Zenon, <1>1, IdleIs DEF Settled
<1>2. ASSUME up, NEW h \in DOMAIN held
      PROVE  /\ h \in nfids /\ srv[h].used /\ srv[h].path = held[h]
             /\ srv[h].listed \/ srv[h].fd \in HostFds \cap hfds
  <2>1. Mounted /\ NineTypes
    BY Zenon, <1>2 DEF NineInv, Mounting
  <2>2. h \in nfids \ {0} /\ (h = F => ask.st = "io") /\ srv[h].path = held[h] /\ IsOpen(srv[h], hfds)
    BY Zenon, <1>2, <2>1 DEF Mounted
  <2>3. CASE h # F
    <3>1. h \in FidSet \ {F}
      BY Zenon, <2>1, <2>2, <2>3 DEF NineTypes
    <3> QED BY Zenon, <2>1, <2>2, <3>1 DEF Mounted, IsOpen
  <2>4. CASE h = F
    <3>1. ask.st = "io" /\ ask # NoAsk
      BY Zenon, <2>2, <2>4, NoAskIs
    <3>2. Calling
      BY Zenon, <2>1, <3>1 DEF Mounted
    <3>3. Own.used
      BY Zenon, <3>1, <3>2
         DEF Calling, WalkPending, OpenPending, CreatePending, LastPending, Replied, Bopen, Walking
    <3> QED BY Zenon, <2>2, <2>4, <3>3 DEF Own, IsOpen
  <2> QED BY Zenon, <2>3, <2>4
<1> DEFINE own == {f \in FidSet : srv[f].used /\ srv[f].fd # NoFd}
<1>3. /\ hfds \cap HostFds = IF up THEN {srv[f].fd : f \in own} ELSE {}
      /\ up => \A f, g \in own : srv[f].fd = srv[g].fd => f = g
  <2>1. own = OwnFds
    BY Zenon DEF OwnFds
  <2> HIDE DEF own
  <2>2. CASE up
    <3>1. FdsAgree
      BY Zenon, <2>2 DEF NineInv
    <3>2. hfds \cap HostFds = {srv[f].fd : f \in own}
      <4>1. \A x \in HostFds : x \in hfds <=> \E g \in own : srv[g].fd = x
        BY Zenon, <2>1, <3>1 DEF FdsAgree
      <4>2. \A g \in own : srv[g].fd \in HostFds
        BY Zenon, <2>1, <3>1 DEF FdsAgree
      <4> QED BY Zenon, <4>1, <4>2
    <3> QED BY Zenon, <2>1, <2>2, <3>1, <3>2 DEF FdsAgree
  <2>3. CASE ~up
    BY Zenon, <2>3 DEF NineInv
  <2> QED BY Zenon, <2>2, <2>3
<1> QED BY Zenon, <1>1, <1>2, <1>3 DEF TablesAgree

\* For every host directory, every number of fids and every sequence of calls: while no
\* deep walk fails after its first message (the case in which walk_rel leaks its fid),
\* the client's bitmap and the server's fid table agree between calls, handles keep the
\* path they were opened by, and the server's host fds are those of its bound fids.
THEOREM TablesAlwaysAgree == NineSpec /\ []WalksHold => []TablesAgree
<1>1. NineInit => NineInv
  BY Zenon, NineInvInit
<1>2. NineInv /\ WalksHold /\ [NineNext]_nineVars => NineInv'
  BY Zenon, NineInvNext
<1>3. NineInv => TablesAgree
  BY Zenon, NineInvTables
<1> QED BY <1>1, <1>2, <1>3, PTL DEF NineSpec
=============================================================================
