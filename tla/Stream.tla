------------------------------- MODULE Stream -------------------------------
(***************************************************************************)
(* What a C stream promises the program: a file with a position.  A write  *)
(* puts a byte at the position and moves on, a read returns the byte at    *)
(* the position and moves on, a seek moves the position; nothing else      *)
(* changes the file.  After a write error nothing is promised.             *)
(* libc/stdio.c and stdio_core.c are shown to implement it (Stdio).        *)
(***************************************************************************)
EXTENDS Naturals, Sequences

CONSTANTS Bytes, MaxLen, Eof

VARIABLES content, position, got, failed

svars == <<content, position, got, failed>>

\* The file with the bytes of blk written at position p.
Placed(file, p, blk) ==
  [i \in 1 .. (IF p + Len(blk) > Len(file) THEN p + Len(blk) ELSE Len(file)) |->
     IF i > p /\ i <= p + Len(blk) THEN blk[i - p] ELSE file[i]]

Init == content \in UNION {[1 .. n -> Bytes] : n \in 0 .. MaxLen} /\ position = 0 /\ got = Eof /\ failed = FALSE

Put(blk) ==
  /\ position' = position + Len(blk)
  /\ content' = Placed(content, position, blk)
  /\ UNCHANGED <<got, failed>>

Get ==
  /\ position < Len(content)
  /\ got' = content[position + 1]
  /\ position' = position + 1
  /\ UNCHANGED <<content, failed>>

End ==
  /\ position >= Len(content)
  /\ got' = Eof
  /\ UNCHANGED <<content, position, failed>>

Seek(p) ==
  /\ position' = p
  /\ UNCHANGED <<content, got, failed>>

Fail == failed' = TRUE

Next ==
  \/ failed
  \/ \E p \in 0 .. MaxLen : Seek(p)
  \/ Get \/ End \/ Fail
  \/ \E n \in 1 .. MaxLen : \E blk \in [1 .. n -> Bytes] : Put(blk)

Spec == Init /\ [][Next]_svars
=============================================================================
