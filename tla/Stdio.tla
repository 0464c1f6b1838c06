------------------------------- MODULE Stdio --------------------------------
(***************************************************************************)
(* The buffered streams of libc/stdio_core.c, stdio.c and memstream.c: one *)
(* stream with its buffer over a file, an fd offset and host calls that    *)
(* move less than they were asked to, or fail.  A program uses a stream    *)
(* whose flush has failed no further (its buffer may be full, and fputc    *)
(* stores before it looks).                                                *)
(***************************************************************************)
EXTENDS Integers, Sequences, FiniteSets, FiniteSetsExt

CONSTANTS
  Kinds,         \* how the stream was opened: "r", "w", "r+", "mem"
  Modes,         \* buffering: "full", "line", "none"
  Bytes, Newline,
  BUFSIZ,
  MaxLen,        \* bound: bytes of the file
  Eof            \* what fgetc returns at the end

ASSUME StdioAssumption ==
  /\ Newline \in Bytes /\ Eof \notin Bytes /\ BUFSIZ \in Nat \ {0} /\ MaxLen \in Nat
  /\ Kinds \subseteq {"r", "w", "r+", "mem"} /\ Modes \subseteq {"full", "line", "none"}

VARIABLES
  kind, mode,
  buf, pos, len, \* the buffer, bytes pending or read so far, bytes read ahead
  err,           \* F_ERR
  file, off,     \* the file behind the stream and the offset of the fd
  result,        \* what fgetc returned last
  put            \* the program has written to the stream

stdioVars == <<kind, mode, buf, pos, len, err, file, off, result, put>>

Readable == kind \in {"r", "r+"}
Writable == kind \in {"w", "r+", "mem"}
Files == UNION {[1 .. n -> Bytes] : n \in 0 .. MaxLen}

\* A stream just opened: "w" and "mem" start empty.
StdioInit ==
  /\ kind \in Kinds /\ mode \in Modes
  /\ kind = "mem" => mode = "full"
  /\ buf = [i \in 1 .. BUFSIZ |-> Newline] /\ pos = 0 /\ len = 0 /\ err = FALSE
  /\ file \in Files /\ (kind \in {"w", "mem"} => file = <<>>)
  /\ off = 0 /\ result = Eof /\ put = FALSE

-----------------------------------------------------------------------------
(* The host: n bytes of blk written at the offset.                         *)

Placed(f, p, blk) ==
  [i \in 1 .. (IF p + Len(blk) > Len(f) THEN p + Len(blk) ELSE Len(f)) |->
     IF i > p /\ i <= p + Len(blk) THEN blk[i - p] ELSE f[i]]

HostWrite(blk, n) ==
  /\ file' = Placed(file, off, SubSeq(blk, 1, n))
  /\ off' = off + n

-----------------------------------------------------------------------------
(* Output.                                                                 *)

\* fflush of a buffer b with p bytes pending: the short writes add up to all of them, or
\* one fails after some.  mem_flush copies all of them or cannot grow its memory.
Drain(b, p) ==
  \E n \in 0 .. p :
    /\ kind = "mem" => n \in {0, p}
    /\ HostWrite(SubSeq(b, 1, p), n)
    /\ buf' = b
    /\ IF n = p THEN pos' = 0 /\ UNCHANGED err ELSE pos' = p /\ err' = TRUE

Keep(b, p) == buf' = b /\ pos' = p /\ UNCHANGED <<err, file, off>>

\* fflush; nothing pending, or a stream only read, does nothing.
Flush == IF Writable /\ pos > 0 THEN Drain(buf, pos) ELSE UNCHANGED <<buf, pos, err, file, off>>

Fflush == ~err /\ Flush /\ UNCHANGED <<kind, mode, len, result, put>>

FlushPoint(p, c) == p = BUFSIZ \/ mode = "none" \/ (mode = "line" /\ c = Newline)

Fputc(c) ==
  LET b == [buf EXCEPT ![pos + 1] = c] IN
  /\ ~err /\ Writable
  /\ IF FlushPoint(pos + 1, c) THEN Drain(b, pos + 1) ELSE Keep(b, pos + 1)
  /\ put' = TRUE
  /\ UNCHANGED <<kind, mode, len, result>>

\* Mutant of Rest: after a short writev only the block is finished.
MutRest(w, blk) == IF w < pos THEN blk ELSE SubSeq(blk, w - pos + 1, Len(blk))

\* The block of a fwrite that does not fit goes out with the pending bytes: a writev moves
\* the first w bytes of both, and write_all the rest of the buffer and of the block.
Rest(w, blk) ==
  IF w < pos THEN SubSeq(buf, w + 1, pos) \o blk ELSE SubSeq(blk, w - pos + 1, Len(blk))

FlushWithBlock(blk) ==
  LET all == SubSeq(buf, 1, pos) \o blk IN
  \E w \in 0 .. Len(all) : \E n \in 0 .. Len(Rest(w, blk)) :
    /\ HostWrite(SubSeq(all, 1, w) \o Rest(w, blk), w + n)
    /\ IF n = Len(Rest(w, blk)) THEN pos' = 0 /\ UNCHANGED err ELSE err' = TRUE /\ UNCHANGED pos
    /\ UNCHANGED buf

\* A block that fits is stored byte by byte, and flushed when it fills the buffer.
Fwrite(blk) ==
  LET b == [i \in 1 .. BUFSIZ |-> IF i > pos /\ i <= pos + Len(blk) THEN blk[i - pos] ELSE buf[i]] IN
  /\ ~err /\ Writable /\ mode = "full"
  /\ IF Len(blk) > BUFSIZ - pos
     THEN kind # "mem" /\ FlushWithBlock(blk)
     ELSE IF pos + Len(blk) = BUFSIZ THEN Drain(b, BUFSIZ) ELSE Keep(b, pos + Len(blk))
  /\ put' = TRUE
  /\ UNCHANGED <<kind, mode, len, result>>

-----------------------------------------------------------------------------
(* Input.                                                                  *)

\* fgetc, with a refill that reads at least one byte when there is one.
Fgetc ==
  /\ ~err /\ Readable
  /\ \/ /\ pos < len
        /\ result' = buf[pos + 1] /\ pos' = pos + 1
        /\ UNCHANGED <<buf, len, off>>
     \/ /\ pos >= len /\ off < Len(file)
        /\ \E n \in 1 .. Min({BUFSIZ, Len(file) - off}) :
             /\ buf' = [i \in 1 .. BUFSIZ |-> IF i <= n THEN file[off + i] ELSE buf[i]]
             /\ len' = n /\ off' = off + n
        /\ result' = file[off + 1] /\ pos' = 1
     \/ /\ pos >= len /\ off >= Len(file)
        /\ result' = Eof /\ pos' = 0 /\ len' = 0
        /\ UNCHANGED <<buf, off>>
  /\ UNCHANGED <<kind, mode, err, file, put>>

-----------------------------------------------------------------------------
(* Positioning.                                                            *)

\* ftell, also what a program takes the position to be.
Ftell == IF Writable THEN off + pos ELSE off - (len - pos)

\* fseek(SEEK_SET): a failed flush leaves the position alone.
Fseek(p) ==
  /\ ~err /\ kind # "mem" /\ p <= Len(file)
  /\ \/ /\ Writable /\ pos > 0
        /\ \E n \in 0 .. pos :
             /\ file' = Placed(file, off, SubSeq(buf, 1, n))
             /\ IF n = pos THEN off' = p /\ pos' = 0 /\ len' = 0 /\ UNCHANGED err
                ELSE off' = off + n /\ err' = TRUE /\ UNCHANGED <<pos, len>>
     \/ /\ ~(Writable /\ pos > 0)
        /\ off' = p /\ pos' = 0 /\ len' = 0
        /\ UNCHANGED <<file, err>>
  /\ UNCHANGED <<kind, mode, buf, result, put>>

Fits == Len(file) + pos < MaxLen

StdioNext ==
  \/ Fflush \/ Fgetc
  \/ \E c \in Bytes : Fits /\ Fputc(c)
  \/ \E n \in 2 .. BUFSIZ + 1 : \E blk \in [1 .. n -> Bytes] : Len(file) + pos + n <= MaxLen /\ Fwrite(blk)
  \/ \E p \in 0 .. MaxLen : Fseek(p)

StdioSpec == StdioInit /\ [][StdioNext]_stdioVars

-----------------------------------------------------------------------------
(* Properties.                                                             *)

\* The buffered stream is a file with a position: what is written, read and sought through
\* the buffer is what the abstract stream does, for short reads and writes and a writev
\* that stops anywhere, up to the first write error (fflush, fwrite, refill, fseek).
Abstract == INSTANCE Stream WITH
  content <- IF Writable THEN Placed(file, off, SubSeq(buf, 1, pos)) ELSE file,
  position <- Ftell, got <- result, failed <- err
StreamSpec == Abstract!Spec

=============================================================================
