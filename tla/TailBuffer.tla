----------------------------- MODULE TailBuffer -----------------------------
(***************************************************************************)
(* tailBuffer (internal/execution/runner.go): the io.Writer that keeps the *)
(* end of a child's stdout or stderr, max_output_bytes of it, however the  *)
(* copy goroutine happens to cut the stream into writes.  Runner puts it    *)
(* behind the output pipe of a child.                                      *)
(***************************************************************************)
EXTENDS Integers, Sequences

CONSTANTS
    Bytes,     \* what a write is made of
    Limits,    \* values of max_output_bytes
    MaxWrite,  \* longest single write
    MaxOutput  \* bound on the whole stream

ASSUME LimitsAssumption == Limits \subseteq Int
ASSUME BoundsAssumption == MaxWrite \in Nat /\ MaxOutput \in Nat

VARIABLES
    limit,   \* tailBuffer.limit
    buf,     \* tailBuffer.buf
    stream   \* everything written so far (history)

buffer == <<limit, buf, stream>>

BufferTypeOK == limit \in Limits /\ buf \in Seq(Bytes) /\ stream \in Seq(Bytes)

(* newTailBuffer *)
BufferInit == limit \in Limits /\ buf = <<>> /\ stream = <<>>

(* s[n:] *)
From(s, n) == SubSeq(s, n + 1, Len(s))

(* Mutant: the overflow is cut off the wrong end. *)
KeptHead(p) ==
    LET overflow == Len(buf) + Len(p) - limit
    IN  IF overflow > 0 THEN SubSeq(buf, 1, Len(buf) - overflow) ELSE buf

(* The part of buf that stays when p, shorter than the limit, is appended. *)
Kept(p) ==
    LET overflow == Len(buf) + Len(p) - limit
    IN  IF overflow > 0 THEN From(buf, overflow) ELSE buf

Write(p) ==
    /\ buf' = IF limit <= 0 \/ Len(p) = 0 THEN buf
              ELSE IF Len(p) >= limit THEN From(p, Len(p) - limit)
              ELSE Kept(p) \o p
    /\ stream' = stream \o p
    /\ UNCHANGED limit

Writes == UNION {[1..n -> Bytes] : n \in 0..MaxWrite}

BufferNext == \E p \in Writes : Len(stream) + Len(p) <= MaxOutput /\ Write(p)

BufferSpec == BufferInit /\ [][BufferNext]_buffer

-----------------------------------------------------------------------------
(* What the buffer holds is the end of the stream, byte for byte and in order,
   whatever the sizes of the writes: max_output_bytes of it, or all of a
   shorter output, or nothing when the limit is not positive. *)
TailIsSuffix ==
    /\ Len(buf) = IF limit <= 0 THEN 0
                  ELSE IF Len(stream) < limit THEN Len(stream) ELSE limit
    /\ \A k \in 1..Len(buf) : buf[k] = stream[Len(stream) - Len(buf) + k]
=============================================================================
