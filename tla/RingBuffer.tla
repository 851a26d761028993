----------------------------- MODULE RingBuffer -----------------------------
(* src/ringbuffer/ring_buffer.go: the buffer the log is kept in. Every     *)
(* operation runs under its mutex, so each is one step.                    *)
EXTENDS Integers, Sequences

CONSTANTS
  Size,    \* r.size
  Byte,    \* the values of a byte
  Zero,    \* what make fills the buffer with
  Writes   \* what is written

ASSUME SizeAssumption  == Size \in Nat
ASSUME ByteAssumption  == Zero \in Byte
ASSUME WriteAssumption == Writes \subseteq Seq(Byte)

VARIABLES buf, pos

ringVars == <<buf, pos>>

fillingRate == 17 \* from 10

Init ==
  /\ buf = [i \in 1 .. 2 * Size |-> Zero]
  /\ pos = 0

\* Past 17/10 of Size the last Size bytes are moved to the front.
Full_Late == pos >= 2 * Size

Full == pos > (Size * fillingRate) \div 10

moved == [i \in 1 .. 2 * Size |-> IF i <= Size THEN buf[i + (pos - Size)] ELSE buf[i]]

\* copy(b[at:], p), with n the number of bytes it copies.
copied(b, at, p, n) ==
  [i \in 1 .. 2 * Size |-> IF at < i /\ i <= at + n THEN p[i - at] ELSE b[i]]

room(at, p) == IF Len(p) <= 2 * Size - at THEN Len(p) ELSE 2 * Size - at

Write(p) ==
  LET b  == IF Full THEN moved ELSE buf
      at == IF Full THEN Size ELSE pos
      n  == room(at, p)
  IN  /\ Len(p) > 0
      /\ buf' = copied(b, at, p, n)
      /\ pos' = at + n

Reset == pos' = 0 /\ UNCHANGED buf

Next == Reset \/ \E p \in Writes : Write(p)

Spec == Init /\ [][Next]_ringVars

last(b, at) ==
  LET k == IF at < Size THEN at ELSE Size
  IN  [i \in 1 .. k |-> b[at - k + i]]

Bytes == last(buf, pos)

TypeOK ==
  /\ buf \in [1 .. 2 * Size -> Byte]
  /\ pos \in 0 .. 2 * Size

\* The buffer implements LogTail: whatever was written before, and wherever
\* the position is, Bytes is the last Size bytes that were accepted.
Log == INSTANCE LogTail WITH tail <- Bytes

TailKept == Log!Spec
=============================================================================
