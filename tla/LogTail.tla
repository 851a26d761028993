------------------------------- MODULE LogTail -------------------------------
(* What the log buffer promises its readers: the last Size bytes of what    *)
(* was accepted, in order. A write is accepted whole, or at least three     *)
(* tenths of Size of it are.                                                *)
EXTENDS Naturals, Sequences

CONSTANTS Size, Writes

VARIABLE tail

LastBytes(s) ==
  LET k == IF Len(s) < Size THEN Len(s) ELSE Size
  IN  [i \in 1 .. k |-> s[Len(s) - k + i]]

Init == tail = <<>>

Write(p) ==
  \E n \in 0 .. Len(p) :
    /\ n = Len(p) \/ 3 * Size <= 10 * n
    /\ tail' = LastBytes(tail \o SubSeq(p, 1, n))

Reset == tail' = <<>>

Next == Reset \/ \E p \in Writes : Write(p)

Spec == Init /\ [][Next]_tail
==============================================================================
