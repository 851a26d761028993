----------------------------- MODULE StreamProofs ----------------------------
(* The stream of packets to a peer, for every value of the constants.       *)
EXTENDS PacketStream, SequenceTheorems, FiniteSetTheorems, TLAPS

-----------------------------------------------------------------------------
(* Folds.                                                                  *)

\* A set of natural numbers that is not empty has a least element.
LEMMA Least ==
  ASSUME NEW S, S \subseteq Nat, S # {}
  PROVE  Min(S) \in S /\ \A y \in S : Min(S) <= y
<1>1. \E x \in S : \A y \in S : ~(<<y, x>> \in OpToRel(<, Nat))
  BY NatLessThanWellFounded, WFMin, Zenon
<1>2. ASSUME NEW x \in Nat, NEW y \in Nat PROVE <<y, x>> \in OpToRel(<, Nat) <=> y < x
  <2>1. OpToRel(<, Nat) = {s \in Nat \X Nat : s[1] < s[2]}
    BY Zenon DEF OpToRel
  <2> QED
    BY <2>1, Zenon
<1>3. \A x, y \in Nat : ~(y < x) => x <= y
  OBVIOUS
<1>4. \E x \in S : \A y \in S : x <= y
  BY <1>1, <1>2, <1>3, Zenon
<1> QED
  BY <1>4, Zenon DEF Min

\* A set of integers with a bound, not empty, has a greatest element.
LEMMA Greatest ==
  ASSUME NEW a \in Int, NEW b \in Int, NEW S, S \subseteq a .. b, S # {}
  PROVE  Max(S) \in S /\ \A y \in S : Max(S) >= y
<1> DEFINE D == {b - x : x \in S}
<1>1. D \subseteq Nat /\ D # {}
  <2>1. \A x \in S : b - x \in Nat
    OBVIOUS
  <2>2. \E x \in S : b - x \in D
    BY Zenon
  <2> QED
    BY <2>1, <2>2, Zenon
<1>2. Min(D) \in D /\ \A y \in D : Min(D) <= y
  BY <1>1, Least, Zenon
<1>3. PICK x \in S : Min(D) = b - x
  BY <1>2, Zenon
<1>4. ASSUME NEW y \in S PROVE x >= y
  <2>1. b - y \in D /\ y \in Int /\ x \in Int
    BY <1>4
  <2>2. b - x <= b - y
    BY <1>2, <1>3, <2>1, Zenon
  <2> QED
    BY <2>1, <2>2
<1> QED
  BY <1>3, <1>4, Zenon DEF Max


\* Induction, for what a set says of numbers.
LEMMA UpTo ==
  ASSUME NEW n \in Nat, NEW S, 0 \in S, \A k \in 1 .. n : k - 1 \in S => k \in S
  PROVE  \A k \in 0 .. n : k \in S
<1> DEFINE Bad == {k \in 0 .. n : k \notin S}
<1> SUFFICES ASSUME Bad # {} PROVE FALSE
  BY Zenon
<1> DEFINE k == Min(Bad)
<1>1. Bad \subseteq Nat OBVIOUS
<1>2. k \in Bad /\ \A y \in Bad : k <= y BY <1>1, Least, Zenon
<1> HIDE DEF k
<1>3. k \in 0 .. n /\ k \notin S BY <1>2, Zenon
<1>4. k # 0 BY <1>3, Zenon
<1>5. k \in 1 .. n /\ k - 1 \in 0 .. n /\ ~(k <= k - 1) BY <1>3, <1>4
<1>6. k - 1 \notin Bad
  <2> HIDE DEF Bad
  <2> QED BY <1>2, <1>5, Zenon
<1> QED BY <1>3, <1>5, <1>6, Zenon

\* What FoldLeft evaluates: op applied from the left, element by element.
Folded(f, n, base, op, seq) ==
  f = [s \in SUBSET (1 .. n) |-> IF s = {} THEN base ELSE op[f[s \ {Max(s)}], seq[Max(s)]]]

LEMMA MaxOfTop ==
  ASSUME NEW k \in Nat, NEW s \in SUBSET (1 .. k + 1), k + 1 \in s
  PROVE  Max(s) = k + 1 /\ s \ {k + 1} \in SUBSET (1 .. k)
<1>1. 1 \in Int /\ k + 1 \in Int /\ s \subseteq 1 .. k + 1 /\ s # {} OBVIOUS
<1>2. Max(s) \in s /\ \A y \in s : Max(s) >= y BY <1>1, Greatest, Zenon
<1>3. Max(s) \in 1 .. k + 1 /\ Max(s) >= k + 1 BY <1>2, Zenon
<1>4. Max(s) = k + 1 BY <1>3
<1>5. \A x \in s : x \in 1 .. k + 1 BY Zenon
<1>6. \A x \in s \ {k + 1} : x \in 1 .. k BY <1>5
<1> QED BY <1>4, <1>6, Zenon

LEMMA FoldExists ==
  ASSUME NEW A, NEW B, NEW op \in [A \X B -> A], NEW base \in A,
         NEW n \in Nat, NEW seq \in [1 .. n -> B]
  PROVE  \E f \in [SUBSET (1 .. n) -> A] : Folded(f, n, base, op, seq)
<1> DEFINE Bad == {k \in 0 .. n : ~\E f \in [SUBSET (1 .. k) -> A] : Folded(f, k, base, op, seq)}
<1>0. n \in 0 .. n OBVIOUS
<1> SUFFICES ASSUME Bad # {} PROVE FALSE
  BY <1>0, Zenon
<1> DEFINE k == Min(Bad)
<1>1. k \in 0 .. n /\ k \in Bad /\ \A y \in Bad : k <= y
  <2>1. Bad \subseteq Nat OBVIOUS
  <2>2. Min(Bad) \in Bad /\ \A y \in Bad : Min(Bad) <= y BY <2>1, Least, Zenon
  <2> QED BY <2>2, Zenon
<1> HIDE DEF k
<1>2. CASE k = 0
  <2> DEFINE f == [s \in SUBSET (1 .. 0) |-> base]
  <2>1. f \in [SUBSET (1 .. 0) -> A] BY Zenon
  <2>2. \A s \in SUBSET (1 .. 0) : s = {} OBVIOUS
  <2>3. f = [s \in SUBSET (1 .. 0) |-> IF s = {} THEN base ELSE op[f[s \ {Max(s)}], seq[Max(s)]]]
    BY <2>2, Zenon
  <2> HIDE DEF f
  <2>4. Folded(f, 0, base, op, seq) BY <2>3, Zenon DEF Folded
  <2> QED BY <1>1, <1>2, <2>1, <2>4, Zenon
<1>3. CASE k # 0
  <2> DEFINE j == k - 1
  <2>1. j \in Nat /\ j + 1 = k /\ j \in 0 .. n /\ j < k BY <1>1, <1>3
  <2> HIDE DEF j
  <2>2. PICK g \in [SUBSET (1 .. j) -> A] : Folded(g, j, base, op, seq)
    <3> HIDE DEF Bad
    <3>1. j \notin Bad BY <1>1, <2>1
    <3> USE DEF Bad
    <3> QED BY <2>1, <3>1, Zenon
  <2> DEFINE f == [s \in SUBSET (1 .. k) |-> IF k \in s THEN op[g[s \ {k}], seq[k]] ELSE g[s]]
  <2>3. \A s \in SUBSET (1 .. k) : k \notin s => s \in SUBSET (1 .. j) BY <2>1
  <2>4. \A s \in SUBSET (1 .. k) : k \in s => Max(s) = k /\ s \ {k} \in SUBSET (1 .. j)
    BY <2>1, MaxOfTop, Zenon
  <2>5. seq[k] \in B BY <1>1, <1>3
  <2>6. f \in [SUBSET (1 .. k) -> A]
    <3> SUFFICES ASSUME NEW s \in SUBSET (1 .. k) PROVE f[s] \in A
      BY Zenon
    <3>1. CASE k \in s
      <4>1. g[s \ {k}] \in A BY <2>4, <3>1, Zenon
      <4> QED BY <2>5, <3>1, <4>1, Zenon
    <3>2. CASE k \notin s BY <2>3, <3>2, Zenon
    <3> QED BY <3>1, <3>2, Zenon
  <2>7. ASSUME NEW s \in SUBSET (1 .. k)
        PROVE  f[s] = IF s = {} THEN base ELSE op[f[s \ {Max(s)}], seq[Max(s)]]
    <3>1. CASE k \in s
      <4>1. Max(s) = k /\ s \ {k} \in SUBSET (1 .. j) BY <2>4, <3>1, Zenon
      <4>2. f[s \ {k}] = g[s \ {k}] /\ s # {} BY <3>1, Zenon
      <4>3. f[s] = op[g[s \ {k}], seq[k]] BY <3>1, Zenon
      <4> HIDE DEF f
      <4> QED BY <4>1, <4>2, <4>3, Zenon
    <3>2. CASE k \notin s /\ s = {}
      <4>1. g[{}] = base BY <2>2, Zenon DEF Folded
      <4> QED BY <3>2, <4>1, Zenon
    <3>3. CASE k \notin s /\ s # {}
      <4>1. s \in SUBSET (1 .. j) BY <2>3, <3>3, Zenon
      <4>2. g[s] = op[g[s \ {Max(s)}], seq[Max(s)]] BY <2>2, <3>3, <4>1, Zenon DEF Folded
      <4>3. f[s] = g[s] BY <3>3, Zenon
      <4>4. f[s \ {Max(s)}] = g[s \ {Max(s)}] BY <3>3, Zenon
      <4> HIDE DEF f
      <4> QED BY <3>3, <4>2, <4>3, <4>4, Zenon
    <3> QED BY <3>1, <3>2, <3>3, Zenon
  <2> HIDE DEF f
  <2>8. Folded(f, k, base, op, seq) BY <2>6, <2>7, Zenon DEF Folded
  <2> QED BY <1>1, <2>6, <2>8, Zenon
<1> QED BY <1>2, <1>3, Zenon

\* The sets a fold goes through.
LEMMA Segments ==
  ASSUME NEW n \in Nat, NEW k \in 1 .. n
  PROVE  /\ 1 .. k \in SUBSET (1 .. n) /\ 1 .. k # {} /\ 1 .. (k - 1) \in SUBSET (1 .. n)
         /\ Max(1 .. k) = k /\ (1 .. k) \ {k} = 1 .. (k - 1)
<1>1. k - 1 \in Nat /\ (k - 1) + 1 = k /\ k \in 1 .. k OBVIOUS
<1>2. Max(1 .. k) = k
  <2>1. 1 .. k \in SUBSET (1 .. (k - 1) + 1) /\ (k - 1) + 1 \in 1 .. k BY <1>1, Zenon
  <2>2. Max(1 .. k) = (k - 1) + 1 BY <1>1, <2>1, MaxOfTop, Zenon
  <2> QED BY <1>1, <2>2, Zenon
<1>3. 1 .. k \in SUBSET (1 .. n) /\ 1 .. (k - 1) \in SUBSET (1 .. n) OBVIOUS
<1>4. (1 .. k) \ {k} = 1 .. (k - 1) OBVIOUS
<1> QED BY <1>1, <1>2, <1>3, <1>4, Zenon

-----------------------------------------------------------------------------
(* PacketStream: StreamWithinLimit for every size of a batch and every pair *)
(* of limits that a batch fits into.                                        *)

LEMMA LimitBounds ==
  \A kind \in Kinds : Limit(kind) \in Nat /\ BatchSize < Limit(kind)
BY LimitAssumption, Zenon DEF Limit, Kinds

\* What backgroundOutboundHandler collects before it sends: at least one
\* packet, at most packetsBatchSize of them.
LEMMA BatchBounds ==
  ASSUME NEW batch \in Batch
  PROVE  batch \in Seq(Packets) /\ Len(batch) \in 1 .. BatchSize
<1>1. PICK n \in 0 .. BatchSize : batch \in [1 .. n -> Packets]
  BY Zenon DEF Batch, BoundedSeq, SeqOf
<1>2. batch \in Seq(Packets) /\ Len(batch) = n
  BY <1>1, LimitAssumption, SMTT(30)
<1>3. batch # <<>>
  BY Zenon DEF Batch
<1>4. Len(batch) # 0
  BY <1>2, <1>3, EmptySeq, Zenon
<1> QED
  BY <1>1, <1>2, <1>4, LimitAssumption, SMTT(30)

\* The invariant survives what sendPacket does with the open stream: the test
\* before it compares with the limit of that very stream.
LEMMA OpenStreamKeeps ==
  ASSUME streamInv, NEW batch \in Batch, SendOnOpen(batch)
  PROVE  streamInv'
<1>1. batch \in Seq(Packets) /\ Len(batch) \in 1 .. BatchSize
  BY BatchBounds, Zenon
<1>2. /\ stream \in Kinds /\ Len(written) = current /\ max = Limit(stream)
      /\ max \in Nat /\ current \in Nat /\ written \in Seq(Packets)
  BY Zenon DEF streamInv, streamTypeOK, SendOnOpen, Open
<1>3. current' = current + Len(batch) /\ current' < max
  BY <1>1, <1>2, SMTT(30) DEF SendOnOpen, Open, Count, Exceeds
<1>4. written' \in Seq(Packets) /\ Len(written') = Len(written) + Len(batch)
  <2>1. written' = written \o batch BY Zenon DEF SendOnOpen
  <2> QED BY <1>1, <1>2, <2>1, ConcatProperties, ZenonT(60)
<1>5. stream' = stream /\ max' = max
  BY Zenon DEF SendOnOpen
<1> QED
  BY <1>1, <1>2, <1>3, <1>4, <1>5, LimitAssumption, SMTT(30) DEF streamInv, streamTypeOK, Kinds

\* ... and what it does with a new one, which a whole batch always fits into.
\* The count is the batch alone: either the test has reset it, or there was no
\* stream and so no count.
LEMMA NewStreamKeeps ==
  ASSUME streamInv, NEW batch \in Batch, SendOnNew(batch)
  PROVE  streamInv'
<1>1. batch \in Seq(Packets) /\ Len(batch) \in 1 .. BatchSize
  BY BatchBounds, Zenon
<1>2. PICK kind \in Kinds : stream' = kind /\ max' = Limit(kind)
  BY Zenon DEF SendOnNew
<1>3. Limit(kind) \in Nat /\ BatchSize < Limit(kind)
  BY LimitBounds, Zenon
<1>4. ~Exceeds(Len(batch)) => current = 0
  BY Zenon DEF SendOnNew, Open, streamInv
<1>5. current' = Len(batch)
  BY <1>1, <1>4, SMTT(30) DEF SendOnNew, Count
<1>6. written' = batch
  BY Zenon DEF SendOnNew
<1> QED
  BY <1>1, <1>2, <1>3, <1>5, <1>6, LimitAssumption, SMTT(30) DEF streamInv, streamTypeOK, Kinds

\* A step that ends with closeStream leaves no stream and no count.
LEMMA ClosedKeeps ==
  ASSUME Closed, max' \in Nat
  PROVE  streamInv'
<1>1. stream' = "none" /\ current' = 0 /\ written' = <<>>
  BY Zenon DEF Closed
<1>2. <<>> \in Seq(Packets)
  BY SMTT(30)
<1> QED
  BY <1>1, <1>2, Zenon DEF streamInv, streamTypeOK

LEMMA streamStepKeeps ==
  ASSUME streamInv, [streamNext]_streamVars
  PROVE  streamInv'
<1>1. ASSUME NEW batch \in Batch, SendOnOpen(batch)
      PROVE  streamInv'
  BY <1>1, OpenStreamKeeps, Zenon
<1>2. ASSUME NEW batch \in Batch, SendOnNew(batch)
      PROVE  streamInv'
  BY <1>2, NewStreamKeeps, Zenon
<1>3. ASSUME NEW batch \in Batch, SendFails(batch)
      PROVE  streamInv'
  <2>1. max \in Nat
    BY Zenon DEF streamInv, streamTypeOK
  <2>2. max' \in Nat
    BY <1>3, <2>1, LimitBounds, Zenon DEF SendFails
  <2> QED
    BY <1>3, <2>2, ClosedKeeps, Zenon DEF SendFails
<1>4. CASE IdleTimeout
  <2>1. max' \in Nat
    BY <1>4, Zenon DEF IdleTimeout, streamInv, streamTypeOK
  <2> QED
    BY <1>4, <2>1, ClosedKeeps, Zenon DEF IdleTimeout
<1>5. CASE UNCHANGED streamVars
  BY <1>5, Zenon DEF streamVars, streamInv, streamTypeOK
<1> QED
  BY <1>1, <1>2, <1>3, <1>4, <1>5, Zenon DEF streamNext, sendPacket

LEMMA streamInitKeeps == streamInit => streamInv
<1> SUFFICES ASSUME streamInit PROVE streamInv
  BY Zenon
<1>1. <<>> \in Seq(Packets)
  OBVIOUS
<1> QED
  BY <1>1, Zenon DEF streamInit, streamInv, streamTypeOK

\* However batches, failures and idle times follow one another, and whichever
\* kinds of streams are opened, no stream carries as many packets as its kind
\* allows (backgroundOutboundHandler).
THEOREM StreamLimited == streamSpec => []StreamWithinLimit
<1>1. streamInv /\ [streamNext]_streamVars => streamInv'
  BY streamStepKeeps, Zenon
<1>2. streamInv => StreamWithinLimit
  BY Zenon DEF streamInv, StreamWithinLimit
<1> QED
  BY <1>1, <1>2, streamInitKeeps, PTL DEF streamSpec

-----------------------------------------------------------------------------
(* Frames.                                                                 *)

Digit == 0 .. Base - 1

LEMMA DivMod ==
  ASSUME NEW x \in Nat
  PROVE  /\ x \div Base \in Nat /\ x % Base \in Digit /\ (x \div Base) * Base + (x % Base) = x
BY FrameAssumption DEF Digit

\* v >> 8, k times.
LEMMA ShiftedSteps ==
  ASSUME NEW x \in Nat
  PROVE  /\ Shifted(x) \in [0 .. HeaderSize -> Nat] /\ Shifted(x)[0] = x
         /\ \A k \in 1 .. HeaderSize : Shifted(x)[k] = Shifted(x)[k - 1] \div Base
<1> DEFINE H == HeaderSize
           op == [p \in Nat \X {0} |-> p[1] \div Base]
           seq == [i \in 1 .. H |-> 0]
<1>1. H \in Nat BY FrameAssumption, Zenon
<1>2. op \in [Nat \X {0} -> Nat] BY DivMod, Zenon
<1>3. \A a \in Nat : op[a, 0] = a \div Base BY Zenon
<1> HIDE DEF op
<1>4. PICK h \in [SUBSET (1 .. H) -> Nat] : Folded(h, H, x, op, seq)
  <2>1. seq \in [1 .. H -> {0}] BY Zenon
  <2> HIDE DEF seq
  <2> QED BY <1>1, <1>2, <2>1, FoldExists, Zenon
<1> DEFINE Eq(f) == f = [k \in 0 .. H |-> IF k = 0 THEN x ELSE f[k - 1] \div Base]
           g == [k \in 0 .. H |-> h[1 .. k]]
<1>5. g[0] = x
  <2>1. 1 .. 0 = {} /\ {} \in SUBSET (1 .. H) /\ 0 \in 0 .. H BY <1>1
  <2>2. h[{}] = x BY <1>4, <2>1, Zenon DEF Folded
  <2> QED BY <2>1, <2>2, Zenon
<1>6. ASSUME NEW k \in 1 .. H PROVE g[k] = g[k - 1] \div Base
  <2>1. /\ 1 .. k \in SUBSET (1 .. H) /\ 1 .. k # {} /\ 1 .. (k - 1) \in SUBSET (1 .. H)
        /\ Max(1 .. k) = k /\ (1 .. k) \ {k} = 1 .. (k - 1)
    BY <1>1, Segments, Zenon
  <2>2. h[1 .. k] = op[h[(1 .. k) \ {Max(1 .. k)}], seq[Max(1 .. k)]]
    BY <1>4, <2>1, Zenon DEF Folded
  <2>3. seq[k] = 0 /\ h[1 .. (k - 1)] \in Nat BY <2>1, Zenon
  <2>4. h[1 .. k] = h[1 .. (k - 1)] \div Base BY <1>3, <2>1, <2>2, <2>3, Zenon
  <2>5. g[k] = h[1 .. k] /\ g[k - 1] = h[1 .. (k - 1)] BY <1>1
  <2> QED BY <2>4, <2>5, Zenon
<1>7. Eq(g)
  <2> HIDE DEF g
  <2>1. g = [k \in 0 .. H |-> g[k]] BY Zenon DEF g
  <2>2. \A k \in 0 .. H : g[k] = IF k = 0 THEN x ELSE g[k - 1] \div Base BY <1>1, <1>5, <1>6
  <2> QED BY <2>1, <2>2, Zenon
<1>8. Shifted(x) = CHOOSE f : Eq(f) BY Zenon DEF Shifted
<1> DEFINE f == Shifted(x)
<1>9. Eq(f) BY <1>7, <1>8, Zenon
<1> HIDE DEF f, g
<1>10. f[0] = x /\ \A k \in 1 .. H : f[k] = f[k - 1] \div Base BY <1>1, <1>9
<1>11. f \in [0 .. H -> Nat]
  <2> DEFINE S == {k \in 0 .. H : f[k] \in Nat}
  <2>1. 0 \in S BY <1>1, <1>10
  <2>2. ASSUME NEW k \in 1 .. H, k - 1 \in S PROVE k \in S BY <1>1, <1>10, <2>2, DivMod
  <2> HIDE DEF S
  <2>3. \A k \in 0 .. H : k \in S BY <1>1, <2>1, <2>2, UpTo, Zenon
  <2> QED BY <1>9, <2>3, Zenon DEF S
<1> QED BY <1>10, <1>11, Zenon DEF f

Value(f, h) ==
  f = [s \in SUBSET DOMAIN h |-> IF s = {} THEN 0 ELSE LET x == Max(s) IN f[s \ {x}] * Base + h[x]]

\* The fold of ReadUint64.
LEMMA ReadUnfolds ==
  ASSUME NEW h
  PROVE  ReadUint64(h) = (CHOOSE f : Value(f, h))[DOMAIN h]
BY Zenon DEF ReadUint64, FoldLeft, MapThenFoldSet, Value

\* A number is read byte by byte.
LEMMA ReadSteps ==
  ASSUME NEW h \in Seq(Digit)
  PROVE  \E g : /\ g[0] = 0 /\ ReadUint64(h) = g[Len(h)] /\ \A k \in 0 .. Len(h) : g[k] \in Nat
                /\ \A k \in 1 .. Len(h) : g[k] = g[k - 1] * Base + h[k]
<1> DEFINE n == Len(h)
           op == [p \in Nat \X Digit |-> p[1] * Base + p[2]]
<1>1. n \in Nat /\ DOMAIN h = 1 .. n /\ h \in [1 .. n -> Digit] OBVIOUS
<1>0. Digit \subseteq Nat /\ \A a, b \in Nat : a * Base + b \in Nat
  BY FrameAssumption DEF Digit
<1>2. op \in [Nat \X Digit -> Nat]
  <2>1. \A p \in Nat \X Digit : p[1] \in Nat /\ p[2] \in Nat BY <1>0, Zenon
  <2>2. \A p \in Nat \X Digit : p[1] * Base + p[2] \in Nat BY <1>0, <2>1, Zenon
  <2> QED BY <2>2, Zenon
<1>3. \A a \in Nat, b \in Digit : op[a, b] = a * Base + b BY Zenon
<1> HIDE DEF n, op
<1>4. PICK v \in [SUBSET (1 .. n) -> Nat] : Folded(v, n, 0, op, h)
  <2>1. 0 \in Nat BY Zenon
  <2> QED BY <1>1, <1>2, <2>1, FoldExists, Zenon
<1>5. Value(v, h)
  <2>1. ASSUME NEW s \in SUBSET (1 .. n)
        PROVE  v[s] = IF s = {} THEN 0 ELSE LET x == Max(s) IN v[s \ {x}] * Base + h[x]
    <3>1. CASE s = {} BY <1>4, <3>1, Zenon DEF Folded
    <3>2. CASE s # {}
      <4>1. v[s] = op[v[s \ {Max(s)}], h[Max(s)]] BY <1>4, <3>2, Zenon DEF Folded
      <4>2. v[s \ {Max(s)}] \in Nat BY Zenon
      <4>3. Max(s) \in s
        <5>1. 1 \in Int /\ n \in Int BY <1>1
        <5> QED BY <3>2, <5>1, Greatest, Zenon
      <4>4. h[Max(s)] \in Digit BY <1>1, <4>3, Zenon
      <4> QED BY <1>3, <3>2, <4>1, <4>2, <4>4, Zenon
    <3> QED BY <3>1, <3>2, Zenon
  <2> QED BY <1>1, <2>1, Zenon DEF Value
<1> DEFINE f == CHOOSE f : Value(f, h)
<1>6. Value(f, h) BY <1>5, Zenon
<1>7. ReadUint64(h) = f[1 .. n] BY <1>1, ReadUnfolds, Zenon
<1> HIDE DEF f
<1> DEFINE g == [k \in 0 .. n |-> f[1 .. k]]
<1>8. g[0] = 0
  <2>1. 1 .. 0 = {} /\ {} \in SUBSET (1 .. n) /\ 0 \in 0 .. n BY <1>1
  <2>2. f[{}] = 0 BY <1>1, <1>6, <2>1, Zenon DEF Value
  <2> QED BY <2>1, <2>2, Zenon
<1>9. g[n] = f[1 .. n] BY <1>1
<1>10. ASSUME NEW k \in 1 .. n PROVE g[k] = g[k - 1] * Base + h[k]
  <2>1. /\ 1 .. k \in SUBSET (1 .. n) /\ 1 .. k # {}
        /\ Max(1 .. k) = k /\ (1 .. k) \ {k} = 1 .. (k - 1)
    BY <1>1, Segments, Zenon
  <2>2. f[1 .. k] = f[(1 .. k) \ {Max(1 .. k)}] * Base + h[Max(1 .. k)]
    BY <1>1, <1>6, <2>1, Zenon DEF Value
  <2>3. f[1 .. k] = f[1 .. (k - 1)] * Base + h[k] BY <2>1, <2>2, Zenon
  <2>4. g[k] = f[1 .. k] /\ g[k - 1] = f[1 .. (k - 1)] BY <1>1
  <2> QED BY <2>3, <2>4, Zenon
<1> HIDE DEF g
<1>11. \A k \in 0 .. n : g[k] \in Nat
  <2> DEFINE S == {k \in 0 .. n : g[k] \in Nat}
  <2>1. 0 \in S BY <1>1, <1>8
  <2>2. ASSUME NEW k \in 1 .. n, k - 1 \in S PROVE k \in S
    <3>0. h[k] \in Digit /\ g[k - 1] \in Nat /\ k \in 0 .. n BY <1>1, <2>2
    <3>1. h[k] \in Nat /\ g[k - 1] \in Nat /\ k \in 0 .. n BY <1>0, <3>0, Zenon
    <3>2. g[k - 1] * Base + h[k] \in Nat BY <1>0, <3>1, Zenon
    <3> QED BY <1>10, <3>1, <3>2, Zenon
  <2> HIDE DEF S
  <2>3. \A k \in 0 .. n : k \in S BY <1>1, <2>1, <2>2, UpTo, Zenon
  <2> QED BY <2>3, Zenon DEF S
<1> QED BY <1>7, <1>8, <1>9, <1>10, <1>11, Zenon DEF n

\* ReadUint64 reads what PutUint64 wrote, when it fits.
LEMMA HeaderReads ==
  ASSUME NEW x \in Nat, Shifted(x)[HeaderSize] = 0
  PROVE  /\ PutUint64(x) \in Seq(Digit) /\ Len(PutUint64(x)) = HeaderSize
         /\ ReadUint64(PutUint64(x)) = x
<1> DEFINE H == HeaderSize
           h == PutUint64(x)
           t == Shifted(x)
<1>1. H \in Nat BY FrameAssumption, Zenon
<1>2. /\ t \in [0 .. H -> Nat] /\ t[0] = x
      /\ \A k \in 1 .. H : t[k] = t[k - 1] \div Base
  BY ShiftedSteps, Zenon
<1>3. t[H] = 0 BY Zenon
<1>4. h = [i \in 1 .. H |-> t[H - i] % Base] BY Zenon DEF PutUint64
<1> HIDE DEF t, h
<1>5. \A i \in 1 .. H : H - i \in 0 .. H /\ t[H - i] \in Nat BY <1>1, <1>2
<1>6. h \in [1 .. H -> Digit]
  <2>1. \A i \in 1 .. H : t[H - i] % Base \in Digit BY <1>5, DivMod, Zenon
  <2> QED BY <1>4, <2>1, Zenon
<1>7. h \in Seq(Digit) /\ Len(h) = H BY <1>1, <1>6
<1>8. PICK g : /\ g[0] = 0 /\ ReadUint64(h) = g[H]
               /\ \A k \in 1 .. H : g[k] = g[k - 1] * Base + h[k]
  BY <1>7, ReadSteps
<1> DEFINE S == {k \in 0 .. H : g[k] = t[H - k]}
<1>9. 0 \in S BY <1>1, <1>3, <1>8
<1>10. ASSUME NEW k \in 1 .. H, k - 1 \in S PROVE k \in S
  <2>1. g[k - 1] = t[H - (k - 1)] BY <1>10, Zenon
  <2>2. H - (k - 1) \in 1 .. H /\ (H - (k - 1)) - 1 = H - k /\ k \in 0 .. H BY <1>1
  <2>3. t[H - (k - 1)] = t[H - k] \div Base BY <1>2, <2>2, Zenon
  <2>4. t[H - k] \in Nat /\ h[k] = t[H - k] % Base BY <1>4, <1>5, Zenon
  <2>5. g[k] = (t[H - k] \div Base) * Base + (t[H - k] % Base) BY <1>8, <2>1, <2>3, <2>4, Zenon
  <2>6. g[k] = t[H - k] BY <2>4, <2>5, DivMod, Zenon
  <2> QED BY <2>2, <2>6, Zenon
<1> HIDE DEF S
<1>11. \A k \in 0 .. H : k \in S BY <1>1, <1>9, <1>10, UpTo, Zenon
<1>12. H \in 0 .. H /\ H - H = 0 BY <1>1
<1>13. g[H] = t[0] BY <1>11, <1>12, Zenon DEF S
<1> QED BY <1>2, <1>7, <1>8, <1>13, Zenon DEF h

\* c is s, t and u one after the other.
Joined(c, s, t, u) ==
  /\ Len(c) = Len(s) + Len(t) + Len(u)
  /\ \A i \in 1 .. Len(s) : c[i] = s[i]
  /\ \A i \in 1 .. Len(t) : c[Len(s) + i] = t[i]
  /\ \A i \in 1 .. Len(u) : c[Len(s) + Len(t) + i] = u[i]

LEMMA JoinThree ==
  ASSUME NEW S, NEW s \in Seq(S), NEW t \in Seq(S), NEW u \in Seq(S)
  PROVE  (s \o t) \o u \in Seq(S) /\ Joined((s \o t) \o u, s, t, u)
BY DEF Joined

\* The bytes of one more packet.
LEMMA AppendShape ==
  ASSUME NEW sent \in Seq(Digit), NEW packet \in Packets
  PROVE  LET c == AppendPacketToBuf(sent, packet)
             h == PutUint64(Len(packet))
         IN  /\ c \in Seq(Digit) /\ Len(c) = Len(sent) + HeaderSize + Len(packet)
             /\ \A i \in 1 .. Len(sent) : c[i] = sent[i]
             /\ \A i \in 1 .. HeaderSize : c[Len(sent) + i] = h[i]
             /\ \A i \in 1 .. Len(packet) : c[Len(sent) + HeaderSize + i] = packet[i]
<1> DEFINE h == PutUint64(Len(packet))
           c == (sent \o h) \o packet
<1>1. packet \in Seq(Digit) /\ Shifted(Len(packet))[HeaderSize] = 0 BY FrameAssumption, Zenon DEF Digit
<1>2. Len(packet) \in Nat BY <1>1
<1>3. h \in Seq(Digit) /\ Len(h) = HeaderSize BY <1>1, <1>2, HeaderReads, Zenon
<1>4. AppendPacketToBuf(sent, packet) = c BY Zenon DEF AppendPacketToBuf
<1> HIDE DEF h
<1>5. /\ c \in Seq(Digit) /\ Len(c) = Len(sent) + Len(h) + Len(packet)
      /\ \A i \in 1 .. Len(sent) : c[i] = sent[i]
      /\ \A i \in 1 .. Len(h) : c[Len(sent) + i] = h[i]
      /\ \A i \in 1 .. Len(packet) : c[Len(sent) + Len(h) + i] = packet[i]
  <2>1. c \in Seq(Digit) /\ Joined(c, sent, h, packet) BY <1>1, <1>3, JoinThree, Zenon
  <2> HIDE DEF c
  <2> QED BY <2>1, Zenon DEF Joined
<1> HIDE DEF c
<1> QED BY <1>3, <1>4, <1>5, Zenon DEF h

\* g has the bytes of the first packets of w, for each number of them.
Framed(w, g) ==
  /\ g[0] = <<>> /\ \A k \in 0 .. Len(w) : g[k] \in Seq(Digit)
  /\ \A k \in 1 .. Len(w) : g[k] = AppendPacketToBuf(g[k - 1], w[k])

Encoded(f, w) ==
  f = [s \in SUBSET DOMAIN w |-> IF s = {} THEN <<>>
                                 ELSE LET x == Max(s) IN AppendPacketToBuf(f[s \ {x}], w[x])]

\* The fold of Bytes64.
LEMMA BytesUnfold ==
  ASSUME NEW w
  PROVE  Bytes64(w) = (CHOOSE f : Encoded(f, w))[DOMAIN w]
BY Zenon DEF Bytes64, FoldLeft, MapThenFoldSet, Encoded

LEMMA BytesSteps ==
  ASSUME NEW w \in Seq(Packets)
  PROVE  \E g : Framed(w, g) /\ Bytes64(w) = g[Len(w)]
<1> DEFINE n == Len(w)
           A == Seq(Digit)
           op == [p \in A \X Packets |-> AppendPacketToBuf(p[1], p[2])]
<1>1. n \in Nat /\ DOMAIN w = 1 .. n /\ w \in [1 .. n -> Packets] OBVIOUS
<1>0. <<>> \in A OBVIOUS
<1> HIDE DEF n, A
<1>2. \A a \in A, b \in Packets : AppendPacketToBuf(a, b) \in A BY AppendShape, Zenon DEF A
<1>3. op \in [A \X Packets -> A] /\ \A a \in A, b \in Packets : op[a, b] = AppendPacketToBuf(a, b)
  <2>1. \A p \in A \X Packets : p[1] \in A /\ p[2] \in Packets BY Zenon
  <2>2. \A p \in A \X Packets : AppendPacketToBuf(p[1], p[2]) \in A BY <1>2, <2>1, Zenon
  <2>3. op \in [A \X Packets -> A] BY <2>2, Zenon
  <2>4. ASSUME NEW a \in A, NEW b \in Packets PROVE op[a, b] = AppendPacketToBuf(a, b)
    <3>1. <<a, b>> \in A \X Packets /\ <<a, b>>[1] = a /\ <<a, b>>[2] = b BY Zenon
    <3> QED BY <3>1, Zenon
  <2> QED BY <2>3, <2>4, Zenon
<1> HIDE DEF op
<1>4. PICK v \in [SUBSET (1 .. n) -> A] : Folded(v, n, <<>>, op, w)
  BY <1>0, <1>1, <1>3, FoldExists, Zenon
<1>5. Encoded(v, w)
  <2>1. ASSUME NEW s \in SUBSET (1 .. n)
        PROVE  v[s] = IF s = {} THEN <<>> ELSE LET x == Max(s) IN AppendPacketToBuf(v[s \ {x}], w[x])
    <3>1. CASE s = {} BY <1>4, <3>1, Zenon DEF Folded
    <3>2. CASE s # {}
      <4>1. v[s] = op[v[s \ {Max(s)}], w[Max(s)]] BY <1>4, <3>2 DEF Folded
      <4>2. v[s \ {Max(s)}] \in A BY Zenon
      <4>3. Max(s) \in s
        <5>1. 1 \in Int /\ n \in Int BY <1>1
        <5> QED BY <3>2, <5>1, Greatest, Zenon
      <4>4. w[Max(s)] \in Packets BY <1>1, <4>3, Zenon
      <4> QED BY <1>3, <3>2, <4>1, <4>2, <4>4, Zenon
    <3> QED BY <3>1, <3>2, Zenon
  <2> QED BY <1>1, <2>1, Zenon DEF Encoded
<1> DEFINE f == CHOOSE f : Encoded(f, w)
<1>6. Encoded(f, w) BY <1>5, Zenon
<1>7. Bytes64(w) = f[1 .. n] BY <1>1, BytesUnfold, Zenon
<1> HIDE DEF f
<1> DEFINE g == [k \in 0 .. n |-> f[1 .. k]]
<1>8. g[0] = <<>>
  <2>1. 1 .. 0 = {} /\ {} \in SUBSET (1 .. n) /\ 0 \in 0 .. n BY <1>1
  <2>2. f[{}] = <<>> BY <1>1, <1>6, <2>1, Zenon DEF Encoded
  <2> QED BY <2>1, <2>2, Zenon
<1>9. g[n] = f[1 .. n] BY <1>1
<1>10. ASSUME NEW k \in 1 .. n PROVE g[k] = AppendPacketToBuf(g[k - 1], w[k])
  <2>1. /\ 1 .. k \in SUBSET (1 .. n) /\ 1 .. k # {}
        /\ Max(1 .. k) = k /\ (1 .. k) \ {k} = 1 .. (k - 1)
    BY <1>1, Segments, Zenon
  <2>2. f[1 .. k] = AppendPacketToBuf(f[(1 .. k) \ {Max(1 .. k)}], w[Max(1 .. k)])
    BY <1>1, <1>6, <2>1, Zenon DEF Encoded
  <2>3. f[1 .. k] = AppendPacketToBuf(f[1 .. (k - 1)], w[k]) BY <2>1, <2>2, Zenon
  <2>4. g[k] = f[1 .. k] /\ g[k - 1] = f[1 .. (k - 1)] BY <1>1
  <2> QED BY <2>3, <2>4, Zenon
<1> HIDE DEF g
<1>11. \A k \in 0 .. n : g[k] \in A
  <2> DEFINE S == {k \in 0 .. n : g[k] \in A}
  <2>1. 0 \in S BY <1>0, <1>1, <1>8
  <2>2. ASSUME NEW k \in 1 .. n, k - 1 \in S PROVE k \in S
    <3>1. w[k] \in Packets /\ g[k - 1] \in A /\ k \in 0 .. n BY <1>1, <2>2
    <3> QED BY <1>2, <1>10, <3>1, Zenon
  <2> HIDE DEF S
  <2>3. \A k \in 0 .. n : k \in S BY <1>1, <2>1, <2>2, UpTo, Zenon
  <2> QED BY <2>3, Zenon DEF S
<1> QED BY <1>7, <1>8, <1>9, <1>10, <1>11, Zenon DEF n, A, Framed

\* The bytes of the first packets come first, whatever is appended.
LEMMA FramesGrow ==
  ASSUME NEW w \in Seq(Packets), NEW g, Framed(w, g), NEW j \in 0 .. Len(w), NEW k \in j .. Len(w)
  PROVE  /\ Len(g[j]) <= Len(g[k]) /\ (j < k => Len(g[j]) < Len(g[k]))
         /\ \A i \in 1 .. Len(g[j]) : g[k][i] = g[j][i]
<1> DEFINE n == Len(w) - j
           Grown(d) == /\ Len(g[j]) <= Len(g[j + d]) /\ (0 < d => Len(g[j]) < Len(g[j + d]))
                       /\ \A i \in 1 .. Len(g[j]) : g[j + d][i] = g[j][i]
           S == {d \in 0 .. n : Grown(d)}
<1>1. Len(w) \in Nat /\ n \in Nat /\ j \in Nat /\ \A d \in 0 .. n : j + d \in 0 .. Len(w) OBVIOUS
<1>2. \A d \in 0 .. n : g[j + d] \in Seq(Digit) /\ Len(g[j + d]) \in Nat BY <1>1 DEF Framed
<1>3. 0 \in S
  <2>1. j + 0 = j /\ 0 \in 0 .. n BY <1>1
  <2>2. Len(g[j]) \in Nat BY <1>2, <2>1, Zenon
  <2> QED BY <2>1, <2>2
<1>4. ASSUME NEW d \in 1 .. n, d - 1 \in S PROVE d \in S
  <2> DEFINE k0 == j + d
             a == g[k0 - 1]
             packet == w[k0]
  <2>1. d - 1 \in 0 .. n /\ d \in 0 .. n /\ j + (d - 1) = k0 - 1 /\ k0 \in 1 .. Len(w) /\ j + d = k0
    BY <1>1
  <2>2. Grown(d - 1) BY <1>4, Zenon
  <2>3. a \in Seq(Digit) /\ Len(a) \in Nat BY <1>2, <2>1, Zenon
  <2>4. packet \in Packets /\ Len(packet) \in Nat BY <2>1, FrameAssumption
  <2>5. g[k0] = AppendPacketToBuf(a, packet) BY <2>1, Zenon DEF Framed
  <2>6. Len(g[j]) <= Len(a) /\ \A i \in 1 .. Len(g[j]) : a[i] = g[j][i] BY <2>1, <2>2, Zenon
  <2>7. Len(g[j]) \in Nat BY <1>1 DEF Framed
  <2> HIDE DEF k0, a, packet
  <2>8. /\ Len(g[k0]) = Len(a) + HeaderSize + Len(packet)
        /\ \A i \in 1 .. Len(a) : g[k0][i] = a[i]
    BY <2>3, <2>4, <2>5, AppendShape
  <2>9. Len(g[j]) < Len(g[k0])
    <3>1. Len(g[j]) <= Len(a) /\ Len(g[k0]) = Len(a) + HeaderSize + Len(packet) BY <2>6, <2>8, Zenon
    <3>2. Len(a) \in Nat /\ Len(packet) \in Nat BY <2>3, <2>4, Zenon
    <3>3. \A x, y, z \in Nat : x <= y => x < y + HeaderSize + z BY FrameAssumption
    <3> QED BY <2>7, <3>1, <3>2, <3>3, Zenon
  <2>10. \A i \in 1 .. Len(g[j]) : g[k0][i] = g[j][i] BY <2>3, <2>6, <2>7, <2>8
  <2>11. Len(g[k0]) \in Nat BY <2>3, <2>4, <2>8, FrameAssumption, SMTT(30)
  <2>12. Len(g[j]) <= Len(g[k0]) BY <2>7, <2>9, <2>11
  <2> QED BY <2>1, <2>9, <2>10, <2>12, Zenon
<1>5. k - j \in 0 .. n /\ j + (k - j) = k /\ (j < k => 0 < k - j) BY <1>1
<1> HIDE DEF S
<1>6. k - j \in S BY <1>1, <1>3, <1>4, <1>5, UpTo, Zenon
<1>7. Grown(k - j) BY <1>6, Zenon DEF S
<1> QED BY <1>5, <1>7, Zenon

\* The bytes of the first packets alone are those.
LEMMA PrefixBytes ==
  ASSUME NEW w \in Seq(Packets), NEW g, Framed(w, g), NEW m \in 0 .. Len(w)
  PROVE  Bytes64(SubSeq(w, 1, m)) = g[m]
<1> DEFINE u == SubSeq(w, 1, m)
<1>1. u \in Seq(Packets) /\ Len(u) = m /\ \A i \in 1 .. m : u[i] = w[i] OBVIOUS
<1> HIDE DEF u
<1>2. PICK h : Framed(u, h) /\ Bytes64(u) = h[m] BY <1>1, BytesSteps, Zenon
<1> DEFINE S == {k \in 0 .. m : h[k] = g[k]}
<1>3. m \in Nat OBVIOUS
<1>4. 0 \in S BY <1>2, <1>3 DEF Framed
<1>5. ASSUME NEW k \in 1 .. m, k - 1 \in S PROVE k \in S
  <2>1. h[k] = AppendPacketToBuf(h[k - 1], u[k]) BY <1>1, <1>2, Zenon DEF Framed
  <2>2. g[k] = AppendPacketToBuf(g[k - 1], w[k]) BY <1>3 DEF Framed
  <2>3. h[k - 1] = g[k - 1] /\ u[k] = w[k] /\ k \in 0 .. m BY <1>1, <1>5
  <2> QED BY <2>1, <2>2, <2>3, Zenon
<1> HIDE DEF S
<1>6. m \in S
  <2>1. m \in 0 .. m /\ \A k \in 1 .. m : k - 1 \in S => k \in S BY <1>3, <1>5
  <2> QED BY <1>3, <1>4, <2>1, UpTo, Zenon
<1>7. h[m] = g[m] BY <1>6, Zenon DEF S
<1> QED BY <1>2, <1>7, Zenon DEF u

-----------------------------------------------------------------------------
(* The reader.                                                             *)

Parsed(received, bytes) ==
  received = [i \in 0 .. Len(bytes) |->
    LET start == i + HeaderSize
        size  == ReadUint64(SubSeq(bytes, i + 1, start))
    IN  IF start > Len(bytes) THEN <<>>
        ELSE IF start + size > Len(bytes) THEN <<SubSeq(bytes, start + 1, Len(bytes))>>
        ELSE <<SubSeq(bytes, start + 1, start + size)>> \o received[start + size]]

LEMMA HandlerUnfolds ==
  ASSUME NEW bytes
  PROVE  StreamHandler(bytes) = (CHOOSE f : Parsed(f, bytes))[0]
BY Zenon DEF StreamHandler, Parsed

\* f is defined at a position by its value at a later one.
Later(next, Stop, n) == \A i \in 0 .. n : i \notin Stop => next[i] \in i + 1 .. n

Chained(f, n, Stop, ending, next, op) ==
  \A i \in 0 .. n : f[i] = IF i \in Stop THEN ending[i] ELSE op[i, f[next[i]]]

\* There is such a function.
LEMMA ChainExists ==
  ASSUME NEW A, NEW n \in Nat, NEW Stop, NEW next, Later(next, Stop, n),
         NEW ending \in [0 .. n -> A], NEW op \in [(0 .. n) \X A -> A]
  PROVE  \E f \in [0 .. n -> A] : Chained(f, n, Stop, ending, next, op)
<1> DEFINE Eq(f, i) == f[i] = IF i \in Stop THEN ending[i] ELSE op[i, f[next[i]]]
           S == {k \in 0 .. n : \E f \in [0 .. n -> A] : \A i \in n - k .. n : Eq(f, i)}
<1>1. 0 \in S
  <2>1. n \in Stop BY DEF Later
  <2>2. \A i \in n - 0 .. n : i = n OBVIOUS
  <2>3. Eq(ending, n) BY <2>1, Zenon
  <2>4. 0 \in 0 .. n OBVIOUS
  <2> QED BY <2>2, <2>3, <2>4, Zenon
<1>2. ASSUME NEW k \in 1 .. n, k - 1 \in S PROVE k \in S
  <2>1. PICK f \in [0 .. n -> A] : \A i \in n - (k - 1) .. n : Eq(f, i) BY <1>2, Zenon
  <2> DEFINE j == n - k
             v == IF j \in Stop THEN ending[j] ELSE op[j, f[next[j]]]
             e == [f EXCEPT ![j] = v]
  <2>2. j \in 0 .. n /\ \A i \in j .. n : i = j \/ i \in n - (k - 1) .. n OBVIOUS
  <2>3. \A i \in j .. n : i \in 0 .. n /\ (i \notin Stop => next[i] \in 0 .. n /\ next[i] # j)
    BY DEF Later
  <2> HIDE DEF j
  <2>4. v \in A
    <3>1. CASE j \in Stop BY <2>2, <3>1, Zenon
    <3>2. CASE j \notin Stop
      <4>1. next[j] \in 0 .. n BY <2>2, <3>2 DEF Later
      <4>2. <<j, f[next[j]]>> \in (0 .. n) \X A BY <2>2, <4>1, Zenon
      <4> QED BY <3>2, <4>2, Zenon
    <3> QED BY <3>1, <3>2, Zenon
  <2>5. e \in [0 .. n -> A] /\ e[j] = v /\ \A i \in 0 .. n : i # j => e[i] = f[i] BY <2>2, <2>4, Zenon
  <2> HIDE DEF e
  <2>6. ASSUME NEW i \in j .. n PROVE Eq(e, i)
    <3>1. i \in 0 .. n /\ (i \notin Stop => e[next[i]] = f[next[i]]) BY <2>3, <2>5, Zenon
    <3>2. CASE i = j BY <2>5, <3>1, <3>2, Zenon
    <3>3. CASE i # j
      <4>1. Eq(f, i) BY <2>1, <2>2, <3>3, Zenon
      <4>2. e[i] = f[i] BY <2>5, <3>1, <3>3, Zenon
      <4> QED BY <3>1, <4>1, <4>2, Zenon
    <3> QED BY <3>2, <3>3, Zenon
  <2>7. k \in 0 .. n OBVIOUS
  <2> QED BY <2>5, <2>6, <2>7, Zenon DEF j
<1> HIDE DEF S
<1>3. n \in S
  <2>1. \A k \in 1 .. n : k - 1 \in S => k \in S BY <1>2, Zenon
  <2>2. n \in 0 .. n OBVIOUS
  <2> QED BY <1>1, <2>1, <2>2, UpTo, Zenon
<1>4. n - n = 0 OBVIOUS
<1> QED BY <1>3, <1>4, Zenon DEF S, Chained

\* StreamHandler reads packet after packet.
LEMMA HandlerSteps ==
  ASSUME NEW bytes \in Seq(Digit)
  PROVE  \E f : Parsed(f, bytes) /\ StreamHandler(bytes) = f[0]
<1> DEFINE n == Len(bytes)
           H == HeaderSize
           Told(i) == ReadUint64(SubSeq(bytes, i + 1, i + H))
           A == Seq(Seq(Digit))
           Stop == {i \in 0 .. n : i + H > n \/ i + H + Told(i) > n}
           ending == [i \in 0 .. n |-> IF i + H > n THEN <<>> ELSE <<SubSeq(bytes, i + H + 1, n)>>]
           next == [i \in 0 .. n |-> i + H + Told(i)]
           op == [p \in (0 .. n) \X A |->
                    IF p[1] \in Stop THEN <<>> ELSE <<SubSeq(bytes, p[1] + H + 1, p[1] + H + Told(p[1]))>> \o p[2]]
<1>1. n \in Nat /\ H \in Nat /\ H > 0 BY FrameAssumption
<1>2. \A i \in 0 .. n : i + H <= n => Told(i) \in Nat
  <2> SUFFICES ASSUME NEW i \in 0 .. n, i + H <= n PROVE Told(i) \in Nat
    BY Zenon
  <2>1. SubSeq(bytes, i + 1, i + H) \in Seq(Digit) BY <1>1
  <2>2. \A h \in Seq(Digit) : ReadUint64(h) \in Nat
    <3> TAKE h \in Seq(Digit)
    <3>1. Len(h) \in 0 .. Len(h) OBVIOUS
    <3> QED BY <3>1, ReadSteps, Zenon
  <2> QED BY <2>1, <2>2, Zenon
<1> HIDE DEF Told
<1>3. \A i \in 0 .. n : i \notin Stop =>
        /\ i + H <= n /\ Told(i) \in Nat /\ i + H + Told(i) \in i + 1 .. n
  BY <1>1, <1>2
<1>4. ending \in [0 .. n -> A]
  <2>1. <<>> \in A OBVIOUS
  <2>2. ASSUME NEW i \in 0 .. n, ~(i + H > n) PROVE <<SubSeq(bytes, i + H + 1, n)>> \in A
    <3>1. SubSeq(bytes, i + H + 1, n) \in Seq(Digit) BY <1>1, <2>2
    <3> QED BY <3>1
  <2> HIDE DEF A
  <2> QED BY <2>1, <2>2, Zenon
<1>5. ASSUME NEW i \in 0 .. n, i \notin Stop, NEW r \in A
      PROVE  <<SubSeq(bytes, i + H + 1, i + H + Told(i))>> \o r \in A
  <2>1. SubSeq(bytes, i + H + 1, i + H + Told(i)) \in Seq(Digit) BY <1>1, <1>3, <1>5
  <2> QED BY <2>1
<1>6. op \in [(0 .. n) \X A -> A]
  <2>1. <<>> \in A OBVIOUS
  <2>2. \A p \in (0 .. n) \X A : p[1] \in 0 .. n /\ p[2] \in A BY Zenon
  <2> HIDE DEF Stop, A
  <2> QED BY <1>5, <2>1, <2>2, Zenon
<1>7. Later(next, Stop, n) BY <1>3, Zenon DEF Later
<1>8. \A i \in 0 .. n, r \in A : op[i, r] = IF i \in Stop THEN <<>> ELSE <<SubSeq(bytes, i + H + 1, i + H + Told(i))>> \o r
  <2> HIDE DEF Stop, A
  <2> QED BY Zenon
<1>9. PICK f \in [0 .. n -> A] : Chained(f, n, Stop, ending, next, op)
  <2> HIDE DEF n, A, Stop, next, ending, op
  <2> QED BY <1>1, <1>4, <1>6, <1>7, ChainExists, Zenon
<1>10. ASSUME NEW i \in 0 .. n
       PROVE  f[i] = IF i + H > n THEN <<>>
                     ELSE IF i + H + Told(i) > n THEN <<SubSeq(bytes, i + H + 1, n)>>
                     ELSE <<SubSeq(bytes, i + H + 1, i + H + Told(i))>> \o f[i + H + Told(i)]
  <2>1. CASE i \in Stop
    <3>1. f[i] = ending[i] BY <1>9, <2>1, Zenon DEF Chained
    <3> QED BY <2>1, <3>1, Zenon
  <2>2. CASE i \notin Stop
    <3>1. f[i] = op[i, f[next[i]]] BY <1>9, <2>2, Zenon DEF Chained
    <3>2. next[i] = i + H + Told(i) /\ next[i] \in 0 .. n BY <1>1, <1>3, <2>2
    <3>3. f[next[i]] \in A BY <3>2, Zenon
    <3>4. f[i] = <<SubSeq(bytes, i + H + 1, i + H + Told(i))>> \o f[i + H + Told(i)]
      <4> HIDE DEF op, next, A, Stop
      <4> QED BY <1>8, <2>2, <3>1, <3>2, <3>3, Zenon
    <3>5. ~(i + H > n) /\ ~(i + H + Told(i) > n) BY <2>2, Zenon
    <3> QED BY <3>4, <3>5, Zenon
  <2> QED BY <2>1, <2>2, Zenon
<1>11. Parsed(f, bytes)
  <2>1. f = [i \in 0 .. n |-> f[i]] BY Zenon
  <2> QED BY <1>10, <2>1, Zenon DEF Parsed, Told
<1> QED BY <1>11, HandlerUnfolds, Zenon

-----------------------------------------------------------------------------
(* The packets in the bytes that arrive.                                   *)

\* What the reader makes of the k-th frame, where all of it, its length or a part has arrived.
FrameIn(C, g, w, k, n) ==
  LET o == Len(g[k - 1])
      s == o + HeaderSize
      z == Len(w[k])
  IN  /\ o \in Nat /\ z \in Nat /\ w[k] \in Seq(Digit) /\ Len(g[k]) = s + z
      /\ s <= n => ReadUint64(SubSeq(C, o + 1, s)) = z
      /\ s + z <= n => SubSeq(C, s + 1, s + z) = w[k]
      /\ s <= n /\ n < s + z => IsStrictPrefix(SubSeq(C, s + 1, n), w[k])

LEMMA FrameAt ==
  ASSUME NEW w \in Seq(Packets), NEW g, Framed(w, g), NEW k \in 1 .. Len(w),
         NEW n \in 0 .. Len(g[Len(w)])
  PROVE  FrameIn(SubSeq(g[Len(w)], 1, n), g, w, k, n)
<1> DEFINE m == Len(w)
           b == g[m]
           C == SubSeq(b, 1, n)
           a == g[k - 1]
           o == Len(a)
           p == w[k]
           z == Len(p)
           h == PutUint64(z)
           H == HeaderSize
<1>1. m \in Nat /\ m \in 0 .. m /\ k - 1 \in 0 .. m /\ k \in 0 .. m /\ m \in k .. m OBVIOUS
<1>2. b \in Seq(Digit) /\ a \in Seq(Digit) /\ g[k] = AppendPacketToBuf(a, p) BY <1>1, Zenon DEF Framed
<1>3. p \in Packets OBVIOUS
<1>4. p \in Seq(Digit) /\ Shifted(z)[H] = 0 BY <1>3, FrameAssumption, Zenon DEF Digit
<1>5. H \in Nat /\ H > 0 BY FrameAssumption
<1>6. o \in Nat /\ z \in Nat BY <1>2, <1>4
<1>7. h \in Seq(Digit) /\ Len(h) = H /\ ReadUint64(h) = z BY <1>4, <1>6, HeaderReads, Zenon
<1>8. Len(g[k]) <= Len(b) /\ \A i \in 1 .. Len(g[k]) : b[i] = g[k][i] BY <1>1, FramesGrow
<1> HIDE DEF m, p, a, b, h
<1>9. /\ Len(g[k]) = o + H + z
      /\ \A i \in 1 .. H : g[k][o + i] = h[i]
      /\ \A i \in 1 .. z : g[k][o + H + i] = p[i]
  <2> DEFINE c == AppendPacketToBuf(a, p)
  <2>1. /\ Len(c) = o + H + z
        /\ \A i \in 1 .. H : c[o + i] = h[i]
        /\ \A i \in 1 .. z : c[o + H + i] = p[i]
    <3>1. a \in Seq(Digit) BY <1>2, Zenon
    <3> QED BY <1>3, <3>1, AppendShape, Zenon DEF h
  <2> HIDE DEF c
  <2>2. g[k] = c BY <1>2, Zenon DEF c
  <2> QED BY <2>1, <2>2, Zenon
<1> HIDE DEF o, z, H
<1>10. /\ \A i \in 1 .. H : b[o + i] = h[i]
       /\ \A i \in 1 .. z : b[o + H + i] = p[i]
  BY <1>5, <1>6, <1>8, <1>9
<1>11. Len(b) \in Nat /\ n \in 0 .. Len(b) BY <1>2 DEF b, m
<1>12. C \in Seq(Digit) /\ Len(C) = n /\ \A i \in 1 .. n : C[i] = b[i] BY <1>2, <1>11
<1> HIDE DEF C
<1>13. \A i, j \in Nat : i <= j /\ j <= n =>
         /\ SubSeq(C, i + 1, j) \in Seq(Digit) /\ Len(SubSeq(C, i + 1, j)) = j - i
         /\ \A x \in 1 .. (j - i) : SubSeq(C, i + 1, j)[x] = b[i + x]
  <2> SUFFICES ASSUME NEW i \in Nat, NEW j \in Nat, i <= j, j <= n
               PROVE  /\ SubSeq(C, i + 1, j) \in Seq(Digit) /\ Len(SubSeq(C, i + 1, j)) = j - i
                      /\ \A x \in 1 .. (j - i) : SubSeq(C, i + 1, j)[x] = b[i + x]
    BY Zenon
  <2>1. SubSeq(C, i + 1, j) \in Seq(Digit) BY <1>11, <1>12
  <2>2. Len(SubSeq(C, i + 1, j)) = j - i BY <1>11, <1>12
  <2>3. \A x \in 1 .. (j - i) : SubSeq(C, i + 1, j)[x] = C[i + x] BY <1>11, <1>12
  <2>4. \A x \in 1 .. (j - i) : i + x \in 1 .. n BY <1>11
  <2> QED BY <1>12, <2>1, <2>2, <2>3, <2>4, Zenon
<1>14. o + H <= n => ReadUint64(SubSeq(C, o + 1, o + H)) = z
  <2> SUFFICES ASSUME o + H <= n PROVE SubSeq(C, o + 1, o + H) = h
    BY <1>7, Zenon
  <2> DEFINE c == SubSeq(C, o + 1, o + H)
  <2>1. c \in Seq(Digit) /\ Len(c) = (o + H) - o /\ \A x \in 1 .. ((o + H) - o) : c[x] = b[o + x]
    <3>1. o + H \in Nat /\ o <= o + H BY <1>5, <1>6
    <3> QED BY <1>6, <1>13, <3>1, Zenon
  <2>2. (o + H) - o = H BY <1>5, <1>6
  <2> HIDE DEF c
  <2>3. Len(c) = Len(h) /\ \A x \in 1 .. Len(c) : c[x] = h[x] BY <1>7, <1>10, <2>1, <2>2, Zenon
  <2>4. c = h BY <1>7, <2>1, <2>3, SeqEqual, Zenon
  <2> QED BY <2>4, Zenon DEF c
<1>15. o + H + z <= n => SubSeq(C, o + H + 1, o + H + z) = p
  <2> SUFFICES ASSUME o + H + z <= n PROVE SubSeq(C, o + H + 1, o + H + z) = p
    BY Zenon
  <2> DEFINE i == o + H
             c == SubSeq(C, i + 1, i + z)
  <2>0. i \in Nat /\ i + z \in Nat /\ i <= i + z /\ (i + z) - i = z BY <1>5, <1>6
  <2>1. c \in Seq(Digit) /\ Len(c) = (i + z) - i /\ \A x \in 1 .. ((i + z) - i) : c[x] = b[i + x]
    <3> HIDE DEF i
    <3>1. i + z <= n BY Zenon DEF i
    <3> QED BY <2>0, <3>1, <1>6, <1>13, Zenon
  <2> HIDE DEF c
  <2>3. Len(c) = Len(p) /\ \A x \in 1 .. Len(c) : c[x] = p[x] BY <1>10, <2>0, <2>1, Zenon DEF z
  <2>4. c = p BY <1>4, <2>1, <2>3, SeqEqual, Zenon
  <2> QED BY <2>4, Zenon DEF c
<1>16. o + H <= n /\ n < o + H + z => IsStrictPrefix(SubSeq(C, o + H + 1, n), p)
  <2> SUFFICES ASSUME o + H <= n, n < o + H + z PROVE IsStrictPrefix(SubSeq(C, o + H + 1, n), p)
    BY Zenon
  <2> DEFINE i == o + H
             c == SubSeq(C, i + 1, n)
             q == SubSeq(p, 1, n - i)
  <2>0. i \in Nat /\ n \in Nat /\ i <= n /\ n - i \in 0 .. z /\ n - i < z BY <1>5, <1>6, <1>11, SMTT(30)
  <2>1. c \in Seq(Digit) /\ Len(c) = n - i /\ \A x \in 1 .. (n - i) : c[x] = b[i + x]
    <3> HIDE DEF i
    <3>1. n <= n BY <2>0
    <3> QED BY <2>0, <3>1, <1>13, Zenon
  <2>2. q \in Seq(Digit) /\ Len(q) = n - i /\ \A x \in 1 .. (n - i) : q[x] = p[x]
    BY <1>4, <2>0 DEF z
  <2> HIDE DEF c, q
  <2>3. \A x \in 1 .. (n - i) : c[x] = q[x]
    <3>1. \A x \in 1 .. (n - i) : x \in 1 .. z BY <1>6, <2>0
    <3> QED BY <1>10, <2>1, <2>2, <3>1, Zenon
  <2>4. c = q BY <2>1, <2>2, <2>3, SeqEqual, Zenon
  <2>5. Len(c) < Len(p) BY <2>0, <2>1, Zenon DEF z
  <2>6. Len(c) <= Len(p) /\ c # p BY <1>4, <2>1, <2>5
  <2>7. c = SubSeq(p, 1, Len(c)) BY <2>1, <2>4, Zenon DEF q
  <2>8. SubSeq(c, 1, Len(c)) = c BY <2>1
  <2>9. IsStrictPrefix(c, p) BY <2>6, <2>7, <2>8, Zenon DEF IsStrictPrefix, IsPrefix
  <2> QED BY <2>9, Zenon DEF c
<1> QED BY <1>4, <1>6, <1>9, <1>12, <1>14, <1>15, <1>16, Zenon DEF m, p, a, b, o, z, H, C, FrameIn

\* s has the packets of w after the k-th up to the last complete one, K, and perhaps a part
\* of the next.
Rest(s, w, k, K) ==
  /\ s \in Seq(Seq(Digit)) /\ Len(s) \in {K - k, K - k + 1}
  /\ \A i \in 1 .. (K - k) : s[i] = w[k + i]
  /\ Len(s) > K - k => K < Len(w) /\ IsStrictPrefix(s[K - k + 1], w[K + 1])

\* From the end of a frame the reader takes the rest of the packets.
LEMMA RestIsRead ==
  ASSUME NEW w \in Seq(Packets), NEW g, Framed(w, g), NEW n \in 0 .. Len(g[Len(w)]),
         NEW f, Parsed(f, SubSeq(g[Len(w)], 1, n)),
         NEW K \in 0 .. Len(w), Len(g[K]) <= n, K < Len(w) => n < Len(g[K + 1])
  PROVE  \A k \in 0 .. K : Rest(f[Len(g[k])], w, k, K)
<1> DEFINE m == Len(w)
           C == SubSeq(g[m], 1, n)
           H == HeaderSize
           o(k) == Len(g[k])
           S == {d \in 0 .. K : Rest(f[o(K - d)], w, K - d, K)}
<1>1. m \in Nat /\ K \in Nat /\ H \in Nat /\ H > 0 BY FrameAssumption
<1>2. \A k \in 0 .. m : g[k] \in Seq(Digit) /\ o(k) \in Nat BY <1>1 DEF Framed
<1>3. n \in Nat /\ m \in 0 .. m /\ n <= o(m) BY <1>1, <1>2
<1>4. C \in Seq(Digit) /\ Len(C) = n BY <1>2, <1>3
<1>5. \A i \in 0 .. n : LET start == i + H
                            size  == ReadUint64(SubSeq(C, i + 1, start))
                        IN f[i] = IF start > n THEN <<>>
                                  ELSE IF start + size > n THEN <<SubSeq(C, start + 1, n)>>
                                  ELSE <<SubSeq(C, start + 1, start + size)>> \o f[start + size]
  <2> HIDE DEF C
  <2>1. Parsed(f, C) BY Zenon DEF C
  <2> QED BY <1>4, <2>1, Zenon DEF Parsed
<1>6. ASSUME NEW k \in 1 .. m
      PROVE  LET s == o(k - 1) + H
             IN  /\ w[k] \in Seq(Digit) /\ Len(w[k]) \in Nat /\ o(k - 1) \in Nat /\ o(k) = s + Len(w[k])
                 /\ s <= n => ReadUint64(SubSeq(C, o(k - 1) + 1, s)) = Len(w[k])
                 /\ s + Len(w[k]) <= n => SubSeq(C, s + 1, s + Len(w[k])) = w[k]
                 /\ s <= n /\ n < s + Len(w[k]) => IsStrictPrefix(SubSeq(C, s + 1, n), w[k])
  <2>1. FrameIn(C, g, w, k, n) BY FrameAt, Zenon
  <2> QED BY <2>1, Zenon DEF FrameIn
<1>7. o(K) <= n /\ (K < m => n < o(K + 1)) BY Zenon
<1>8. \A k \in 1 .. K : o(k) <= n
  <2> TAKE k \in 1 .. K
  <2>1. k \in 0 .. m /\ K \in k .. m /\ K \in 0 .. m BY <1>1
  <2>2. o(k) <= o(K) BY <2>1, FramesGrow, Zenon
  <2> QED BY <1>2, <1>3, <1>7, <2>1, <2>2, SMTT(30)
<1> HIDE DEF C, H, o
<1>9. Rest(f[o(K)], w, K, K)
  <2> DEFINE i == o(K)
  <2>1. i \in 0 .. n /\ K - K = 0 BY <1>1, <1>2, <1>3, <1>7, SMTT(30)
  <2>2. CASE i + H > n
    <3>1. f[i] = <<>> BY <1>5, <2>1, <2>2, Zenon
    <3>2. <<>> \in Seq(Seq(Digit)) /\ Len(<<>>) = 0 OBVIOUS
    <3> QED BY <2>1, <3>1, <3>2 DEF Rest
  <2>3. CASE ~(i + H > n)
    <3>1. K # m BY <1>1, <1>3, <2>1, <2>3, SMTT(30)
    <3>2. K < m /\ K + 1 \in 1 .. m /\ (K + 1) - 1 = K BY <1>1, <3>1
    <3> DEFINE p == w[K + 1]
               q == SubSeq(C, i + H + 1, n)
    <3>3. /\ p \in Seq(Digit) /\ Len(p) \in Nat /\ o(K + 1) = i + H + Len(p)
          /\ i + H <= n => ReadUint64(SubSeq(C, i + 1, i + H)) = Len(p)
          /\ i + H <= n /\ n < i + H + Len(p) => IsStrictPrefix(q, p)
      BY <1>6, <3>2, Zenon
    <3> HIDE DEF p
    <3>4. i + H <= n /\ i + H + Len(p) > n /\ n < i + H + Len(p) BY <1>1, <1>3, <1>7, <2>1, <2>3, <3>2, <3>3, SMTT(30)
    <3>5. f[i] = <<q>> BY <1>5, <2>1, <2>3, <3>3, <3>4, Zenon
    <3>6. q \in Seq(Digit) BY <1>1, <1>3, <1>4, <2>1, <3>4, SMTT(30)
    <3>7. IsStrictPrefix(q, p) BY <3>3, <3>4, Zenon
    <3> HIDE DEF q, i
    <3>8. f[i] \in Seq(Seq(Digit)) /\ Len(f[i]) = 1 /\ f[i][1] = q BY <3>5, <3>6
    <3>9. f[i] \in Seq(Seq(Digit)) /\ Len(f[i]) = K - K + 1 BY <1>1, <3>8
    <3>10. K - K + 1 = 1 /\ \A j \in 1 .. (K - K) : FALSE BY <1>1
    <3> QED BY <3>2, <3>7, <3>8, <3>9, <3>10, Zenon DEF Rest, p, i
  <2> QED BY <2>2, <2>3, Zenon
<1>10. ASSUME NEW k \in 1 .. K, Rest(f[o(k)], w, k, K) PROVE Rest(f[o(k - 1)], w, k - 1, K)
  <2> DEFINE i == o(k - 1)
             p == w[k]
             t == f[o(k)]
  <2>1. k \in 1 .. m /\ o(k) <= n BY <1>1, <1>8
  <2>2. /\ p \in Seq(Digit) /\ Len(p) \in Nat /\ i \in Nat /\ o(k) = i + H + Len(p)
        /\ i + H <= n => ReadUint64(SubSeq(C, i + 1, i + H)) = Len(p)
        /\ i + H + Len(p) <= n => SubSeq(C, i + H + 1, i + H + Len(p)) = p
    BY <1>6, <2>1, Zenon
  <2> HIDE DEF i, p
  <2>3. i \in 0 .. n /\ i + H <= n /\ ~(i + H > n) /\ i + H + Len(p) <= n /\ ~(i + H + Len(p) > n)
    BY <1>1, <1>3, <2>1, <2>2, SMTT(30)
  <2>4. f[i] = <<p>> \o t BY <1>5, <2>2, <2>3, Zenon
  <2>5. Rest(t, w, k, K) BY <1>10, Zenon
  <2> HIDE DEF t
  <2>6. t \in Seq(Seq(Digit)) BY <2>5, Zenon DEF Rest
  <2>7. /\ f[i] \in Seq(Seq(Digit)) /\ Len(f[i]) = 1 + Len(t) /\ f[i][1] = p
        /\ \A j \in 1 .. Len(t) : f[i][1 + j] = t[j]
    BY <2>2, <2>4, <2>6, SMTT(30)
  <2>8. \A j \in 2 .. 1 + Len(t) : f[i][j] = t[j - 1]
    <3>1. Len(t) \in Nat BY <2>6
    <3>2. \A j \in 2 .. 1 + Len(t) : j - 1 \in 1 .. Len(t) /\ 1 + (j - 1) = j BY <3>1
    <3> QED BY <2>7, <3>2, Zenon
  <2>9. Len(t) \in Nat /\ Len(t) \in {K - k, K - k + 1} /\ (K - (k - 1)) = K - k + 1 BY <1>1, <2>5, <2>6, SMTT(30) DEF Rest
  <2>10. \A j \in 1 .. (K - (k - 1)) : f[i][j] = w[(k - 1) + j]
    <3> TAKE j \in 1 .. (K - (k - 1))
    <3>1. CASE j = 1
      <4>1. (k - 1) + 1 = k BY <1>1
      <4> QED BY <2>7, <3>1, <4>1, Zenon DEF p
    <3>2. CASE j # 1
      <4>1. j \in 2 .. 1 + Len(t) /\ j - 1 \in 1 .. (K - k) /\ k + (j - 1) = (k - 1) + j
        BY <1>1, <2>9, <3>2, SMTT(30)
      <4>2. t[j - 1] = w[k + (j - 1)] BY <2>5, <4>1, Zenon DEF Rest
      <4> QED BY <2>8, <4>1, <4>2, Zenon
    <3> QED BY <3>1, <3>2, Zenon
  <2>11. ASSUME Len(f[i]) > K - (k - 1)
         PROVE  K < Len(w) /\ IsStrictPrefix(f[i][K - (k - 1) + 1], w[K + 1])
    <3>1. Len(t) > K - k BY <1>1, <2>7, <2>9, <2>11, SMTT(30)
    <3>2. K < Len(w) /\ IsStrictPrefix(t[K - k + 1], w[K + 1]) BY <2>5, <3>1, Zenon DEF Rest
    <3>3. K - (k - 1) + 1 \in 2 .. 1 + Len(t) /\ (K - (k - 1) + 1) - 1 = K - k + 1
      BY <1>1, <2>9, <3>1, SMTT(30)
    <3>4. f[i][K - (k - 1) + 1] = t[K - k + 1] BY <2>8, <3>3, SMTT(30)
    <3> QED BY <3>2, <3>4, Zenon
  <2>12. Len(f[i]) \in {K - (k - 1), K - (k - 1) + 1}
    <3>1. Len(f[i]) = 1 + Len(t) BY <2>7, Zenon
    <3> HIDE DEF i
    <3> QED BY <1>1, <2>9, <3>1, SMTT(30)
  <2> QED BY <2>7, <2>10, <2>11, <2>12, Zenon DEF Rest, i
<1>11. 0 \in S
  <2>1. K - 0 = K /\ 0 \in 0 .. K BY <1>1
  <2> QED BY <1>9, <2>1, Zenon
<1>12. \A d \in 1 .. K : d - 1 \in S => d \in S
  <2> SUFFICES ASSUME NEW d \in 1 .. K, d - 1 \in S PROVE d \in S
    BY Zenon
  <2>1. K - (d - 1) \in 1 .. K /\ (K - (d - 1)) - 1 = K - d /\ d \in 0 .. K BY <1>1
  <2>2. Rest(f[o(K - (d - 1))], w, K - (d - 1), K) BY Zenon
  <2>3. Rest(f[o((K - (d - 1)) - 1)], w, (K - (d - 1)) - 1, K) BY <1>10, <2>1, <2>2, Zenon
  <2>4. Rest(f[o(K - d)], w, K - d, K) BY <2>1, <2>3, Zenon
  <2> QED BY <2>1, <2>4, Zenon
<1> HIDE DEF S
<1>13. \A d \in 0 .. K : d \in S BY <1>1, <1>11, <1>12, UpTo, Zenon
<1>14. ASSUME NEW k \in 0 .. K PROVE Rest(f[o(k)], w, k, K)
  <2>1. K - k \in 0 .. K /\ K - (K - k) = k BY <1>1
  <2>2. K - k \in S BY <1>13, <2>1, Zenon
  <2>3. Rest(f[o(K - (K - k))], w, K - (K - k), K) BY <2>2, Zenon DEF S
  <2> QED BY <2>1, <2>3, Zenon
<1> QED BY <1>14, Zenon DEF o

\* Of the bytes of the packets of w, the first n hold the packets that end there.
LEMMA PrefixIsRead ==
  ASSUME NEW w \in Seq(Packets), NEW n \in 0 .. Len(Bytes64(w))
  PROVE  LET got   == StreamHandler(SubSeq(Bytes64(w), 1, n))
             whole == Cardinality({k \in 1 .. Len(w) : Len(Bytes64(SubSeq(w, 1, k))) <= n})
         IN  /\ Len(got) \in {whole, whole + 1} /\ Len(got) <= Len(w)
             /\ SubSeq(got, 1, whole) = SubSeq(w, 1, whole)
             /\ Len(got) > whole => IsStrictPrefix(Last(got), w[whole + 1])
<1> DEFINE m == Len(w)
           got == StreamHandler(SubSeq(Bytes64(w), 1, n))
           Ended == {k \in 1 .. m : Len(Bytes64(SubSeq(w, 1, k))) <= n}
<1>1. PICK g : Framed(w, g) /\ Bytes64(w) = g[m] BY BytesSteps, Zenon
<1> DEFINE o(k) == Len(g[k])
           Z == {k \in 0 .. m : o(k) <= n}
           K == Max(Z)
<1>2. m \in Nat /\ m \in 0 .. m /\ 0 \in 0 .. m OBVIOUS
<1>3. \A k \in 0 .. m : g[k] \in Seq(Digit) /\ o(k) \in Nat BY <1>1 DEF Framed
<1>4. n \in Nat /\ n \in 0 .. Len(g[m]) BY <1>1, <1>2, <1>3
<1>5. g[0] = <<>> /\ o(0) = 0 BY <1>1, Zenon DEF Framed
<1>6. 0 \in Z BY <1>2, <1>4, <1>5, SMTT(30)
<1>7. K \in Z /\ \A k \in Z : K >= k
  <2>1. Z \subseteq 0 .. m /\ Z # {} /\ 0 \in Int /\ m \in Int BY <1>2, <1>6
  <2> HIDE DEF Z
  <2> QED BY <2>1, Greatest, Zenon
<1> HIDE DEF K
<1>8. K \in 0 .. m /\ K \in Nat /\ Len(g[K]) <= n BY <1>7
<1>9. K < m => n < Len(g[K + 1])
  <2> SUFFICES ASSUME K < m, ~(n < o(K + 1)) PROVE FALSE
    BY Zenon
  <2>1. K + 1 \in 0 .. m BY <1>2, <1>8, SMTT(30)
  <2>2. o(K + 1) <= n BY <1>3, <1>4, <2>1
  <2>3. K >= K + 1 BY <1>7, <2>1, <2>2, Zenon
  <2> QED BY <1>8, <2>3
<1>10. Ended = 1 .. K
  <2>1. \A k \in 1 .. m : k \in 0 .. m BY <1>2
  <2>2. \A k \in 1 .. m : Bytes64(SubSeq(w, 1, k)) = g[k] BY <1>1, <2>1, PrefixBytes, Zenon
  <2>3. \A k \in 1 .. m : Len(Bytes64(SubSeq(w, 1, k))) <= n <=> o(k) <= n BY <2>2, Zenon
  <2>4. ASSUME NEW k \in 1 .. m PROVE o(k) <= n <=> k <= K
    <3>1. ASSUME o(k) <= n PROVE k <= K BY <1>7, <1>8, <2>1, <3>1, Zenon
    <3>2. ASSUME k <= K PROVE o(k) <= n
      <4>1. k \in 0 .. Len(w) /\ K \in k .. Len(w) /\ k \in 0 .. m BY <1>8, <3>2
      <4>2. o(k) <= o(K) BY <1>1, <4>1, FramesGrow, Zenon
      <4> QED BY <1>3, <1>4, <1>8, <4>1, <4>2, SMTT(30)
    <3> QED BY <3>1, <3>2, Zenon
  <2>5. Ended \subseteq 1 .. K BY <1>8, <2>3, <2>4
  <2>6. 1 .. K \subseteq Ended
    <3> SUFFICES ASSUME NEW k \in 1 .. K PROVE k \in Ended
      BY Zenon
    <3>1. k \in 1 .. m /\ k <= K BY <1>8
    <3> QED BY <2>3, <2>4, <3>1, Zenon
  <2> QED BY <2>5, <2>6, Zenon
<1>11. Cardinality(Ended) = K
  <2>1. Cardinality(1 .. K) = IF 1 > K THEN 0 ELSE K - 1 + 1 BY <1>8, FS_Interval
  <2>2. Cardinality(1 .. K) = K BY <1>8, <2>1, SMTT(30)
  <2> QED BY <1>10, <2>2, Zenon
<1> HIDE DEF Ended
<1> DEFINE C == SubSeq(g[m], 1, n)
<1>12. C \in Seq(Digit) BY <1>2, <1>3, <1>4, SMTT(30)
<1>13. got = StreamHandler(C) BY <1>1, Zenon
<1> HIDE DEF C, got
<1>14. PICK f : Parsed(f, C) /\ StreamHandler(C) = f[0] BY <1>12, HandlerSteps, Zenon
<1>15. Rest(f[Len(g[0])], w, 0, K)
  <2>1. 0 \in 0 .. K BY <1>8
  <2>2. Parsed(f, SubSeq(g[Len(w)], 1, n)) BY <1>14, Zenon DEF C
  <2>3. \A k \in 0 .. K : Rest(f[Len(g[k])], w, k, K)
    <3>1. Framed(w, g) /\ n \in 0 .. Len(g[Len(w)]) /\ K \in 0 .. Len(w) BY <1>1, <1>4, <1>8, Zenon
    <3>2. K < Len(w) => n < Len(g[K + 1]) BY <1>9, Zenon
    <3> HIDE DEF m
    <3> QED BY <1>8, <2>2, <3>1, <3>2, RestIsRead, Zenon
  <2> QED BY <2>1, <2>3, Zenon
<1>16. Rest(got, w, 0, K) BY <1>5, <1>13, <1>14, <1>15, Zenon
<1>17. K - 0 = K BY <1>8
<1>18. /\ got \in Seq(Seq(Digit)) /\ Len(got) \in {K, K + 1}
       /\ \A i \in 1 .. K : got[i] = w[0 + i]
       /\ Len(got) > K => K < m /\ IsStrictPrefix(got[K + 1], w[K + 1])
  BY <1>16, <1>17, Zenon DEF Rest
<1>19. \A i \in 1 .. K : got[i] = w[i] BY <1>8, <1>18
<1>20. Len(got) \in Nat /\ Len(got) >= K /\ Len(got) <= m BY <1>2, <1>8, <1>18, SMTT(30)
<1>21. SubSeq(got, 1, K) = SubSeq(w, 1, K)
  <2> DEFINE s == SubSeq(got, 1, K)
             t == SubSeq(w, 1, K)
  <2>1. w \in Seq(Seq(Digit))
    <3>1. Packets \subseteq Seq(Digit) BY FrameAssumption, Zenon DEF Digit
    <3> HIDE DEF m
    <3> QED BY <3>1
  <2>2. s \in Seq(Seq(Digit)) /\ Len(s) = K /\ \A i \in 1 .. K : s[i] = got[i] BY <1>8, <1>18, <1>20, SMTT(30)
  <2>3. t \in Seq(Seq(Digit)) /\ Len(t) = K /\ \A i \in 1 .. K : t[i] = w[i] BY <1>8, <2>1, SMTT(30)
  <2> HIDE DEF s, t
  <2>4. Len(s) = Len(t) /\ \A i \in 1 .. Len(s) : s[i] = t[i] BY <1>19, <2>2, <2>3, Zenon
  <2>5. s = t BY <2>2, <2>3, <2>4, SeqEqual, Zenon
  <2> QED BY <2>5, Zenon DEF s, t
<1>22. Len(got) > K => IsStrictPrefix(Last(got), w[K + 1])
  <2> SUFFICES ASSUME Len(got) > K PROVE IsStrictPrefix(Last(got), w[K + 1])
    BY Zenon
  <2>1. Len(got) = K + 1 BY <1>8, <1>18, SMTT(30)
  <2>2. Last(got) = got[K + 1] BY <2>1, Zenon DEF Last
  <2> QED BY <1>18, <2>2, Zenon
<1>23. Cardinality({k \in 1 .. Len(w) : Len(Bytes64(SubSeq(w, 1, k))) <= n}) = K BY <1>11, Zenon DEF Ended
<1> QED BY <1>18, <1>20, <1>21, <1>22, <1>23, Zenon DEF got

\* FramesSurvive: in every state, of whatever part of the bytes written has arrived, the
\* reader of the other side makes the packets that were written, in their order.
THEOREM FramesArrive == streamSpec => []FramesSurvive
<1>1. streamInv => FramesSurvive
  <2> SUFFICES ASSUME streamInv PROVE FramesSurvive
    BY Zenon
  <2>1. written \in Seq(Packets) BY Zenon DEF streamInv, streamTypeOK
  <2> QED BY <2>1, PrefixIsRead, Zenon DEF FramesSurvive
<1>2. streamInv /\ [streamNext]_streamVars => streamInv'
  BY streamStepKeeps, Zenon
<1> QED BY <1>1, <1>2, streamInitKeeps, PTL DEF streamSpec

=============================================================================
