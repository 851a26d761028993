---------------------------- MODULE PacketStream ----------------------------
(* The stream on which backgroundOutboundHandler sends the packets of a     *)
(* peer, and what StreamHandler on the other node makes of its bytes        *)
(* (src/service/tunnel.go, src/protocol/protocol.go, src/vpn/packet.go).    *)
(* The queues and the pool the packets come from are in Tunnel.             *)
EXTENDS Integers, Sequences, FiniteSets, SequencesExt

CONSTANTS
  Packets,       \* what may be sent: sequences of bytes
  Base,          \* values of a byte, 256 in the code
  HeaderSize,    \* bytes of the length of a packet, 8 in the code
  BatchSize,     \* packetsBatchSize
  MaxLimited,    \* maxPacketsPerLimitedStream
  MaxUnlimited   \* maxPacketsPerUnlimitedStream

ASSUME LimitAssumption ==
  /\ BatchSize \in Nat /\ MaxLimited \in Nat /\ MaxUnlimited \in Nat
  /\ BatchSize < MaxLimited /\ BatchSize < MaxUnlimited

Kinds == {"limited", "unlimited"}  \* a stream through a relay is limited
Limit(kind) == IF kind = "limited" THEN MaxLimited ELSE MaxUnlimited

VARIABLES
  stream,   \* the kind of the open stream, or "none"
  max,      \* maxPacketsPerStream
  current,  \* currentPacketsForStream
  written   \* the packets written to the open stream

streamVars == <<stream, max, current, written>>

streamInit == stream = "none" /\ max = 0 /\ current = 0 /\ written = <<>>

\* closeStream, at the end of a step.
Closed == stream' = "none" /\ current' = 0 /\ written' = <<>>

Exceeds_Already(n) == current >= max

\* Before a batch of n packets: closeStream if the stream cannot take them.
\* max is that of the last stream opened, 0 before the first one.
Exceeds(n) == current + n >= max

Open(n)  == stream # "none" /\ ~Exceeds(n)
Count(n) == n + IF Exceeds(n) THEN 0 ELSE current

SendOnOpen(batch) ==
  /\ Open(Len(batch))
  /\ current' = Count(Len(batch))
  /\ written' = written \o batch
  /\ UNCHANGED <<stream, max>>

SendOnNew(batch) ==
  /\ ~Open(Len(batch))
  /\ \E kind \in Kinds : stream' = kind /\ max' = Limit(kind)
  /\ current' = Count(Len(batch))
  /\ written' = batch

\* makeTunnelStream fails, or Write does on a stream that may be new.
SendFails(batch) ==
  /\ Closed
  /\ max' \in {max} \cup (IF Open(Len(batch)) THEN {} ELSE {Limit(kind) : kind \in Kinds})

\* Packets that come while the peer is not connected are dropped: no step.
sendPacket(batch) == SendOnOpen(batch) \/ SendOnNew(batch) \/ SendFails(batch)

IdleTimeout == Closed /\ UNCHANGED max

Batch == {b \in BoundedSeq(Packets, BatchSize) : b # <<>>}

streamNext == IdleTimeout \/ \E batch \in Batch : sendPacket(batch)

streamSpec == streamInit /\ [][streamNext]_streamVars

-----------------------------------------------------------------------------
(* The bytes.                                                              *)

\* n without its last k bytes.
Shifted(n) ==
  LET shifted[k \in 0 .. HeaderSize] == IF k = 0 THEN n ELSE shifted[k - 1] \div Base
  IN  shifted

PutUint64(n) == [i \in 1 .. HeaderSize |-> Shifted(n)[HeaderSize - i] % Base]

\* The length of a packet fits into its header.
ASSUME FrameAssumption ==
  /\ Base \in Nat \ {0} /\ HeaderSize \in Nat \ {0}
  /\ \A packet \in Packets : packet \in Seq(0 .. Base - 1) /\ Shifted(Len(packet))[HeaderSize] = 0

AppendPacketToBuf_CountsHeader(buf, packet) == buf \o PutUint64(HeaderSize + Len(packet)) \o packet

AppendPacketToBuf(buf, packet) == buf \o PutUint64(Len(packet)) \o packet

Bytes64(packets) == FoldLeft(AppendPacketToBuf, <<>>, packets)

ReadUint64(h) == FoldLeft(LAMBDA n, b : n * Base + b, 0, h)

\* StreamHandler on the first bytes of a stream that then ends. ReadFrom takes
\* the end of the stream for the end of the packet.
StreamHandler(bytes) ==
  LET end == Len(bytes)
      received[i \in 0 .. end] ==
        LET start == i + HeaderSize
            size  == ReadUint64(SubSeq(bytes, i + 1, start))
        IN  IF start > end THEN <<>>
            ELSE IF start + size > end THEN <<SubSeq(bytes, start + 1, end)>>
            ELSE <<SubSeq(bytes, start + 1, start + size)>> \o received[start + size]
  IN  received[0]

-----------------------------------------------------------------------------
(* Properties.                                                             *)

streamTypeOK ==
  /\ stream \in Kinds \cup {"none"}
  /\ max \in Nat /\ current \in Nat
  /\ written \in Seq(Packets)

\* A stream never carries as many packets as its own kind allows, although the
\* count is compared with the limit of the stream before it.
StreamWithinLimit == stream # "none" => Len(written) < Limit(stream)

\* Why: the count and the limit are those of the open stream, and a stream
\* that is not open has no count.
streamInv ==
  /\ streamTypeOK
  /\ stream = "none" => current = 0
  /\ stream # "none" => Len(written) = current /\ max = Limit(stream) /\ current < max

\* Wherever the stream breaks off, the other node gets every packet that
\* arrived whole, unchanged and in order, and after them at most the first
\* bytes of one more.
FramesSurvive ==
  LET bytes == Bytes64(written) IN
  \A n \in 0 .. Len(bytes) :
    LET got   == StreamHandler(SubSeq(bytes, 1, n))
        whole == Cardinality({k \in 1 .. Len(written) : Len(Bytes64(SubSeq(written, 1, k))) <= n})
    IN  /\ Len(got) \in {whole, whole + 1} /\ Len(got) <= Len(written)
        /\ SubSeq(got, 1, whole) = SubSeq(written, 1, whole)
        /\ Len(got) > whole => IsStrictPrefix(Last(got), written[whole + 1])
=============================================================================
