--------------------------- MODULE PacketRewrite ---------------------------
(* What WritePacketsBatch does to the packets of a peer before they enter   *)
(* the TUN device: IPv4 packets get the sender's address and ours, and the  *)
(* checksums again (src/vpn/vpn.go, src/vpn/packet.go). A packet is the     *)
(* sequence of its bytes; one that Parse accepts and whose header lengths   *)
(* are within it. External: the device.                                     *)
EXTENDS Naturals, Sequences, SequencesExt

CONSTANTS
  Batches,   \* what the inbound handler may hand over
  SenderIPs, \* addresses of peers, 4 bytes
  OurIP      \* d.localIP

VARIABLES given, sender, tun

packetVars == <<given, sender, tun>>

IPProtocolTCP == 6
IPProtocolUDP == 17

\* 0-based indices and half-open slices of Go.
at(p, i) == p[i + 1]
slice(p, i, j) == SubSeq(p, i + 1, j)
copyTo(p, i, bytes) ==
  [k \in DOMAIN p |-> IF i < k /\ k <= i + Len(bytes) THEN bytes[k - i] ELSE p[k]]
PutUint16(p, i, v) == copyTo(p, i, <<v \div 256, v % 256>>)

\* Parse: the version, and the protocol where it is set.
IsIPv6(p) == at(p, 0) \div 16 = 6
Src(p) == slice(p, 12, 16)
Dst(p) == slice(p, 16, 20)

-----------------------------------------------------------------------------
(* Checksums.                                                              *)

folded[v \in Nat] == IF v > 65535 THEN folded[(v \div 65536) + (v % 65536)] ELSE v

tcpipChecksum_NoOdd(data, csum) ==
  LET sum[n \in 0 .. Len(data) \div 2] ==
        IF n = 0 THEN csum ELSE sum[n - 1] + data[2 * n - 1] * 256 + data[2 * n]
  IN  65535 - folded[sum[Len(data) \div 2]]

\* The same loop as that of checksumIPv4Header, which starts from 0.
tcpipChecksum(data, csum) ==
  LET sum[n \in 0 .. Len(data) \div 2] ==
        IF n = 0 THEN csum ELSE sum[n - 1] + data[2 * n - 1] * 256 + data[2 * n]
      odd == IF Len(data) % 2 = 1 THEN data[Len(data)] * 256 ELSE 0
  IN  65535 - folded[sum[Len(data) \div 2] + odd]

checksumIPv4Header(buf) == tcpipChecksum(buf, 0)

checksumIPv4TCPUDP(data, protocol, src, dst) ==
  tcpipChecksum(data, (src[1] + src[3]) * 256 + src[2] + src[4]
                    + (dst[1] + dst[3]) * 256 + dst[2] + dst[4]
                    + protocol + (Len(data) % 65536) + (Len(data) \div 65536))

\* Where the checksum of the payload is; other protocols are left alone.
HasChecksum(p) == at(p, 9) \in {IPProtocolTCP, IPProtocolUDP}
HeaderLen(p)   == (at(p, 0) % 16) * 4
Offset(p)      == HeaderLen(p) + IF at(p, 9) = IPProtocolTCP THEN 16 ELSE 6

RecalculateChecksum(p) ==
  LET ihl     == HeaderLen(p)
      p0      == PutUint16(p, 10, 0)
      p1      == PutUint16(p0, 10, checksumIPv4Header(slice(p0, 0, ihl)))
      p2      == PutUint16(p1, Offset(p), 0)
      payload == slice(p2, ihl, Len(p))
  IN  IF ~HasChecksum(p) THEN p1
      ELSE PutUint16(p2, Offset(p), checksumIPv4TCPUDP(payload, at(p, 9), Src(p), Dst(p)))

-----------------------------------------------------------------------------
packetInit == given = <<>> /\ sender = OurIP /\ tun = <<>>

Readdressed(p, ip) == copyTo(copyTo(p, 12, ip), 16, OurIP)

WritePacketsBatch(batch, ip) ==
  LET ipv4 == SelectSeq(batch, LAMBDA p : ~IsIPv6(p))
  IN  /\ given' = batch /\ sender' = ip
      /\ tun' = [i \in DOMAIN ipv4 |-> RecalculateChecksum(Readdressed(ipv4[i], ip))]

packetNext == \E batch \in Batches, ip \in SenderIPs : WritePacketsBatch(batch, ip)

-----------------------------------------------------------------------------
(* Properties.                                                             *)

\* The sum of the 16-bit words, a last odd byte being the high half of one.
WordSum(bytes) == FoldLeftDomain(LAMBDA s, i : s + bytes[i] * (IF i % 2 = 1 THEN 256 ELSE 1), 0, bytes)

Accepted(bytes) == WordSum(bytes) > 0 /\ WordSum(bytes) % 65535 = 0

\* What a receiver sums up for TCP and UDP: addresses, protocol and length
\* before the header and the payload.
PseudoHeader(p) ==
  LET len == Len(p) - HeaderLen(p)
  IN  Src(p) \o Dst(p) \o <<0, at(p, 9), len \div 256, len % 256>>

\* Every packet the device gets carries the sender's address and ours, its
\* checksums are accepted by a receiver (RFC 1071: the words sum up to a
\* multiple of 65535), and no other byte differs from what the peer sent.
ChecksumsVerify ==
  LET ipv4 == SelectSeq(given, LAMBDA p : ~IsIPv6(p)) IN
  /\ Len(tun) = Len(ipv4)
  /\ \A n \in DOMAIN tun :
       LET p == tun[n]
           rewritten == (11 .. 20) \cup (IF HasChecksum(p) THEN {Offset(p) + 1, Offset(p) + 2} ELSE {})
       IN  /\ Src(p) = sender /\ Dst(p) = OurIP
           /\ Accepted(slice(p, 0, HeaderLen(p)))
           /\ HasChecksum(p) => Accepted(PseudoHeader(p) \o slice(p, HeaderLen(p), Len(p)))
           /\ \A k \in DOMAIN p \ rewritten : p[k] = ipv4[n][k]
=============================================================================
