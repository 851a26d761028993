------------------------------ MODULE MCParts ------------------------------
(* The parts that work alone, each in behaviours of its own: the log buffer, *)
(* the stream of packets, the packets written to the device, the choice of   *)
(* relays, the DNS names, the tray and the notifications.                    *)
EXTENDS RingBuffer, PacketStream, PacketRewrite, Relays, Resolver, Tray, Notifications, TLC

CONSTANTS r1, r2, r3

VARIABLE part

partVars == <<ringVars, streamVars, packetVars, relayVars, resolverVars, trayVars, noticeVars>>

PartsInit ==
  /\ part \in {"ring", "stream", "packet", "relay", "resolver", "tray", "notice"}
  /\ Init /\ streamInit /\ packetInit /\ relayInit /\ resolverInit /\ trayInit /\ noticeInit

PartsNext ==
  /\ UNCHANGED part
  /\ \/ part = "ring" /\ Next
        /\ UNCHANGED <<streamVars, packetVars, relayVars, resolverVars, trayVars, noticeVars>>
     \/ part = "stream" /\ streamNext
        /\ UNCHANGED <<ringVars, packetVars, relayVars, resolverVars, trayVars, noticeVars>>
     \/ part = "packet" /\ tun = <<>> /\ packetNext
        /\ UNCHANGED <<ringVars, streamVars, relayVars, resolverVars, trayVars, noticeVars>>
     \/ part = "relay" /\ relayNext
        /\ UNCHANGED <<ringVars, streamVars, packetVars, resolverVars, trayVars, noticeVars>>
     \/ part = "resolver" /\ resolverNext
        /\ UNCHANGED <<ringVars, streamVars, packetVars, relayVars, trayVars, noticeVars>>
     \/ part = "tray" /\ trayNext
        /\ UNCHANGED <<ringVars, streamVars, packetVars, relayVars, resolverVars, noticeVars>>
     \/ part = "notice" /\ noticeNext
        /\ UNCHANGED <<ringVars, streamVars, packetVars, relayVars, resolverVars, trayVars>>

PartsSpec == PartsInit /\ [][PartsNext]_<<part, partVars>>

-----------------------------------------------------------------------------
(* Writes of one byte up to more than the buffer takes.                    *)
RingWrites == {<<0>>, <<1, 2>>, <<1, 0, 2, 1>>, <<2, 1, 0, 1, 2, 0, 1>>}

(* Packets of one to three bytes of one bit; a length has two of them.     *)
FramedPackets == {<<0>>, <<1, 0>>, <<1, 1, 0>>}

(* One batch of packets with and without options, with and without checksums of their   *)
(* own, of odd and even length, with bytes that carry and that do not.     *)
IPv4(words, protocol, payload, a, b) ==
  [i \in 1 .. 4 * words + payload |->
     IF i = 1 THEN 64 + words ELSE IF i = 10 THEN protocol ELSE IF i % 2 = 1 THEN a ELSE b]

IPv6 == [i \in 1 .. 40 |-> IF i = 1 THEN 96 ELSE 7]

PacketBatches ==
  LET packets == {IPv4(words, f[1], f[2], a, b) :
                    words \in {5, 6},
                    f \in {<<6, 20>>, <<6, 21>>, <<17, 8>>, <<17, 9>>, <<17, 11>>, <<1, 3>>},
                    a \in {0, 1, 255}, b \in {0, 254, 255}}
  IN  {<<p>> : p \in packets} \cup {<<IPv6, p, IPv4(5, 17, 9, 3, 4)>> : p \in packets}

Senders == {<<10, 66, 0, 2>>, <<255, 255, 255, 255>>, <<0, 0, 0, 0>>}
Our     == <<10, 66, 0, 1>>

(* Ids have upper case letters; a domain name may be an id in lower case.  *)
ToLower == [n \in {"P1", "P2", "p1", "p2", "a", "A", "bb", "admin", "Admin"} |->
              CASE n = "P1" -> "p1" [] n = "P2" -> "p2" [] n = "A" -> "a"
                [] n = "Admin" -> "admin" [] OTHER -> n]
NameLength == [n \in {"p1", "p2", "a", "bb", "admin"} |->
                 CASE n = "a" -> 1 [] n = "bb" -> 2 [] OTHER -> 5]

RelaySymmetry == Permutations({r1, r2, r3})
=============================================================================
