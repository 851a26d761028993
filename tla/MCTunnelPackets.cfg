\* One peer and three packets: the ownership of packets and the safety of the
\* channels while the peer is removed, comes back, and the tunnel is closed.
CONSTANTS
  PeerID = {p1}
  IP = {a}
  VpnPeers = {v1}
  Packets = {k1, k2, k3}
  NoPeer = NoPeer
  NoPacket = NoPacket
  Unknown = Unknown
  BadIP = BadIP
  Broadcast = Broadcast
  NoRoute = NoRoute
  ChanCap = 2
  TunBatch = 2
  BatchSize = 2
  MaxBehind = 1
  Malformed = FALSE
SPECIFICATION Spec
SYMMETRY Symmetry
INVARIANTS SendSafe 
