\* Two peers that swap two addresses, come and go; no packets, so that only the
\* tables and the lock matter.  Every change is followed by its own refresh.
CONSTANTS
  PeerID = {p1, p2}
  IP = {a, b}
  VpnPeers = {v1, v2, v3}
  Packets = {}
  NoPeer = NoPeer
  NoPacket = NoPacket
  Unknown = Unknown
  BadIP = BadIP
  Broadcast = Broadcast
  NoRoute = NoRoute
  ChanCap = 1
  TunBatch = 1
  BatchSize = 1
  MaxBehind = 1
  Malformed = FALSE
SPECIFICATION Spec
SYMMETRY Symmetry
INVARIANTS RouteSound RoutesComplete
