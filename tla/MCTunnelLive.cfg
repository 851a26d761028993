\* One peer, one address, one packet, every goroutine scheduled fairly; the
\* process ends after Close, so it may stop.
CONSTANTS
  PeerID = {p1}
  IP = {a}
  VpnPeers = {v1}
  Packets = {k1}
  NoPeer = NoPeer
  NoPacket = NoPacket
  Unknown = Unknown
  BadIP = BadIP
  Broadcast = Broadcast
  NoRoute = NoRoute
  ChanCap = 1
  TunBatch = 1
  BatchSize = 1
  MaxBehind = 2
  Malformed = FALSE
SPECIFICATION FairSpec
CHECK_DEADLOCK FALSE
PROPERTIES TableFollowsConfig 
