\* A buffer of 4 that holds 8 bytes; 2 packets a batch and limits of 4 and 6;
\* three relays, latencies whose difference may not fit an int of 2 bits; two
\* peers with any addresses, one of which may take the id of the other or the name of
\* the admin page as its name; three servers and two clicks of the tray; two requests
\* and two overlapping polls.
CONSTANTS
  Size = 4
  Byte = {0, 1, 2}
  Zero = 0
  Writes <- RingWrites
  Packets <- FramedPackets
  Base = 2
  HeaderSize = 2
  BatchSize = 2
  MaxLimited = 4
  MaxUnlimited = 6
  Batches <- PacketBatches
  SenderIPs <- Senders
  OurIP <- Our
  r1 = r1
  r2 = r2
  r3 = r3
  Relay = {r1, r2, r3}
  MaxLatency = 2
  IntWidth = 2
  MaxAddrs = 3
  Direct = Direct
  KnownID = {"P1", "P2"}
  DomainName = {"a", "p1", "admin"}
  IPAddr = {1, 2}
  Admin = "admin"
  AdminIP = 0
  MaxApps = 3
  MaxClicks = 2
  Request = {a, b}
  Poll = {p1, p2}
  Lower <- ToLower
  Length <- NameLength
SPECIFICATION PartsSpec
SYMMETRY RelaySymmetry
INVARIANTS ChecksumsVerify StreamWithinLimit FramesSurvive RelaysOffered ClosestNotDelayed NamesResolve PtrRoundTrip TrayAgrees 
 
CHECK_DEADLOCK FALSE
