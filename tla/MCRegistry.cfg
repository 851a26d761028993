\* Two handlers, three calls; the subnet 0..3 has two addresses for peers, so a
\* user can take its last one and the next peer finds none.
CONSTANTS
  p1 = p1
  p2 = p2
  p3 = p3
  PeerID = {p1, p2, p3}
  Goroutines = {g1, g2}
  Name <- NameOf
  Alias <- TwoAliases
  UserIP = {3, 6}
  FileIP = {2}
  LocalIP = 1
  FirstIP = 0
  LastIP = 3
  Width = 3
  MaxCalls = 3
  MaxRequests = 2
SPECIFICATION Spec
SYMMETRY Symmetry
INVARIANTS   SuggestionsUsable
PROPERTIES LoadStable
CHECK_DEADLOCK FALSE
