\* One start, of which one step may fail, and a stop; a second connection finds
\* the one slot of the channel full.
CONSTANTS
  c1 = c1
  c2 = c2
  Conns = {c1, c2}
  BootstrapPeers = 2
  MaxStarts = 1
  MaxFailures = 1
SPECIFICATION FairSpec
INVARIANTS StoppedIsReleased
PROPERTIES StopEnds Connects ConnsClosed
CHECK_DEADLOCK FALSE
