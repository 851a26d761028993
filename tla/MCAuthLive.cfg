\* a invites b; b decides, and changes its mind later.
CONSTANTS
  a = a
  b = b
  Nodes = {a, b}
  Goroutines = {s1}
  Tickers <- StatusOfA
  Unknown = Unknown
  Nobody = Nobody
  AutoAccept = {}
  UserOps <- DecideOps
  MaxOps = 4
  MaxFaults = 1
SPECIFICATION FairSpec
PROPERTIES DeclineArrives 
CHECK_DEADLOCK FALSE
