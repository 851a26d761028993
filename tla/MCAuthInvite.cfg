\* a invites b; either may restart twice, one stream or connection fails.
CONSTANTS
  a = a
  b = b
  Nodes = {a, b}
  Goroutines = {s1}
  Tickers <- RetryOfA
  Unknown = Unknown
  Nobody = Nobody
  AutoAccept = {}
  UserOps <- InviteOps
  MaxOps = 3
  MaxFaults = 1
SPECIFICATION FairSpec
PROPERTIES InvitationArrives
CHECK_DEADLOCK FALSE
