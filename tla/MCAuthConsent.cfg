\* Any three operations, two goroutines; b accepts by itself.
CONSTANTS
  a = a
  b = b
  Nodes = {a, b}
  Goroutines = {s1, s2}
  Tickers <- NoTickers
  Unknown = Unknown
  Nobody = Nobody
  AutoAccept = {b}
  UserOps <- EveryOp
  MaxOps = 3
  MaxFaults = 1
SPECIFICATION Spec
SYMMETRY Symmetry
INVARIANTS  ConfirmedConsented ExitConsented
CHECK_DEADLOCK FALSE
