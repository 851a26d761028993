\* Two goroutines, two changes, one process that finds a file or none. A
\* subscription holds one event less than there are changes.
CONSTANTS
  SystemDNS = "base"
  Workers = {w1, w2}
  BufferSize = 1
  MaxOps = 2
  MaxStarts = 1
SPECIFICATION FairSpec
  
PROPERTIES   TunnelFollows ResolverFollows
CHECK_DEADLOCK FALSE
