\* What an exit leaves behind.
SPECIFICATION Spec
CONSTANTS
  a1 = a1
  a2 = a2
  NoAddr = NoAddr
  Addrs <- TwoAddrs
  Servers = 2
  MaxRtt = 1
  MaxStarts = 1
INVARIANT
  CleanupOnAnyExit
\* The client may stay off.
CHECK_DEADLOCK FALSE
