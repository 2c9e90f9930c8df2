\* Start, failure, interruption and restart of the Windows client.
SPECIFICATION FairSpec
CONSTANTS
  a1 = a1
  a2 = a2
  NoAddr = NoAddr
  Addrs <- TwoAddrs
  Servers = 3
  MaxRtt = 1
  MaxStarts = 3
INVARIANTS
  TypeOK
  HoleWhenNeeded
  DefaultIsFastest
PROPERTIES
  ReturnRestores
  OverEnds
  OnlyOwnRouteDiffers
\* The client may stay off.
CHECK_DEADLOCK FALSE
