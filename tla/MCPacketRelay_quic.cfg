\* Packets over a QUIC stream.
SPECIFICATION Spec
CONSTANTS
  Base = 2
  BufSize = 2
  Packets <- AllPackets
  MaxSent = 2
INVARIANT
  CopiesPackets
\* The TUN may have no more packets, and the transport may be cut.
CHECK_DEADLOCK FALSE
