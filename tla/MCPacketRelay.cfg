\* Packets and frames, over either transport.
SPECIFICATION FairSpec
CONSTANTS
  Base = 2
  BufSize = 2
  Packets <- AllPackets
  MaxSent = 3
INVARIANTS
  TypeOK
  BytesInOrder
  FailsOnlyWhenCut
PROPERTIES
  FramedIsPipe
  AllArrive
\* The TUN may have no more packets, and the transport may be cut.
CHECK_DEADLOCK FALSE
