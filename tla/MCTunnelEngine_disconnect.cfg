\* The relay after Disconnect.
SPECIFICATION FairSpec
CONSTANTS
  q1 = q1
  t1 = t1
  fd1 = fd1
  fd2 = fd2
  NoConn = NoConn
  Conns <- Sessions
  QuicConns <- QuicSessions
  Tuns <- Fds
  TunOf <- OwnFd
  TunCloseInterrupts = TRUE
  Upsets = {}
PROPERTY
  DisconnectEndsRelay
\* Both sessions may be over.
CHECK_DEADLOCK FALSE
