\* Two clients of the TCP listener: the second kicks the first.
SPECIFICATION Spec
CONSTANTS
  q1 = q1
  q2 = q2
  t1 = t1
  t2 = t2
  tun0 = tun0
  NoConn = NoConn
  Conns <- TwoTcp
  QuicConns = {}
  Tuns <- ServerTun
  TunOf <- SharedTun
  TunCloseInterrupts = FALSE
  Upsets = {"read", "write", "listener", "signal"}
INVARIANTS
  OneUncancelledRelay
  ActiveIsLive
PROPERTY
  LeaseSpec
\* The server ends when it is told to, and nothing is left to do.
CHECK_DEADLOCK FALSE
