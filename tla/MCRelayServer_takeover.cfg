\* Two QUIC clients: what the second one gets.
SPECIFICATION Spec
CONSTANTS
  q1 = q1
  q2 = q2
  t1 = t1
  t2 = t2
  tun0 = tun0
  NoConn = NoConn
  Conns <- TwoQuic
  QuicConns <- TwoQuic
  Tuns <- ServerTun
  TunOf <- SharedTun
  TunCloseInterrupts = FALSE
  Upsets = {}
INVARIANT
  TakeoverKeepsTun
\* The server ends when it is told to, and nothing is left to do.
CHECK_DEADLOCK FALSE
