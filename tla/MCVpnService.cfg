\* The Android service, the buttons and the engine.
SPECIFICATION FairServiceSpec
CONSTANTS
  q1 = q1
  t1 = t1
  NoConn = NoConn
  Conns <- Sessions
  QuicConns <- QuicSessions
  Numbers = {3, 4}
  Layout <- ButtonsOn
  MaxAsking = 1
INVARIANTS
  ServiceTypeOK
  DestroyCancels
  OwnDescriptor
  NoneOverwritten
  StoppedIsNotConnected
PROPERTY
  DisconnectGoesOn
\* The service may be destroyed.
CHECK_DEADLOCK FALSE
