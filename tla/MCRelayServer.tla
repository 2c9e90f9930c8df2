--------------------------- MODULE MCRelayServer ----------------------------
(***************************************************************************)
(* RelayServer on two connections of one listener, QUIC or TCP, of which   *)
(* the second kicks the first.                                             *)
(***************************************************************************)
EXTENDS RelayServer

CONSTANTS q1, q2, t1, t2, tun0

TwoQuic == {q1, q2}
TwoTcp  == {t1, t2}

ServerTun == {tun0}
SharedTun == [c \in Conns |-> tun0]
=============================================================================
