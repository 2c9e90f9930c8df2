--------------------------- MODULE MCTunnelEngine ---------------------------
(***************************************************************************)
(* TunnelEngine with two sessions, one of each transport, in either order. *)
(***************************************************************************)
EXTENDS TunnelEngine

CONSTANTS q1, t1, fd1, fd2

Sessions     == {q1, t1}
QuicSessions == {q1}
Fds          == {fd1, fd2}
OwnFd        == [s \in Conns |-> IF s = q1 THEN fd1 ELSE fd2]
=============================================================================
