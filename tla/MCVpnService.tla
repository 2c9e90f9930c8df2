---------------------------- MODULE MCVpnService ----------------------------
(***************************************************************************)
(* VpnService with two sessions, one of each transport, in either order.   *)
(***************************************************************************)
EXTENDS VpnService

CONSTANTS q1, t1

Sessions     == {q1, t1}
QuicSessions == {q1}

\* What Android gives a Button, if its layout does not say otherwise.
ButtonsOn == [connectBtn |-> "on", disconnectBtn |-> "on"]
=============================================================================
