-------------------------- MODULE MCWindowsClient ---------------------------
(***************************************************************************)
(* WindowsClient started up to three times, for a server whose name        *)
(* resolves to one of two addresses.                                       *)
(***************************************************************************)
EXTENDS WindowsClient

CONSTANTS a1, a2

TwoAddrs == {a1, a2}
=============================================================================
