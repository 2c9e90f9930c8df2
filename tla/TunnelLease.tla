---------------------------- MODULE TunnelLease -----------------------------
(***************************************************************************)
(* What the connection handlers of one server promise, with no mutex, no   *)
(* generation counter and no context: each listener leases its tunnel to   *)
(* one connection at a time.  A connection that asked for the tunnel takes *)
(* the lease, at most once, and thereby revokes the lease of the present   *)
(* holder; only the holder itself gives the lease back.                    *)
(*                                                                         *)
(* This is the sentence of internal/engine/quic.go:17-18, "Only one relay  *)
(* is active at a time [...] A second connection attempt kicks the first   *)
(* connection off", and of fallback.go:49.  RelayServer implements it.     *)
(***************************************************************************)
CONSTANTS
  Conns,      \* connections
  Listeners,  \* listeners, each with one lease
  Home,       \* the listener of a connection
  NoConn      \* not a connection

LeaseAssumption ==
  /\ Home \in [Conns -> Listeners]
  /\ NoConn \notin Conns

VARIABLES
  asked,      \* connections that have asked for the tunnel
  granted,    \* connections that have taken the lease at some time
  revoked,    \* connections that have lost it since, or given it back
  holder      \* who holds the lease of a listener, or NoConn

leaseVars == <<asked, granted, revoked, holder>>

LeaseTypeOK ==
  /\ asked \subseteq Conns
  /\ granted \subseteq Conns
  /\ revoked \subseteq Conns
  /\ holder \in [Listeners -> Conns \cup {NoConn}]

Init ==
  /\ asked = {}
  /\ granted = {}
  /\ revoked = {}
  /\ holder = [l \in Listeners |-> NoConn]

Ask(c) ==
  /\ asked' = asked \cup {c}
  /\ UNCHANGED <<granted, revoked, holder>>

\* A request that was refused counts for nothing.
Withdraw(c) ==
  /\ c \notin granted
  /\ asked' = asked \ {c}
  /\ UNCHANGED <<granted, revoked, holder>>

Take(c) ==
  /\ c \in asked \ granted
  /\ granted' = granted \cup {c}
  /\ revoked' = revoked \cup ({holder[Home[c]]} \ {NoConn})
  /\ holder' = [holder EXCEPT ![Home[c]] = c]
  /\ UNCHANGED asked

GiveBack(c) ==
  /\ holder[Home[c]] = c
  /\ revoked' = revoked \cup {c}
  /\ holder' = [holder EXCEPT ![Home[c]] = NoConn]
  /\ UNCHANGED <<asked, granted>>

Next == \E c \in Conns : Ask(c) \/ Withdraw(c) \/ Take(c) \/ GiveBack(c)

Spec == Init /\ [][Next]_leaseVars

\* A lease that was granted and not revoked is the holder's: a listener has
\* at most one such lease, and the next connection can always revoke it.
LiveLeaseIsHeld ==
  \A c \in granted \ revoked : holder[Home[c]] = c
=============================================================================
