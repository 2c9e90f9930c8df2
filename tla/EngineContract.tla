--------------------------- MODULE EngineContract ---------------------------
(***************************************************************************)
(* What the Android service sees of TunnelEngine (gomobile/engine.go):     *)
(* Connect holds t.mu while it dials; then a relay owns the TUN descriptor *)
(* and closes it some time; its goroutine forgets the cancel function in   *)
(* the end.  Module TunnelEngine, where the relay is RelayLoop with all    *)
(* its goroutines, implements this specification.                          *)
(***************************************************************************)
EXTENDS Naturals

CONSTANTS
  Conns,        \* sessions: calls of Connect that get as far as dialing
  QuicConns,    \* those whose network lets QUIC through
  NoConn        \* not a session

ASSUME ContractAssumption == QuicConns \subseteq Conns /\ NoConn \notin Conns

VARIABLES
  mu,             \* the session whose Connect holds t.mu, or NoConn
  dial,           \* per session: how far its Connect is
  cancelFn,       \* whose cancel function t.cancelFn is, or NoConn
  ctxCancelled,   \* per session: cancel() has been called
  relay,          \* per session: its relay, with the TUN open or closed
  overlapped      \* history: a session began while another's goroutine ran

contractVars == <<mu, dial, cancelFn, ctxCancelled, relay, overlapped>>

ContractTypeOK ==
  /\ mu \in Conns \cup {NoConn}
  /\ dial \in [Conns -> {"none", "quic", "tcp", "up", "failed"}]
  /\ cancelFn \in Conns \cup {NoConn}
  /\ ctxCancelled \in [Conns -> BOOLEAN]
  /\ relay \in [Conns -> {"none", "open", "shut", "clear", "end"}]
  /\ overlapped \in BOOLEAN

Init ==
  /\ mu = NoConn
  /\ dial = [s \in Conns |-> "none"]
  /\ cancelFn = NoConn
  /\ ctxCancelled = [s \in Conns |-> FALSE]
  /\ relay = [s \in Conns |-> "none"]
  /\ overlapped = FALSE

Free == mu = NoConn
Busy(s) == relay[s] \in {"open", "shut", "clear"}
TcpConns == Conns \ QuicConns

Connect(s) ==
  /\ Free
  /\ cancelFn = NoConn
  /\ dial[s] = "none"
  /\ mu' = s
  /\ dial' = [dial EXCEPT ![s] = "quic"]
  /\ UNCHANGED <<cancelFn, ctxCancelled, relay, overlapped>>

QuicDialFails(s) ==
  /\ dial[s] = "quic"
  /\ dial' = [dial EXCEPT ![s] = "tcp"]
  /\ UNCHANGED <<mu, cancelFn, ctxCancelled, relay, overlapped>>

MutFallbackFails(s) ==
  /\ dial[s] = "tcp"
  /\ dial' = [dial EXCEPT ![s] = "failed"]
  /\ ctxCancelled' = [ctxCancelled EXCEPT ![s] = TRUE]
  /\ UNCHANGED <<mu, cancelFn, relay, overlapped>>

FallbackFails(s) ==
  /\ dial[s] = "tcp"
  /\ dial' = [dial EXCEPT ![s] = "failed"]
  /\ ctxCancelled' = [ctxCancelled EXCEPT ![s] = TRUE]
  /\ mu' = NoConn
  /\ UNCHANGED <<cancelFn, relay, overlapped>>

Establish(s) ==
  /\ dial[s] = (IF s \in QuicConns THEN "quic" ELSE "tcp")
  /\ dial' = [dial EXCEPT ![s] = "up"]
  /\ cancelFn' = s
  /\ relay' = [relay EXCEPT ![s] = "open"]
  /\ mu' = NoConn
  /\ overlapped' = (overlapped \/ \E r \in Conns : Busy(r))
  /\ UNCHANGED ctxCancelled

\* RelayLoop has met an error and closes the TUN descriptor.
CloseTun(s) ==
  /\ relay[s] = "open"
  /\ relay' = [relay EXCEPT ![s] = "shut"]
  /\ UNCHANGED <<mu, dial, cancelFn, ctxCancelled, overlapped>>

\* RelayLoop has returned, and its result is in a channel.
SendResult(s) ==
  /\ relay[s] = "shut"
  /\ relay' = [relay EXCEPT ![s] = "clear"]
  /\ UNCHANGED <<mu, dial, cancelFn, ctxCancelled, overlapped>>

ClearCancel(s) ==
  /\ relay[s] = "clear"
  /\ Free
  /\ cancelFn' = NoConn
  /\ relay' = [relay EXCEPT ![s] = "end"]
  /\ UNCHANGED <<mu, dial, ctxCancelled, overlapped>>

Disconnect ==
  \E s \in Conns :
    /\ Free
    /\ cancelFn = s
    /\ cancelFn' = NoConn
    /\ ctxCancelled' = [ctxCancelled EXCEPT ![s] = TRUE]
    /\ UNCHANGED <<mu, dial, relay, overlapped>>

Next ==
  \/ \E s \in Conns :
       \/ Connect(s) \/ QuicDialFails(s) \/ FallbackFails(s) \/ Establish(s)
       \/ CloseTun(s) \/ SendResult(s) \/ ClearCancel(s)
  \/ Disconnect

Spec == Init /\ [][Next]_contractVars
-----------------------------------------------------------------------------
(* What a user of the engine may rely on; used by VpnServiceProofs.        *)

DialAndRelay == \A s \in Conns :
  /\ relay[s] # "none" => dial[s] = "up"
  /\ dial[s] \in {"quic", "tcp"} => mu = s
OneBusy == ~overlapped => \A r, s \in Conns : Busy(r) /\ Busy(s) => r = s
Cancellable == \A s \in Conns :
  ~overlapped /\ relay[s] = "open" /\ ~ctxCancelled[s] => cancelFn = s
HolderDials == mu # NoConn => dial[mu] \in {"quic", "tcp"}

ContractInv == ContractTypeOK /\ DialAndRelay /\ OneBusy /\ Cancellable
=============================================================================
