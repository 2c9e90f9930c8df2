---------------------------- MODULE TunnelEngine ----------------------------
(***************************************************************************)
(* TunnelEngine (gomobile/engine.go), the object that the Android service  *)
(* holds, with the relays of its sessions (module RelayLoop).              *)
(*                                                                         *)
(* A session is one call of Connect that got as far as dialing; it has a   *)
(* transport and a TUN descriptor of its own, and a goroutine gpc[s] that  *)
(* runs RelayLoop and then clears cancelFn.  Calls that Connect refuses    *)
(* ("already running", a bad certificate) change nothing and have no       *)
(* action.  Connect holds t.mu for as long as it dials; every other        *)
(* section under t.mu is one action.                                       *)
(*                                                                         *)
(* QuicConns are the sessions whose network lets QUIC through.             *)
(***************************************************************************)
EXTENDS RelayLoop

\* Each session's TUN is its own: VpnService establishes one for each Connect.
ASSUME EngineAssumption ==
  \A s, r \in Conns : s # r => TunOf[s] # TunOf[r]

VARIABLES
  mu,             \* the session whose Connect holds t.mu, or NoConn
  dial,           \* per session: how far its Connect is
  cancelFn,       \* whose cancel function t.cancelFn is, or NoConn
  relayDone,      \* whose channel t.relayDone is: the latest session, or NoConn
  seen,           \* per session: the channels t.relayDone has held since it began
  results,        \* per session: results in the channel it made
  gpc,            \* per session: where its goroutine is
  ctxCancelled,   \* per session: cancel() has been called
  overlapped      \* history: a session began while another's goroutine ran

engineVars ==
  <<mu, dial, cancelFn, relayDone, seen, results, gpc, ctxCancelled, overlapped>>
vars == <<relayVars, engineVars>>

TypeOK ==
  /\ RelayTypeOK
  /\ mu \in Conns \cup {NoConn}
  /\ dial \in [Conns -> {"none", "quic", "tcp", "up", "failed"}]
  /\ cancelFn \in Conns \cup {NoConn}
  /\ relayDone \in Conns \cup {NoConn}
  /\ seen \in [Conns -> SUBSET Conns]
  /\ results \in [Conns -> 0..1]
  /\ gpc \in [Conns -> {"none", "relay", "clear", "end"}]
  /\ ctxCancelled \in [Conns -> BOOLEAN]
  /\ overlapped \in BOOLEAN

Init ==
  /\ RelayInit
  /\ mu = NoConn
  /\ dial = [s \in Conns |-> "none"]
  /\ cancelFn = NoConn
  /\ relayDone = NoConn
  /\ seen = [s \in Conns |-> {}]
  /\ results = [s \in Conns |-> 0]
  /\ gpc = [s \in Conns |-> "none"]
  /\ ctxCancelled = [s \in Conns |-> FALSE]
  /\ overlapped = FALSE

Free == mu = NoConn
Busy(s) == gpc[s] \in {"relay", "clear"}
IsConnected == cancelFn # NoConn

\* t.relayDone = make(chan error, 1); nobody ever receives from it.
MutNoRoom == 0
MutTwoResults == 2
ResultsCapacity == 1
-----------------------------------------------------------------------------
(* Connect.                                                                *)

Connect(s) ==
  /\ Free
  /\ ~IsConnected
  /\ dial[s] = "none"
  /\ mu' = s
  /\ dial' = [dial EXCEPT ![s] = "quic"]
  /\ UNCHANGED <<relayVars, cancelFn, relayDone, seen, results, gpc,
                 ctxCancelled, overlapped>>

QuicDialFails(s) ==
  /\ dial[s] = "quic"
  /\ dial' = [dial EXCEPT ![s] = "tcp"]
  /\ UNCHANGED <<relayVars, mu, cancelFn, relayDone, seen, results, gpc,
                 ctxCancelled, overlapped>>

\* Both dials failed: cancel(), and the TUN descriptor stays open.
FallbackFails(s) ==
  /\ dial[s] = "tcp"
  /\ dial' = [dial EXCEPT ![s] = "failed"]
  /\ ctxCancelled' = [ctxCancelled EXCEPT ![s] = TRUE]
  /\ mu' = NoConn
  /\ UNCHANGED <<relayVars, cancelFn, relayDone, seen, results, gpc, overlapped>>

\* A dial succeeds; the relay's goroutine starts; Connect returns.
Establish(s) ==
  /\ dial[s] = (IF s \in QuicConns THEN "quic" ELSE "tcp")
  /\ dial' = [dial EXCEPT ![s] = "up"]
  /\ link' = [link EXCEPT ![s] = "up"]
  /\ cancelFn' = s
  /\ relayDone' = s
  /\ seen' = [r \in Conns |-> IF r = s THEN {s}
                             ELSE IF gpc[r] = "relay" THEN seen[r] \cup {s}
                             ELSE seen[r]]
  /\ gpc' = [gpc EXCEPT ![s] = "relay"]
  /\ rpc' = [rpc EXCEPT ![s] = "wait"]
  /\ out' = [out EXCEPT ![s] = "tunRead"]
  /\ inn' = [inn EXCEPT ![s] = "remoteRead"]
  /\ mu' = NoConn
  /\ overlapped' = (overlapped \/ \E r \in Conns : Busy(r))
  /\ UNCHANGED <<tunVars, sendClosed, errc, results, ctxCancelled>>
-----------------------------------------------------------------------------
(* The session's goroutine.                                                *)

\* t.relayDone <- RelayLoop(tunRW, transport).  The field is read without t.mu,
\* before or after RelayLoop runs: the channel may be any later session's.
SendResult(s) ==
  /\ gpc[s] = "relay"
  /\ rpc[s] = "returned"
  /\ \E r \in seen[s] :
       /\ results[r] < ResultsCapacity
       /\ results' = [results EXCEPT ![r] = @ + 1]
  /\ rpc' = [rpc EXCEPT ![s] = "done"]
  /\ gpc' = [gpc EXCEPT ![s] = "clear"]
  /\ UNCHANGED <<tunVars, linkVars, out, inn, errc, mu, dial, cancelFn, relayDone, seen,
                 ctxCancelled, overlapped>>

MutClearCancel(s) ==
  /\ gpc[s] = "clear"
  /\ cancelFn' = NoConn
  /\ gpc' = [gpc EXCEPT ![s] = "end"]
  /\ UNCHANGED <<relayVars, mu, dial, relayDone, seen, results, ctxCancelled, overlapped>>

\* t.cancelFn = nil, whose ever it is.
ClearCancel(s) ==
  /\ gpc[s] = "clear"
  /\ Free
  /\ cancelFn' = NoConn
  /\ gpc' = [gpc EXCEPT ![s] = "end"]
  /\ UNCHANGED <<relayVars, mu, dial, relayDone, seen, results, ctxCancelled, overlapped>>
-----------------------------------------------------------------------------
(* cancel() ends the context of a dial that is over.  It does nothing to   *)
(* the connection that the dial made: not to a TCP one, and not to a QUIC  *)
(* one, which quic-go v0.60.0 (go.mod) detaches from DialAddr's context    *)
(* when the handshake is complete.                                         *)

MutDisconnectOnlyForgets ==
  \E s \in Conns :
    /\ Free
    /\ cancelFn = s
    /\ cancelFn' = NoConn
    /\ UNCHANGED <<relayVars, mu, dial, relayDone, seen, results, gpc, ctxCancelled, overlapped>>

MutDisconnectRemembers ==
  \E s \in Conns :
    /\ Free
    /\ cancelFn = s
    /\ ctxCancelled' = [ctxCancelled EXCEPT ![s] = TRUE]
    /\ UNCHANGED <<relayVars, mu, dial, cancelFn, relayDone, seen, results, gpc, overlapped>>

Disconnect ==
  \E s \in Conns :
    /\ Free
    /\ cancelFn = s
    /\ cancelFn' = NoConn
    /\ ctxCancelled' = [ctxCancelled EXCEPT ![s] = TRUE]
    /\ UNCHANGED <<relayVars, mu, dial, relayDone, seen, results, gpc, overlapped>>
-----------------------------------------------------------------------------
RelayAct(A) == A /\ UNCHANGED engineVars

Next ==
  \/ \E s \in Conns :
       \/ Connect(s) \/ QuicDialFails(s) \/ FallbackFails(s) \/ Establish(s)
       \/ SendResult(s) \/ ClearCancel(s)
       \/ RelayAct(PeerFinishes(s)) \/ RelayAct(PeerLost(s))
       \/ RelayAct(OutNext(s)) \/ RelayAct(InnNext(s)) \/ RelayAct(MainStep(s))
  \/ Disconnect

(* The goroutines that can move do; nothing is assumed of the user, of the *)
(* network or of the dials.                                                *)
GoroutineActs(s) == RelayAct(MainStep(s)) \/ SendResult(s) \/ ClearCancel(s)

FairTo(s) ==
  /\ WF_vars(RelayAct(OutStep(s)))
  /\ WF_vars(RelayAct(InnStep(s)))
  /\ WF_vars(GoroutineActs(s))
Fairness == \A s \in Conns : FairTo(s)

Spec == Init /\ [][Next]_vars
FairSpec == Spec /\ Fairness
-----------------------------------------------------------------------------
\* The cancel function that Disconnect would call belongs to the latest session,
\* and has not been called before: no step of an older session's goroutine puts
\* an older one back (engine.go:94, 100, 114).
CancelFnIsLatest ==
  \A s \in Conns :
    cancelFn = s => relayDone = s /\ dial[s] = "up" /\ ~ctxCancelled[s]

\* What IsConnected looks at (engine.go:118-123), in both directions: the stored
\* cancel function is of a session whose goroutine has not ended and that was
\* not disconnected; and such a session's is stored, as long as every session
\* began after the goroutine of the one before it had ended.  It does not say
\* that a relay runs exactly while IsConnected: that of a disconnected session
\* runs on (DisconnectEndsRelay), and after an overlap IsConnected may be false
\* while the latest one runs, whatever the comment in engine.go:118 says.
CancelFnTracksSession ==
  \A s \in Conns :
    /\ cancelFn = s => Busy(s) /\ ~ctxCancelled[s]
    /\ ~overlapped /\ Busy(s) /\ ~ctxCancelled[s] => cancelFn = s

\* What makes the two inductive; used by TunnelEngineProofs.
Dialing == \A s \in Conns :
  /\ dial[s] \in {"none", "quic", "tcp"} =>
       rpc[s] = "none" /\ gpc[s] = "none" /\ ~ctxCancelled[s]
  /\ dial[s] \in {"quic", "tcp"} => mu = s /\ cancelFn = NoConn
RunningIsBusy == \A s \in Conns : rpc[s] \notin {"none", "done"} => gpc[s] = "relay"
Alone == ~overlapped => \A s, r \in Conns : Busy(s) /\ Busy(r) => s = r

EngineInv ==
  TypeOK /\ Dialing /\ RunningIsBusy /\ Alone
    /\ CancelFnIsLatest /\ CancelFnTracksSession

\* What lets a session's goroutine go on to its end.
Finishing ==
  /\ mu # NoConn => dial[mu] \in {"quic", "tcp"}
  /\ relayDone # NoConn => gpc[relayDone] # "none"
  /\ ~overlapped => \A s \in Conns :
       /\ gpc[s] \in {"none", "relay"} => results[s] = 0
       /\ Busy(s) => seen[s] = {s}

\* A relay that ends by itself makes room for the next Connect, unless sessions
\* have overlapped: its result fits in the channel although nobody receives it,
\* and its goroutine then forgets the cancel function (engine.go:95-102).
EndedRelayMakesRoom ==
  \A s \in Conns :
    cancelFn = s /\ ~Running(s) ~> cancelFn # s \/ overlapped

\* When the session's goroutine can go on: inside RelayLoop, to send its result
\* into a channel that is empty, or to take t.mu when it is free.
GoroutineCan(s) ==
  \/ LoopCan(s)
  \/ gpc[s] = "relay" /\ rpc[s] = "returned" /\ results[s] = 0
  \/ gpc[s] = "clear" /\ Free

\* A step that Can says is possible is a step of Next that changes something:
\* the side condition under which weak fairness makes it happen.  ENABLED is
\* out of the prover's reach, so the theorems on liveness have it as a
\* hypothesis; it is true by the guards of the actions, and says nothing else.
GuardsSuffice ==
  \A s \in Conns :
    /\ InnCan(s) => ENABLED <<RelayAct(InnStep(s))>>_vars
    /\ GoroutineCan(s) => ENABLED <<GoroutineActs(s)>>_vars

\* "Disconnect tears down the tunnel cleanly" (engine.go:107).
DisconnectEndsRelay ==
  \A s \in Conns : ctxCancelled[s] ~> ~Running(s)
-----------------------------------------------------------------------------
(* The engine implements what VpnService takes from it.                    *)

RelaySeen(s) ==
  IF gpc[s] # "relay" THEN gpc[s] ELSE IF tunClosed[TunOf[s]] THEN "shut" ELSE "open"

\* What the mapping rests on; used by TunnelEngineProofs.
TunWithRelay == \A s \in Conns :
  tunClosed[TunOf[s]] <=> rpc[s] \in {"closeRemote", "returned", "done"}
GoroutineAndRelay == \A s \in Conns :
  /\ gpc[s] = "none" <=> rpc[s] = "none"
  /\ gpc[s] = "relay" <=> rpc[s] \notin {"none", "done"}
SeenInv == EngineInv /\ TunWithRelay /\ GoroutineAndRelay

Contract == INSTANCE EngineContract WITH relay <- [s \in Conns |-> RelaySeen(s)]

\* Every step of the engine and its relays is a step of EngineContract or
\* leaves it unchanged: cancelFn changes under t.mu only, which no call holds
\* but a Connect that dials, and the TUN is closed before the goroutine ends
\* (engine.go:57-116, relay.go:14-18).
ContractSpec == Contract!Spec
=============================================================================
