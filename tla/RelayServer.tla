---------------------------- MODULE RelayServer -----------------------------
(***************************************************************************)
(* The server process: QUICServer (internal/engine/quic.go) and            *)
(* TCPFallbackServer (internal/engine/fallback.go), the relays of their    *)
(* connections (module RelayLoop) on the one TUN device that main          *)
(* (cmd/server/main.go) hands to both, and main's start and shutdown.      *)
(*                                                                         *)
(* A connection has one handler goroutine, hpc[c].  The section that       *)
(* handleConn and the HTTP handler run under s.mu is one action, Kick; the *)
(* section at their end is another, Cleanup.  Between the two the handler  *)
(* waits for its relay or for its context.                                 *)
(***************************************************************************)
EXTENDS RelayLoop

Listeners == {"quic", "tcp"}

\* main hands the one TUN it created to both servers (server/main.go:62, 75).
ASSUME ServerAssumption ==
  /\ NoConn \notin Listeners
  /\ \A c, d \in Conns : TunOf[c] = TunOf[d]

VARIABLES
  hpc,            \* where the connection's handler is
  hello,          \* what the client has asked for so far
  activeCancel,   \* per listener: whose relayCancel is stored, or NoConn
  activeGen,      \* per listener: the generation counter
  myGen,          \* per handler: its copy of the counter, 0 before Kick
  cancelled,      \* relayCancel of the connection has been called
  doneChan,       \* number of results in the handler's channel done
  lst,            \* per listener: where ListenAndServe is
  mpc             \* where main is; it has cancelled ctx when it stops

handlerVars == <<hpc, activeCancel, activeGen, myGen, cancelled>>
serverVars  == <<hpc, hello, activeCancel, activeGen, myGen, cancelled,
                 doneChan, lst, mpc>>
vars == <<relayVars, serverVars>>

Home == [c \in Conns |-> IF c \in QuicConns THEN "quic" ELSE "tcp"]

HandlerStates == {"none", "accept", "start", "select", "cleanup", "end"}

TypeOK ==
  /\ RelayTypeOK
  /\ hpc \in [Conns -> HandlerStates]
  /\ hello \in [Conns -> {"none", "tunnel", "plain", "alpn"}]
  /\ activeCancel \in [Listeners -> Conns \cup {NoConn}]
  /\ activeGen \in [Listeners -> Nat]
  /\ myGen \in [Conns -> Nat]
  /\ cancelled \in [Conns -> BOOLEAN]
  /\ doneChan \in [Conns -> 0..1]
  /\ lst \in [Listeners -> {"serving", "stopped"}]
  /\ mpc \in {"serving", "stopping", "exited"}

Init ==
  /\ RelayInit
  /\ hpc = [c \in Conns |-> "none"]
  /\ hello = [c \in Conns |-> "none"]
  /\ activeCancel = [l \in Listeners |-> NoConn]
  /\ activeGen = [l \in Listeners |-> 0]
  /\ myGen = [c \in Conns |-> 0]
  /\ cancelled = [c \in Conns |-> FALSE]
  /\ doneChan = [c \in Conns |-> 0]
  /\ lst = [l \in Listeners |-> "serving"]
  /\ mpc = "serving"

\* Between Kick and the end of Cleanup a handler holds a generation.
Holding(c) == hpc[c] \in {"start", "select", "cleanup"}

\* relayCtx.Done(): the TCP handler derives relayCtx from the root context,
\* the QUIC handler from context.Background().
CtxDone == mpc # "serving"
RelayCtxDone(c) == cancelled[c] \/ (c \in TcpConns /\ CtxDone)

\* done := make(chan error, 1)
MutDoneHasRoom(c) == hpc[c] = "select" /\ doneChan[c] = 0
DoneHasRoom(c) == doneChan[c] < 1
-----------------------------------------------------------------------------
(* Clients.                                                                *)

\* The listener accepts a connection (mTLS is done) and starts its handler.
\* "alpn": a TCP client offered the protocol tunnel-quic in its handshake, as
\* NewClientTLSConfig makes every client of this repository do, and the server
\* chose it (tls.go:30, 55); a client that offers no protocol gets none.
Accept(c) ==
  /\ lst[Home[c]] = "serving"
  /\ hpc[c] = "none"
  /\ link' = [link EXCEPT ![c] = "up"]
  /\ hpc' = [hpc EXCEPT ![c] = "accept"]
  /\ \E h \in {"none"} \cup (IF c \in TcpConns THEN {"alpn"} ELSE {}) :
       hello' = [hello EXCEPT ![c] = h]
  /\ UNCHANGED <<tunVars, sendClosed, rpc, out, inn, errc, activeCancel,
                 activeGen, myGen, cancelled, doneChan, lst, mpc>>

\* The first data of the client's QUIC stream, or its HTTP request: with the
\* upgrade header ("tunnel") or without ("plain").  A probe says nothing.
Hello(c) ==
  /\ hpc[c] = "accept"
  /\ link[c] = "up"
  /\ hello[c] = "none"
  /\ \E h \in {"tunnel"} \cup (IF c \in TcpConns THEN {"plain"} ELSE {}) :
       hello' = [hello EXCEPT ![c] = h]
  /\ UNCHANGED <<relayVars, handlerVars, doneChan, lst, mpc>>

ClientFinishes(c) == PeerFinishes(c) /\ hello[c] = "tunnel" /\ UNCHANGED serverVars
ClientLost(c) == PeerLost(c) /\ UNCHANGED serverVars
-----------------------------------------------------------------------------
(* The handler.                                                            *)

\* AcceptStream fails, or the connection breaks before a request was read.  An
\* http.Server reads no request of a connection whose handshake chose a protocol
\* that is not HTTP and that it has no handler for: it closes the connection.
AcceptFails(c) ==
  /\ hpc[c] = "accept"
  /\ link[c] \notin {"up", "fin"} \/ hello[c] = "alpn"
  /\ hpc' = [hpc EXCEPT ![c] = "end"]
  /\ link' = [link EXCEPT ![c] = "closed"]
  /\ UNCHANGED <<tunVars, sendClosed, rpc, out, inn, errc, hello, activeCancel,
                 activeGen, myGen, cancelled, doneChan, lst, mpc>>

\* No upgrade header (404), or Hijack failed: the HTTP handler returns early,
\* and the connection may carry another request.
RejectRequest(c) ==
  /\ hpc[c] = "accept"
  /\ c \in TcpConns
  /\ hello[c] \in {"tunnel", "plain"}
  /\ hello' = [hello EXCEPT ![c] = "none"]
  /\ UNCHANGED <<relayVars, handlerVars, doneChan, lst, mpc>>

MutKickWithoutCancel(c) ==
  /\ hpc[c] = "accept"
  /\ hello[c] = "tunnel"
  /\ activeCancel' = [activeCancel EXCEPT ![Home[c]] = c]
  /\ activeGen' = [activeGen EXCEPT ![Home[c]] = @ + 1]
  /\ myGen' = [myGen EXCEPT ![c] = activeGen[Home[c]] + 1]
  /\ hpc' = [hpc EXCEPT ![c] = "start"]
  /\ UNCHANGED <<relayVars, hello, cancelled, doneChan, lst, mpc>>

MutKickBeforeAccept(c) ==
  /\ hpc[c] = "accept"
  /\ cancelled' = [d \in Conns |-> cancelled[d] \/ d = activeCancel[Home[c]]]
  /\ activeCancel' = [activeCancel EXCEPT ![Home[c]] = c]
  /\ activeGen' = [activeGen EXCEPT ![Home[c]] = @ + 1]
  /\ myGen' = [myGen EXCEPT ![c] = activeGen[Home[c]] + 1]
  /\ hpc' = [hpc EXCEPT ![c] = "start"]
  /\ UNCHANGED <<relayVars, hello, doneChan, lst, mpc>>

\* Under s.mu: cancel the relay in place, store our own cancel function,
\* take the next generation.
Kick(c) ==
  /\ hpc[c] = "accept"
  /\ hello[c] = "tunnel"
  /\ cancelled' = [d \in Conns |-> cancelled[d] \/ d = activeCancel[Home[c]]]
  /\ activeCancel' = [activeCancel EXCEPT ![Home[c]] = c]
  /\ activeGen' = [activeGen EXCEPT ![Home[c]] = @ + 1]
  /\ myGen' = [myGen EXCEPT ![c] = activeGen[Home[c]] + 1]
  /\ hpc' = [hpc EXCEPT ![c] = "start"]
  /\ UNCHANGED <<relayVars, hello, doneChan, lst, mpc>>

HandlerGoes(c, from, to) ==
  /\ hpc[c] = from
  /\ hpc' = [hpc EXCEPT ![c] = to]
  /\ UNCHANGED <<hello, activeCancel, activeGen, myGen, cancelled, lst, mpc>>

SpawnRelay(c) ==
  /\ HandlerGoes(c, "start", "select")
  /\ StartRelay(c)
  /\ UNCHANGED doneChan

SelectDone(c) ==
  /\ HandlerGoes(c, "select", "cleanup")
  /\ doneChan[c] > 0
  /\ doneChan' = [doneChan EXCEPT ![c] = @ - 1]
  /\ UNCHANGED relayVars

\* The relay's context is done: close the whole connection.
SelectCancelled(c) ==
  /\ HandlerGoes(c, "select", "cleanup")
  /\ RelayCtxDone(c)
  /\ link' = [link EXCEPT ![c] = "closed"]
  /\ UNCHANGED <<tunVars, sendClosed, rpc, out, inn, errc, doneChan>>

MutCleanup(c) ==
  /\ hpc[c] = "cleanup"
  /\ activeCancel' = [activeCancel EXCEPT ![Home[c]] = NoConn]
  /\ cancelled' = [cancelled EXCEPT ![c] = TRUE]
  /\ hpc' = [hpc EXCEPT ![c] = "end"]
  /\ UNCHANGED <<relayVars, hello, activeGen, myGen, doneChan, lst, mpc>>

\* Under s.mu: forget our cancel function unless a newer relay has replaced
\* it; then relayCancel(), which comes after the unlock and is the same step
\* here: nobody but the goroutine that has just left its select waits for it.
Cleanup(c) ==
  /\ hpc[c] = "cleanup"
  /\ activeCancel' = [activeCancel EXCEPT
                        ![Home[c]] = IF activeGen[Home[c]] = myGen[c] THEN NoConn ELSE @]
  /\ cancelled' = [cancelled EXCEPT ![c] = TRUE]
  /\ hpc' = [hpc EXCEPT ![c] = "end"]
  /\ UNCHANGED <<relayVars, hello, activeGen, myGen, doneChan, lst, mpc>>

HandlerStep(c) ==
  \/ AcceptFails(c)
  \/ RejectRequest(c)
  \/ Kick(c)
  \/ SpawnRelay(c)
  \/ SelectDone(c)
  \/ SelectCancelled(c)
  \/ Cleanup(c)
-----------------------------------------------------------------------------
(* The relay's goroutines, and the one that waits for its result.          *)

OutPump(c)   == OutNext(c) /\ UNCHANGED serverVars
InnPump(c)   == InnNext(c) /\ UNCHANGED serverVars
RelayMain(c) == MainStep(c) /\ UNCHANGED serverVars

\* done <- RelayLoop(s.TUN, remote)
SendDone(c) ==
  /\ rpc[c] = "returned"
  /\ DoneHasRoom(c)
  /\ rpc' = [rpc EXCEPT ![c] = "done"]
  /\ doneChan' = [doneChan EXCEPT ![c] = @ + 1]
  /\ UNCHANGED <<tunVars, linkVars, out, inn, errc, hpc, hello, activeCancel,
                 activeGen, myGen, cancelled, lst, mpc>>
-----------------------------------------------------------------------------
(* ListenAndServe of both servers, and main.                               *)

ListenerStopped(l) ==
  /\ lst[l] = "serving"
  /\ lst' = [lst EXCEPT ![l] = "stopped"]
  /\ UNCHANGED <<relayVars, handlerVars, hello, doneChan, mpc>>

\* Binding or accepting fails: logged, and the other listener goes on.
ListenerFails(l) == "listener" \in Upsets /\ ListenerStopped(l)

\* Accept(ctx) returns, or the goroutine that waits for ctx closes the
\* TCP listener and Serve returns.
ListenerStops(l) == ListenerStopped(l) /\ CtxDone

\* SIGINT or SIGTERM: cancel(), then wg.Wait().
Signal ==
  /\ "signal" \in Upsets
  /\ mpc = "serving"
  /\ mpc' = "stopping"
  /\ UNCHANGED <<relayVars, handlerVars, hello, doneChan, lst>>

\* Both listeners have returned: main runs its defers and the process ends.
Exit ==
  /\ mpc = "stopping"
  /\ \A l \in Listeners : lst[l] = "stopped"
  /\ mpc' = "exited"
  /\ tunClosed' = [t \in Tuns |-> TRUE]
  /\ UNCHANGED <<tunReader, linkVars, rpc, out, inn, errc, handlerVars,
                 hello, doneChan, lst>>
-----------------------------------------------------------------------------
Alive == mpc # "exited"

Next ==
  /\ Alive
  /\ \/ \E c \in Conns :
          \/ Accept(c) \/ Hello(c) \/ ClientFinishes(c) \/ ClientLost(c)
          \/ HandlerStep(c)
          \/ OutPump(c) \/ InnPump(c) \/ RelayMain(c) \/ SendDone(c)
     \/ \E l \in Listeners : ListenerFails(l) \/ ListenerStops(l)
     \/ Signal
     \/ Exit

(* Every goroutine that can move by itself moves eventually.  Nothing is   *)
(* assumed of the clients, of the kernel's packets or of the operator.     *)
HandlerActs(c) == Alive /\ HandlerStep(c)
OutActs(c)     == Alive /\ OutStep(c) /\ UNCHANGED serverVars
InnActs(c)     == Alive /\ InnStep(c) /\ UNCHANGED serverVars
MainActs(c)    == Alive /\ (RelayMain(c) \/ SendDone(c))

FairTo(c) ==
  /\ WF_vars(HandlerActs(c))
  /\ WF_vars(OutActs(c))
  /\ WF_vars(InnActs(c))
  /\ WF_vars(MainActs(c))
RelaysAreFair == \A c \in Conns : FairTo(c)
Fairness ==
  /\ RelaysAreFair
  /\ \A l \in Listeners : WF_vars(Alive /\ ListenerStops(l))
  /\ WF_vars(Alive /\ Exit)

Spec == Init /\ [][Next]_vars
FairSpec == Spec /\ Fairness
-----------------------------------------------------------------------------
(* Safety.                                                                 *)

\* Of two handlers of one listener that both hold a generation, at least one
\* has been told to stop: the kick of quic.go:60-70 and fallback.go:84-94
\* reaches every relay in place, whatever the order in which handlers start,
\* end and clean up.
OneUncancelledRelay ==
  \A c, d \in Conns :
    c # d /\ Home[c] = Home[d] /\ Holding(c) /\ Holding(d)
      => cancelled[c] \/ cancelled[d]

\* The cancel function a listener stores is that of its one handler that has
\* a relay and was not told to stop: a stale handler's Cleanup (quic.go:84-88,
\* fallback.go:110-114) never erases a newer relay's, and none is left behind.
ActiveIsLive ==
  \A l \in Listeners :
    \A c \in Conns :
      activeCancel[l] = c <=> Home[c] = l /\ Holding(c) /\ ~cancelled[c]

\* The client of c can tell that its relay is over.
Released(c) == link[c] \notin {"up", "fin"} \/ sendClosed[c]

\* A client whose relay has ended is always told: its connection is closed or
\* broken, or its QUIC stream has been ended (relay.go:15-18, quic.go:81,
\* fallback.go:107).  It never waits on a handler that is gone.
EndedClientIsReleased ==
  \A c \in Conns : hpc[c] = "end" => Released(c)

\* While a relay that nobody cancelled has its client connected, the TUN that
\* it copies to and from is open: what "a second connection attempt kicks the
\* first connection off" (quic.go:18) lets the second client expect.
TakeoverKeepsTun ==
  \A c \in Conns :
    /\ Alive
    /\ Holding(c) /\ Running(c)
    /\ link[c] = "up" /\ ~RelayCtxDone(c)
    => ~tunClosed[TunOf[c]]
-----------------------------------------------------------------------------
(* The handlers implement the lease of each listener's tunnel.             *)

Lease == INSTANCE TunnelLease WITH
  asked   <- {c \in Conns : hello[c] = "tunnel"},
  granted <- {c \in Conns : myGen[c] > 0},
  revoked <- {c \in Conns : cancelled[c]},
  holder  <- activeCancel

\* Every step of the server is a step of TunnelLease or leaves it unchanged:
\* only a connection that asked takes the tunnel, and only once; a take
\* revokes the holder and nobody else; only the holder gives back.
LeaseSpec == Lease!Spec
-----------------------------------------------------------------------------
(* What makes the safety properties inductive; used by RelayServerProofs.  *)

\* A handler that has not kicked yet has no generation and no cancel function.
Fresh == \A c \in Conns :
  hpc[c] \in {"none", "accept"} => myGen[c] = 0 /\ ~cancelled[c]

\* The counter runs ahead of every copy, and a copy is the current one exactly
\* while its handler's cancel function is the one that is stored.
Generations == \A c \in Conns :
  Holding(c) =>
    /\ myGen[c] \in 1..activeGen[Home[c]]
    /\ myGen[c] = activeGen[Home[c]] <=> activeCancel[Home[c]] = c

LeaseInv == TypeOK /\ Fresh /\ Generations /\ ActiveIsLive

ReleaseInv == \A c \in Conns :
  /\ hpc[c] = "none" => rpc[c] = "none"
  /\ doneChan[c] > 0 => rpc[c] = "done"
  /\ rpc[c] \in {"returned", "done"} => Released(c)
  /\ hpc[c] \in {"cleanup", "end"} => Released(c)

\* A handler and the relay that it started; used by RelayServerProofs.
Winding == \A c \in Conns :
  /\ hpc[c] \in {"none", "accept", "start"} => rpc[c] = "none"
  /\ hpc[c] \in {"select", "cleanup"} => rpc[c] # "none"
  /\ hpc[c] = "end" /\ cancelled[c] => rpc[c] # "none"
  /\ hpc[c] \in {"cleanup", "end"} => rpc[c] \in {"none", "done"} \/ link[c] = "closed"
  /\ rpc[c] # "none" => out[c] # "none" /\ inn[c] # "none"
-----------------------------------------------------------------------------
(* Liveness, under FairSpec.                                               *)

\* A relay that was kicked, or that ended, is wound up: its handler ends, and
\* so does the goroutine that runs RelayLoop and sends its result, whether
\* or not the handler still listens to the channel (quic.go:73-89).
CancelledRelayEnds ==
  \A c \in Conns :
    cancelled[c] ~> (hpc[c] = "end" /\ rpc[c] = "done") \/ ~Alive

\* No relay hangs on a TUN that was closed under it, except in two calls that
\* somebody else must end: a Read that is in the system call already waits for
\* a packet, and a Write to a peer that does not read waits for room.  A pump
\* that is in neither gets an error of the TUN and RelayLoop returns, or it
\* comes to wait in such a Write first (relay.go:26-37).
DeadTunEndsRelay ==
  \A c \in Conns :
    (tunClosed[TunOf[c]] /\ Running(c) /\ out[c] # "inRead")
      ~> ~Running(c) \/ out[c] = "inWrite" \/ ~Alive
-----------------------------------------------------------------------------
(* When the operation that a handler or a relay's main goroutine is at     *)
(* does not block; for the pumps, see RelayLoop.                           *)

HandlerCan(c) ==
  \/ hpc[c] = "start" /\ rpc[c] = "none"
  \/ hpc[c] = "select" /\ (doneChan[c] > 0 \/ RelayCtxDone(c))
  \/ hpc[c] = "cleanup"
MainCan(c) == LoopCan(c) \/ (rpc[c] = "returned" /\ DoneHasRoom(c))

\* Only the others - the client, the kernel, the operator - can bring on a
\* connection none of whose goroutines can go on.
AtRest(c) == ~HandlerCan(c) /\ ~OutCan(c) /\ ~InnCan(c) /\ ~MainCan(c)

\* No goroutine is held up by another one that will never come: when all of a
\* connection's goroutines are at rest, its client has not got the tunnel yet;
\* or the relay is in place, nobody told it to stop, both pumps wait for bytes
\* or for room, and the handler waits for the relay; or all of it is over, and
\* no result waits for somebody to take it (relay.go:20-63, quic.go:53-89,
\* fallback.go:64-116).
NoneHeldUp == Alive => \A c \in Conns :
  AtRest(c) =>
    \/ hpc[c] \in {"none", "accept"}
    \/ /\ hpc[c] = "select" /\ ~RelayCtxDone(c) /\ link[c] = "up"
       /\ rpc[c] = "wait" /\ inn[c] = "remoteRead"
       /\ out[c] \in {"tunRead", "inRead", "inWrite"}
    \/ hpc[c] = "end" /\ rpc[c] \in {"none", "done"}

\* A step that Can says is possible is a step of Next that changes something:
\* the side condition under which weak fairness makes it happen.  ENABLED is
\* out of the prover's reach, so the theorems on liveness have it as a
\* hypothesis; it is true by the guards of the actions, and says nothing else.
GuardsSuffice == Alive => \A c \in Conns :
  /\ HandlerCan(c) => ENABLED <<HandlerActs(c)>>_vars
  /\ OutCan(c) => ENABLED <<OutActs(c)>>_vars
  /\ InnCan(c) => ENABLED <<InnActs(c)>>_vars
  /\ MainCan(c) => ENABLED <<MainActs(c)>>_vars
=============================================================================
