------------------------- MODULE RelayServerProofs --------------------------
(***************************************************************************)
(* Proofs about RelayServer, for every set of connections.                 *)
(*                                                                         *)
(* The argument about the two servers' locks rests on one invariant, the   *)
(* conjunction of LeaseOK's parts: a handler's copy of the generation      *)
(* counter is the current one exactly while its cancel function is the one *)
(* that is stored, and exactly while it has not been told to stop.         *)
(***************************************************************************)
EXTENDS RelayServer, RelayLoopProofs

USE DEF Home, TcpConns, Listeners

\* Steps of the relay's own goroutines leave the handlers' state alone.
RelayStep ==
  \E c \in Conns : OutPump(c) \/ InnPump(c) \/ RelayMain(c)

LEMMA HomeType == Home \in [Conns -> Listeners]
  OBVIOUS

-----------------------------------------------------------------------------
(* Type correctness.                                                       *)

LEMMA InitTypeOK == Init => TypeOK
  BY RelayInitType, ServerAssumption DEF Init, TypeOK, HandlerStates

LEMMA RelayTypeKept ==
  ASSUME TypeOK, NEW c \in Conns, OutPump(c) \/ InnPump(c) \/ RelayMain(c)
  PROVE  TypeOK'
<1>1. RelayTypeOK'
  BY OutType, InnType, MainType DEF TypeOK, OutPump, InnPump, RelayMain
<1>2. UNCHANGED serverVars
  BY DEF OutPump, InnPump, RelayMain
<1> QED
  BY <1>1, <1>2 DEF TypeOK, serverVars

LEMMA ClientTypeOK ==
  ASSUME TypeOK, NEW c \in Conns,
         Accept(c) \/ Hello(c) \/ ClientFinishes(c) \/ ClientLost(c)
  PROVE  TypeOK'
<1> USE DEF TypeOK, RelayTypeOK, LinkStates, HandlerStates, tunVars, relayVars,
            handlerVars, serverVars
<1>1. CASE Accept(c)         BY <1>1 DEF Accept
<1>2. CASE Hello(c)          BY <1>2 DEF Hello
<1>3. CASE ClientFinishes(c) BY <1>3 DEF ClientFinishes, PeerFinishes
<1>4. CASE ClientLost(c)     BY <1>4 DEF ClientLost, PeerLost
<1> QED
  BY <1>1, <1>2, <1>3, <1>4

LEMMA HandlerTypeOK ==
  ASSUME TypeOK, NEW c \in Conns, HandlerStep(c) \/ SendDone(c)
  PROVE  TypeOK'
<1> USE DEF TypeOK, RelayTypeOK, LinkStates, MainStates, OutStates, InnStates,
            HandlerStates, HandlerGoes, tunVars, linkVars, relayVars, handlerVars
<1>1. CASE AcceptFails(c)     BY <1>1 DEF AcceptFails
<1>2. CASE RejectRequest(c)   BY <1>2 DEF RejectRequest
<1>3. CASE Kick(c)            BY <1>3 DEF Kick
<1>4. CASE SpawnRelay(c)      BY <1>4 DEF SpawnRelay, StartRelay
<1>5. CASE SelectDone(c)      BY <1>5 DEF SelectDone
<1>6. CASE SelectCancelled(c) BY <1>6 DEF SelectCancelled
<1>7. CASE Cleanup(c)         BY <1>7 DEF Cleanup
<1>8. CASE SendDone(c)        BY <1>8 DEF SendDone, DoneHasRoom
<1> QED
  BY <1>1, <1>2, <1>3, <1>4, <1>5, <1>6, <1>7, <1>8 DEF HandlerStep

LEMMA ProcessTypeOK ==
  ASSUME TypeOK,
         \/ \E l \in Listeners : ListenerFails(l) \/ ListenerStops(l)
         \/ Signal
         \/ Exit
  PROVE  TypeOK'
<1> USE DEF TypeOK, RelayTypeOK, relayVars, linkVars, handlerVars
<1>1. CASE \E l \in Listeners : ListenerFails(l) \/ ListenerStops(l)
  BY <1>1 DEF ListenerFails, ListenerStops, ListenerStopped
<1>2. CASE Signal BY <1>2 DEF Signal
<1>3. CASE Exit   BY <1>3 DEF Exit
<1> QED
  BY <1>1, <1>2, <1>3

\* Every variable of the server keeps its type, for every set of connections.
THEOREM TypeCorrect == Spec => []TypeOK
<1>1. TypeOK /\ [Next]_vars => TypeOK'
  <2> SUFFICES ASSUME TypeOK, [Next]_vars PROVE TypeOK'
    OBVIOUS
  <2>1. CASE UNCHANGED vars
    BY <2>1 DEF vars, relayVars, serverVars, TypeOK, RelayTypeOK
  <2>2. CASE Next
    BY <2>2, RelayTypeKept, ClientTypeOK, HandlerTypeOK, ProcessTypeOK
    DEF Next
  <2> QED
    BY <2>1, <2>2
<1> QED
  BY InitTypeOK, <1>1, PTL DEF Spec
-----------------------------------------------------------------------------
(* The lock, the cancel function and the generation counter.               *)

\* The relay's goroutines and the clients do not touch what s.mu guards.
LEMMA OthersLeaveHandlers ==
  ASSUME NEW c \in Conns,
         OutPump(c) \/ InnPump(c) \/ RelayMain(c) \/ SendDone(c)
           \/ Hello(c) \/ ClientFinishes(c) \/ ClientLost(c) \/ RejectRequest(c)
  PROVE  UNCHANGED handlerVars
  BY DEF OutPump, InnPump, RelayMain, SendDone, Hello, ClientFinishes, ClientLost,
         RejectRequest, serverVars, handlerVars

LEMMA ProcessLeavesHandlers ==
  ASSUME \/ \E l \in Listeners : ListenerFails(l) \/ ListenerStops(l)
         \/ Signal
         \/ Exit
  PROVE  UNCHANGED handlerVars
  BY DEF ListenerFails, ListenerStops, ListenerStopped, Signal, Exit, handlerVars

LEMMA LeaseInvInit == Init => LeaseInv
  BY InitTypeOK, ServerAssumption, RelayAssumption
  DEF Init, LeaseInv, Fresh, Generations, ActiveIsLive, Holding

LEMMA LeaseInvFrame ==
  ASSUME LeaseInv, UNCHANGED handlerVars, TypeOK'
  PROVE  LeaseInv'
  BY DEF LeaseInv, Fresh, Generations, ActiveIsLive, Holding, handlerVars

\* The three actions that move a handler from one state to another, with no
\* effect on what s.mu guards.
LEMMA LeaseInvMoves ==
  ASSUME LeaseInv, TypeOK', NEW c \in Conns,
         Accept(c) \/ AcceptFails(c) \/ SpawnRelay(c) \/ SelectDone(c)
           \/ SelectCancelled(c)
  PROVE  LeaseInv'
<1> USE DEF LeaseInv, TypeOK, RelayTypeOK, Fresh, Generations, ActiveIsLive, Holding,
            HandlerGoes
<1>1. CASE AcceptFails(c)     BY <1>1 DEF AcceptFails
<1>2. CASE SpawnRelay(c)      BY <1>2 DEF SpawnRelay
<1>3. CASE SelectDone(c)      BY <1>3 DEF SelectDone
<1>4. CASE SelectCancelled(c) BY <1>4 DEF SelectCancelled
<1>5. CASE Accept(c)          BY <1>5 DEF Accept
<1> QED
  BY <1>1, <1>2, <1>3, <1>4, <1>5

\* The kick: nobody else's copy equals the new generation, and whoever was
\* stored is cancelled.
LEMMA LeaseInvKick ==
  ASSUME LeaseInv, TypeOK', NEW c \in Conns, Kick(c)
  PROVE  LeaseInv'
<1> USE DEF LeaseInv, TypeOK, Holding, Kick
<1>1. Fresh'
  BY RelayAssumption DEF Fresh, ActiveIsLive
<1>2. Generations'
  BY DEF Fresh, Generations
<1>3. ActiveIsLive'
  <2> SUFFICES ASSUME NEW l \in Listeners, NEW d \in Conns
               PROVE  activeCancel'[l] = d
                        <=> Home[d] = l /\ hpc'[d] \in {"start", "select", "cleanup"}
                              /\ ~cancelled'[d]
    BY DEF ActiveIsLive
  <2>1. CASE l # Home[c]
    BY <2>1, HomeType DEF ActiveIsLive
  <2>2. CASE l = Home[c] /\ d = c
    BY <2>2, HomeType DEF Fresh, ActiveIsLive
  <2>3. CASE l = Home[c] /\ d # c
    BY <2>3, HomeType DEF ActiveIsLive
  <2> QED
    BY <2>1, <2>2, <2>3
<1> QED
  BY <1>1, <1>2, <1>3

\* The clean-up: a handler whose copy is current is the one that is stored;
\* one whose copy is stale has been cancelled already.
LEMMA LeaseInvCleanup ==
  ASSUME LeaseInv, TypeOK', NEW c \in Conns, Cleanup(c)
  PROVE  LeaseInv'
<1> USE DEF LeaseInv, TypeOK, Holding, Cleanup
<1>1. Fresh'
  BY DEF Fresh
<1>2. Generations'
  BY RelayAssumption DEF Generations
<1>3. ActiveIsLive'
  BY RelayAssumption DEF Generations, ActiveIsLive
<1> QED
  BY <1>1, <1>2, <1>3

LEMMA LeaseInvStep == LeaseInv /\ TypeOK' /\ [Next]_vars => LeaseInv'
<1> SUFFICES ASSUME LeaseInv, TypeOK', [Next]_vars PROVE LeaseInv'
  OBVIOUS
<1>1. CASE UNCHANGED vars
  BY <1>1, LeaseInvFrame DEF vars, serverVars, handlerVars
<1>2. CASE Next
  BY <1>2, LeaseInvFrame, LeaseInvMoves, LeaseInvKick, LeaseInvCleanup,
     OthersLeaveHandlers, ProcessLeavesHandlers
  DEF Next, HandlerStep
<1> QED
  BY <1>1, <1>2

LEMMA LeaseInvariant == Spec => []LeaseInv
  BY LeaseInvInit, LeaseInvStep, TypeCorrect, PTL DEF Spec

\* What is stored is the live relay's cancel function, on both listeners.
THEOREM StoredCancelIsLive == Spec => []ActiveIsLive
<1>1. LeaseInv => ActiveIsLive
  BY DEF LeaseInv
<1> QED
  BY <1>1, LeaseInvariant, PTL

\* However many clients come, at most one relay of a listener was not told to
\* stop.
THEOREM OneRelayPerListener == Spec => []OneUncancelledRelay
<1>1. LeaseInv => OneUncancelledRelay
  BY HomeType DEF LeaseInv, ActiveIsLive, OneUncancelledRelay
<1> QED
  BY <1>1, LeaseInvariant, PTL
-----------------------------------------------------------------------------
(* The relay's error channel.                                              *)

\* Nobody but the relay touches its goroutines and its error channel.
LEMMA OthersLeaveRelay ==
  ASSUME NEW c \in Conns,
         Accept(c) \/ Hello(c) \/ ClientFinishes(c) \/ ClientLost(c)
           \/ AcceptFails(c) \/ RejectRequest(c) \/ Kick(c)
           \/ SelectDone(c) \/ SelectCancelled(c) \/ Cleanup(c)
  PROVE  UNCHANGED <<rpc, out, inn, errc>>
  BY DEF Accept, Hello, ClientFinishes, PeerFinishes, ClientLost, PeerLost, AcceptFails,
         RejectRequest, Kick, SelectDone, SelectCancelled, Cleanup, relayVars

LEMMA ProcessLeavesRelay ==
  ASSUME \/ \E l \in Listeners : ListenerFails(l) \/ ListenerStops(l)
         \/ Signal
         \/ Exit
  PROVE  UNCHANGED <<rpc, out, inn, errc>>
  BY DEF ListenerFails, ListenerStops, ListenerStopped, Signal, Exit, relayVars

LEMMA ErrcCountsStep == TypeOK /\ ErrcCounts /\ [Next]_vars => ErrcCounts'
<1> SUFFICES ASSUME TypeOK, ErrcCounts, [Next]_vars PROVE ErrcCounts'
  OBVIOUS
<1>1. RelayTypeOK
  BY DEF TypeOK
<1>2. CASE UNCHANGED vars
  BY <1>2, CountsFrame DEF vars, relayVars
<1>3. ASSUME NEW c \in Conns, OutPump(c) \/ InnPump(c) \/ RelayMain(c)
      PROVE  ErrcCounts'
  BY <1>1, <1>3, CountsOut, CountsInn, CountsMain DEF OutPump, InnPump, RelayMain
<1>4. ASSUME NEW c \in Conns, SendDone(c) PROVE ErrcCounts'
  BY <1>1, <1>4, CountsDone DEF SendDone
<1>5. ASSUME NEW c \in Conns, SpawnRelay(c) PROVE ErrcCounts'
  BY <1>1, <1>5, CountsStart DEF SpawnRelay, StartRelay
<1>6. CASE Next
  BY <1>3, <1>4, <1>5, <1>6, CountsFrame, OthersLeaveRelay, ProcessLeavesRelay
  DEF Next, HandlerStep
<1> QED
  BY <1>2, <1>6

\* A pump never waits to report its error: of the two errors, the one that the
\* main goroutine does not receive fits in the channel.
THEOREM PumpsNeverBlock == Spec => []ErrcHasRoom
<1>1. Init => ErrcCounts
  BY CountsInit DEF Init
<1>2. TypeOK /\ ErrcCounts => ErrcHasRoom
  BY CountsLeaveRoom DEF TypeOK
<1> QED
  BY <1>1, <1>2, ErrcCountsStep, TypeCorrect, PTL DEF Spec
-----------------------------------------------------------------------------
(* How a client learns that its relay has ended.                           *)

LEMMA PumpsLeaveRelease ==
  ASSUME NEW c \in Conns, OutPump(c) \/ InnPump(c)
  PROVE  UNCHANGED <<link, sendClosed, rpc, hpc, doneChan>>
<1>1. CASE OutPump(c)
  BY <1>1 DEF OutPump, OutNext, OutStep, OutGoes, OutReports, TunReadBegins, TunReadFails,
     TunReadInterrupted, RemoteWriteOk, RemoteWriteFails, RemoteWriteBlocks, WriteBroken,
       WriteGoesOn, TunReadReturns, TunDeviceFails,
     linkVars, serverVars
<1>2. CASE InnPump(c)
  BY <1>2 DEF InnPump, InnNext, InnStep, InnGoes, InnReports, RemoteReadOk, RemoteReadFails,
     FrameTooLong, TunWriteOk, TunWriteFails, TunWriteRefused, linkVars, serverVars
<1> QED
  BY <1>1, <1>2

LEMMA ProcessLeavesRelease ==
  ASSUME \/ \E l \in Listeners : ListenerFails(l) \/ ListenerStops(l)
         \/ Signal
         \/ Exit
  PROVE  UNCHANGED <<link, sendClosed, rpc, hpc, doneChan>>
  BY DEF ListenerFails, ListenerStops, ListenerStopped, Signal, Exit, relayVars, linkVars,
         handlerVars

LEMMA ReleaseInvMain ==
  ASSUME TypeOK, ReleaseInv, NEW c \in Conns, RelayMain(c) \/ SendDone(c)
  PROVE  ReleaseInv'
<1> USE DEF TypeOK, RelayTypeOK, MainStates, LinkStates, ReleaseInv, Released, MainGoes,
            linkVars, serverVars
<1>1. CASE RelayMain(c)
  <2>1. UNCHANGED <<hpc, doneChan>>
    BY <1>1 DEF RelayMain
  <2>2. CASE ReceiveError(c) BY <2>1, <2>2 DEF ReceiveError
  <2>3. CASE CloseTun(c)     BY <2>1, <2>3 DEF CloseTun
  <2>4. CASE CloseRemote(c)  BY <2>1, <2>4 DEF CloseRemote
  <2> QED
    BY <1>1, <2>2, <2>3, <2>4 DEF RelayMain, MainStep
<1>2. CASE SendDone(c)
  BY <1>2 DEF SendDone
<1> QED
  BY <1>1, <1>2

LEMMA ReleaseInvClient ==
  ASSUME TypeOK, ReleaseInv, NEW c \in Conns,
         Accept(c) \/ Hello(c) \/ ClientFinishes(c) \/ ClientLost(c)
  PROVE  ReleaseInv'
<1> USE DEF TypeOK, RelayTypeOK, LinkStates, ReleaseInv, Released, tunVars, relayVars,
            handlerVars, serverVars
<1>1. CASE Accept(c)         BY <1>1 DEF Accept
<1>2. CASE Hello(c)          BY <1>2 DEF Hello
<1>3. CASE ClientFinishes(c) BY <1>3 DEF ClientFinishes, PeerFinishes
<1>4. CASE ClientLost(c)     BY <1>4 DEF ClientLost, PeerLost
<1> QED
  BY <1>1, <1>2, <1>3, <1>4

LEMMA ReleaseInvHandler ==
  ASSUME TypeOK, ReleaseInv, NEW c \in Conns, HandlerStep(c)
  PROVE  ReleaseInv'
<1> USE DEF TypeOK, RelayTypeOK, LinkStates, MainStates, HandlerStates, HandlerGoes,
            ReleaseInv, Released, relayVars, linkVars, handlerVars
<1>1. CASE AcceptFails(c)     BY <1>1 DEF AcceptFails
<1>2. CASE RejectRequest(c)   BY <1>2 DEF RejectRequest
<1>3. CASE Kick(c)            BY <1>3 DEF Kick
<1>4. CASE SpawnRelay(c)      BY <1>4 DEF SpawnRelay, StartRelay
<1>5. CASE SelectDone(c)      BY <1>5 DEF SelectDone
<1>6. CASE SelectCancelled(c) BY <1>6 DEF SelectCancelled
<1>7. CASE Cleanup(c)         BY <1>7 DEF Cleanup
<1> QED
  BY <1>1, <1>2, <1>3, <1>4, <1>5, <1>6, <1>7 DEF HandlerStep

LEMMA ReleaseInvStep == TypeOK /\ ReleaseInv /\ [Next]_vars => ReleaseInv'
<1> SUFFICES ASSUME TypeOK, ReleaseInv, [Next]_vars PROVE ReleaseInv'
  OBVIOUS
<1>1. ASSUME UNCHANGED <<link, sendClosed, rpc, hpc, doneChan>> PROVE ReleaseInv'
  BY <1>1 DEF ReleaseInv, Released
<1>2. CASE UNCHANGED vars
  BY <1>1, <1>2 DEF vars, relayVars, serverVars
<1>3. CASE Next
  BY <1>1, <1>3, PumpsLeaveRelease, ProcessLeavesRelease, ReleaseInvMain, ReleaseInvClient,
     ReleaseInvHandler
  DEF Next
<1> QED
  BY <1>2, <1>3

LEMMA ReleaseInvInit == Init => ReleaseInv
<1> SUFFICES ASSUME Init PROVE ReleaseInv
  OBVIOUS
<1>1. \A c \in Conns : hpc[c] = "none" /\ rpc[c] = "none" /\ doneChan[c] = 0
  BY DEF Init, RelayInit
<1>2. ~(0 > 0)
  OBVIOUS
<1> QED
  BY <1>1, <1>2, Zenon DEF ReleaseInv

\* Whichever way a handler ends, its client can tell.
THEOREM NoClientLeftWaiting == Spec => []EndedClientIsReleased
<1>1. ReleaseInv => EndedClientIsReleased
  BY DEF ReleaseInv, EndedClientIsReleased
<1> QED
  BY <1>1, ReleaseInvInit, ReleaseInvStep, TypeCorrect, PTL DEF Spec
-----------------------------------------------------------------------------
(* How long the TUN lasts.                                                 *)

\* RelayLoop's deferred calls have closed the TUN of c.
Shut(c) == rpc[c] \in {"closeRemote", "returned", "done"}

\* The server's TUN stays open exactly until the first relay on it ends, by
\* whatever error: no kick, no handler and no listener closes it, and nothing
\* opens it again (relay.go:15-18, server/main.go:62-75).  Beside the finding
\* about the takeover, this says how far the first client can rely on the TUN.
TunLasts ==
  Alive => \A t \in Tuns :
    tunClosed[t] <=> \E c \in Conns : TunOf[c] = t /\ Shut(c)

LEMMA TunLastsRelay ==
  ASSUME TypeOK, TunLasts, NEW c \in Conns, RelayMain(c)
  PROVE  TunLasts'
<1> USE RelayAssumption DEF TypeOK, RelayTypeOK, TunLasts, Shut, Alive
<1>1. mpc' = mpc
  BY DEF RelayMain, serverVars
<1>2. CASE ReceiveError(c)
  <2>1. tunClosed' = tunClosed /\ \A d \in Conns : Shut(d)' <=> Shut(d)
    BY <1>2 DEF ReceiveError, MainGoes
  <2> QED
    BY <1>1, <2>1
<1>3. CASE CloseTun(c)
  <2>1. tunClosed' = [tunClosed EXCEPT ![TunOf[c]] = TRUE]
    BY <1>3 DEF CloseTun
  <2>2. ~Shut(c) /\ Shut(c)' /\ \A d \in Conns \ {c} : Shut(d)' <=> Shut(d)
    BY <1>3 DEF CloseTun, MainGoes
  <2>3. ASSUME NEW t \in Tuns, mpc # "exited"
        PROVE  tunClosed'[t] <=> \E d \in Conns : TunOf[d] = t /\ Shut(d)'
    <3>1. CASE t = TunOf[c]
      BY <2>1, <2>2, <3>1
    <3>2. CASE t # TunOf[c]
      BY <2>1, <2>2, <2>3, <3>2
    <3> QED
      BY <3>1, <3>2
  <2> QED
    BY <1>1, <2>3
<1>4. CASE CloseRemote(c)
  <2>1. tunClosed' = tunClosed /\ \A d \in Conns : Shut(d)' <=> Shut(d)
    BY <1>4 DEF CloseRemote, MainGoes
  <2> QED
    BY <1>1, <2>1
<1> QED
  BY <1>2, <1>3, <1>4 DEF RelayMain, MainStep

LEMMA TunLastsStep == TypeOK /\ TunLasts /\ [Next]_vars => TunLasts'
<1> SUFFICES ASSUME TypeOK, TunLasts, [Next]_vars PROVE TunLasts'
  OBVIOUS
<1>1. ASSUME tunClosed' = tunClosed, Alive' => Alive, \A c \in Conns : Shut(c)' <=> Shut(c)
      PROVE  TunLasts'
  BY <1>1 DEF TunLasts
<1>2. ASSUME UNCHANGED <<tunClosed, rpc, mpc>> PROVE TunLasts'
  BY <1>1, <1>2 DEF Shut, Alive
<1>3. CASE UNCHANGED vars
  BY <1>2, <1>3 DEF vars, relayVars, serverVars
<1>4. ASSUME NEW c \in Conns, OutPump(c) \/ InnPump(c) PROVE TunLasts'
  BY <1>2, <1>4, OutType, InnType DEF OutPump, InnPump, TypeOK, tunVars, serverVars
<1>5. ASSUME NEW c \in Conns, SpawnRelay(c) \/ SendDone(c) PROVE TunLasts'
  <2>1. UNCHANGED <<tunClosed, mpc>>
    BY <1>5 DEF SpawnRelay, StartRelay, HandlerGoes, SendDone, tunVars
  <2>2. \A d \in Conns : Shut(d)' <=> Shut(d)
    BY <1>5 DEF SpawnRelay, StartRelay, SendDone, Shut, TypeOK, RelayTypeOK
  <2> QED
    BY <1>1, <2>1, <2>2 DEF Alive
<1>6. ASSUME NEW c \in Conns,
             \/ AcceptFails(c) \/ RejectRequest(c) \/ Kick(c)
             \/ SelectDone(c) \/ SelectCancelled(c) \/ Cleanup(c)
      PROVE  TunLasts'
  BY <1>2, <1>6 DEF AcceptFails, RejectRequest, Kick, SelectDone, SelectCancelled, Cleanup,
     HandlerGoes, relayVars, tunVars, handlerVars
<1>7. ASSUME NEW c \in Conns, Accept(c) \/ Hello(c) \/ ClientFinishes(c) \/ ClientLost(c)
      PROVE  TunLasts'
  BY <1>2, <1>7 DEF Accept, Hello, ClientFinishes, PeerFinishes, ClientLost, PeerLost, relayVars,
     tunVars, serverVars
<1>8. CASE \E l \in Listeners : ListenerFails(l) \/ ListenerStops(l)
  BY <1>2, <1>8 DEF ListenerFails, ListenerStops, ListenerStopped, relayVars
<1>9. CASE Signal
  BY <1>1, <1>9 DEF Signal, Alive, relayVars, Shut
<1>10. CASE Exit
  BY <1>10 DEF Exit, TunLasts, Alive
<1> QED
  BY <1>3, <1>4, <1>5, <1>6, <1>7, <1>8, <1>9, <1>10, TunLastsRelay DEF Next, HandlerStep

\* TunLasts, for every set of connections.
THEOREM TunLastsUntilFirstEnd == Spec => []TunLasts
<1>1. Init => TunLasts
  <2> SUFFICES ASSUME Init, NEW t \in Tuns
               PROVE  ~tunClosed[t] /\ \A c \in Conns : ~Shut(c)
    BY DEF TunLasts
  <2> QED
    BY DEF Init, RelayInit, Shut
<1> QED
  BY <1>1, TunLastsStep, TypeCorrect, PTL DEF Spec
-----------------------------------------------------------------------------
(* Refinement of TunnelLease.                                              *)

\* Cleanup under a current generation gives the lease back; a stale one changes
\* nothing, since its handler had been cancelled before.
LEMMA CleanupRefines ==
  ASSUME LeaseInv, NEW c \in Conns, Cleanup(c)
  PROVE  [Lease!Next]_Lease!leaseVars
<1> USE DEF LeaseInv, TypeOK, Cleanup, Lease!leaseVars
<1>1. UNCHANGED <<{d \in Conns : hello[d] = "tunnel"}, {d \in Conns : myGen[d] > 0}>>
  OBVIOUS
<1>2. CASE activeGen[Home[c]] = myGen[c]
  <2>1. activeCancel[Home[c]] = c
    BY <1>2 DEF Generations, Holding
  <2>2. activeCancel' = [activeCancel EXCEPT ![Home[c]] = NoConn]
    BY <1>2
  <2>3. {d \in Conns : cancelled'[d]} = {d \in Conns : cancelled[d]} \cup {c}
    <3>1. ASSUME NEW d \in Conns
          PROVE  cancelled'[d] <=> cancelled[d] \/ d = c
      BY Zenon
    <3> QED
      BY <3>1, Zenon
  <2> QED
    BY <1>1, <2>1, <2>2, <2>3 DEF Lease!Next, Lease!GiveBack
<1>3. CASE activeGen[Home[c]] # myGen[c]
  <2>1. cancelled[c]
    BY <1>3, HomeType DEF Generations, ActiveIsLive, Holding
  <2>2. UNCHANGED activeCancel
    BY <1>3, HomeType
  <2>3. {d \in Conns : cancelled'[d]} = {d \in Conns : cancelled[d]}
    BY <2>1
  <2> QED
    BY <1>1, <2>2, <2>3
<1> QED
  BY <1>2, <1>3

LEMMA KickRefines ==
  ASSUME LeaseInv, NEW c \in Conns, Kick(c)
  PROVE  [Lease!Next]_Lease!leaseVars
<1> USE DEF LeaseInv, TypeOK, Kick
<1>1. c \in {d \in Conns : hello[d] = "tunnel"} \ {d \in Conns : myGen[d] > 0}
  BY DEF Fresh
<1>2. {d \in Conns : myGen'[d] > 0} = {d \in Conns : myGen[d] > 0} \cup {c}
  OBVIOUS
<1>3. {d \in Conns : cancelled'[d]}
        = {d \in Conns : cancelled[d]} \cup ({activeCancel[Home[c]]} \ {NoConn})
  <2>1. activeCancel[Home[c]] \in Conns \cup {NoConn}
    BY HomeType
  <2>2. ASSUME NEW d \in Conns
        PROVE  cancelled'[d] <=> cancelled[d] \/ d = activeCancel[Home[c]]
    BY Zenon
  <2> QED
    BY <2>1, <2>2, RelayAssumption, Zenon
<1> QED
  BY <1>1, <1>2, <1>3 DEF Lease!Next, Lease!Take

LEMMA RequestRefines ==
  ASSUME LeaseInv, NEW c \in Conns, Accept(c) \/ Hello(c) \/ RejectRequest(c)
  PROVE  [Lease!Next]_Lease!leaseVars
<1> USE DEF LeaseInv, TypeOK, handlerVars, Lease!leaseVars
<1>1. CASE Hello(c)
  <2>1. PICK h \in {"tunnel", "plain"} : hello' = [hello EXCEPT ![c] = h]
    BY <1>1 DEF Hello
  <2>2. CASE h = "tunnel"
    <3>1. {d \in Conns : hello'[d] = "tunnel"} = {d \in Conns : hello[d] = "tunnel"} \cup {c}
      BY <2>1, <2>2
    <3> QED
      BY <1>1, <3>1 DEF Hello, Lease!Next, Lease!Ask
  <2>3. CASE h = "plain"
    <3>1. {d \in Conns : hello'[d] = "tunnel"} = {d \in Conns : hello[d] = "tunnel"}
      BY <1>1, <2>1, <2>3 DEF Hello
    <3> QED
      BY <1>1, <3>1 DEF Hello
  <2> QED
    BY <2>2, <2>3
<1>2. CASE RejectRequest(c)
  <2>1. {d \in Conns : hello'[d] = "tunnel"} = {d \in Conns : hello[d] = "tunnel"} \ {c}
    BY <1>2 DEF RejectRequest
  <2>2. c \notin {d \in Conns : myGen[d] > 0}
    BY <1>2 DEF RejectRequest, Fresh
  <2> QED
    BY <1>2, <2>1, <2>2 DEF RejectRequest, Lease!Next, Lease!Withdraw
<1>3. CASE Accept(c)
  <2>1. PICK h \in {"none", "alpn"} : hello' = [hello EXCEPT ![c] = h]
    BY <1>3 DEF Accept
  <2>2. {d \in Conns : hello'[d] = "tunnel"} = {d \in Conns : hello[d] = "tunnel"} \ {c}
    BY <2>1
  <2>3. c \notin {d \in Conns : myGen[d] > 0}
    BY <1>3 DEF Accept, Fresh
  <2> QED
    BY <1>3, <2>2, <2>3 DEF Accept, Lease!Next, Lease!Withdraw
<1> QED
  BY <1>1, <1>2, <1>3

LEMMA OthersStutter ==
  ASSUME UNCHANGED <<hello, activeCancel, myGen, cancelled>>
  PROVE  UNCHANGED Lease!leaseVars
  BY DEF Lease!leaseVars

LEMMA LeaseStep == LeaseInv /\ [Next]_vars => [Lease!Next]_Lease!leaseVars
<1> SUFFICES ASSUME LeaseInv, [Next]_vars PROVE [Lease!Next]_Lease!leaseVars
  OBVIOUS
<1>1. CASE UNCHANGED vars
  BY <1>1, OthersStutter DEF vars, serverVars
<1>2. CASE \E c \in Conns :
             \/ ClientFinishes(c) \/ ClientLost(c) \/ AcceptFails(c)
             \/ SpawnRelay(c) \/ SelectDone(c) \/ SelectCancelled(c)
             \/ OutPump(c) \/ InnPump(c) \/ RelayMain(c) \/ SendDone(c)
  <2>1. UNCHANGED <<hello, activeCancel, myGen, cancelled>>
    BY <1>2 DEF ClientFinishes, ClientLost, AcceptFails, SpawnRelay, SelectDone,
       SelectCancelled, OutPump, InnPump, RelayMain, SendDone, HandlerGoes, serverVars
  <2> QED
    BY <2>1, OthersStutter
<1>3. CASE \/ \E l \in Listeners : ListenerFails(l) \/ ListenerStops(l)
           \/ Signal
           \/ Exit
  <2>1. UNCHANGED <<hello, activeCancel, myGen, cancelled>>
    BY <1>3 DEF ListenerFails, ListenerStops, ListenerStopped, Signal, Exit, handlerVars
  <2> QED
    BY <2>1, OthersStutter
<1> QED
  BY <1>1, <1>2, <1>3, CleanupRefines, KickRefines, RequestRefines DEF Next, HandlerStep

\* The lock, the generations and the contexts of both servers implement the
\* lease: one holder per listener, revoked by the next taker, given back by
\* nobody else.
THEOREM HandlersImplementLease == Spec => LeaseSpec
<1>1. Init => Lease!Init
  BY DEF Init, Lease!Init
<1> QED
  BY <1>1, LeaseStep, LeaseInvariant, PTL DEF Spec, LeaseSpec, Lease!Spec
-----------------------------------------------------------------------------
(* Liveness.  The prover has no rules for ENABLED, so the theorems take    *)
(* GuardsSuffice, which says of each goroutine when it is enabled, as a    *)
(* hypothesis.  The rest is proved: that somebody who can move is always   *)
(* left, and that every such move comes closer to the end.                 *)

LEMMA WindingInit == Init => Winding
<1> SUFFICES ASSUME Init PROVE Winding
  OBVIOUS
<1>1. \A c \in Conns : hpc[c] = "none" /\ rpc[c] = "none"
  BY DEF Init, RelayInit
<1> QED
  BY <1>1 DEF Winding

LEMMA WindingRelay ==
  ASSUME TypeOK, Winding, NEW c \in Conns, OutPump(c) \/ InnPump(c) \/ RelayMain(c) \/ SendDone(c)
  PROVE  Winding'
<1> USE DEF TypeOK, RelayTypeOK, Winding
<1>1. CASE OutPump(c)
  <2>1. UNCHANGED <<hpc, cancelled, link, rpc, inn>>
    BY <1>1, OutType DEF OutPump, serverVars
  <2>2. \A d \in Conns : out[d] # "none" => out'[d] # "none"
    BY <1>1 DEF OutPump, OutNext, OutStep, OutGoes, TunReadBegins, TunReadFails,
       TunReadInterrupted, RemoteWriteOk, RemoteWriteFails, RemoteWriteBlocks, WriteBroken,
       WriteGoesOn, OutReports, TunReadReturns,
       TunDeviceFails
  <2> QED
    BY <2>1, <2>2
<1>2. CASE InnPump(c)
  <2>1. UNCHANGED <<hpc, cancelled, link, rpc, out>>
    BY <1>2, InnType DEF InnPump, serverVars
  <2>2. \A d \in Conns : inn[d] # "none" => inn'[d] # "none"
    BY <1>2 DEF InnPump, InnNext, InnStep, InnGoes, RemoteReadFails, TunWriteOk, TunWriteFails,
       InnReports, RemoteReadOk, FrameTooLong, TunWriteRefused
  <2> QED
    BY <2>1, <2>2
<1>3. CASE RelayMain(c)
  <2>1. UNCHANGED <<hpc, cancelled>>
    BY <1>3 DEF RelayMain, serverVars
  <2>2. CASE ReceiveError(c)
    BY <2>1, <2>2 DEF ReceiveError, MainGoes, linkVars
  <2>3. CASE CloseTun(c)
    BY <2>1, <2>3 DEF CloseTun, MainGoes, linkVars
  <2>4. CASE CloseRemote(c)
    BY <2>1, <2>4 DEF CloseRemote, MainGoes
  <2> QED
    BY <1>3, <2>2, <2>3, <2>4 DEF RelayMain, MainStep
<1>4. CASE SendDone(c)
  BY <1>4 DEF SendDone, linkVars
<1> QED
  BY <1>1, <1>2, <1>3, <1>4

LEMMA WindingHandler ==
  ASSUME LeaseInv, ReleaseInv, Winding, NEW c \in Conns, HandlerStep(c)
  PROVE  Winding'
<1> USE DEF LeaseInv, TypeOK, RelayTypeOK, Winding, HandlerGoes, relayVars, linkVars,
            handlerVars
<1>1. CASE AcceptFails(c)     BY <1>1 DEF AcceptFails, Fresh
<1>2. CASE RejectRequest(c)   BY <1>2 DEF RejectRequest
<1>3. CASE Kick(c)
  <2>1. \A d \in Conns : cancelled'[d] => cancelled[d] \/ hpc[d] # "end"
    BY <1>3, HomeType DEF Kick, ActiveIsLive, Holding
  <2>2. UNCHANGED <<rpc, out, inn, link>>
    BY <1>3 DEF Kick
  <2>3. hpc[c] = "accept" /\ hpc' = [hpc EXCEPT ![c] = "start"]
    BY <1>3 DEF Kick
  <2> QED
    BY <2>1, <2>2, <2>3
<1>4. CASE SpawnRelay(c)      BY <1>4 DEF SpawnRelay, StartRelay
<1>5. CASE SelectDone(c)      BY <1>5 DEF SelectDone, ReleaseInv
<1>6. CASE SelectCancelled(c) BY <1>6 DEF SelectCancelled
<1>7. CASE Cleanup(c)         BY <1>7 DEF Cleanup
<1> QED
  BY <1>1, <1>2, <1>3, <1>4, <1>5, <1>6, <1>7 DEF HandlerStep

LEMMA WindingClient ==
  ASSUME TypeOK, Winding, NEW c \in Conns,
         Accept(c) \/ Hello(c) \/ ClientFinishes(c) \/ ClientLost(c)
  PROVE  Winding'
<1> USE DEF TypeOK, RelayTypeOK, Winding, relayVars, linkVars, tunVars, handlerVars, serverVars
<1>1. CASE Accept(c)         BY <1>1 DEF Accept
<1>2. CASE Hello(c)          BY <1>2 DEF Hello
<1>3. CASE ClientFinishes(c) BY <1>3 DEF ClientFinishes, PeerFinishes
<1>4. CASE ClientLost(c)     BY <1>4 DEF ClientLost, PeerLost
<1> QED
  BY <1>1, <1>2, <1>3, <1>4

LEMMA WindingFrame ==
  ASSUME Winding, UNCHANGED <<hpc, cancelled, link, rpc, out, inn>>
  PROVE  Winding'
  BY DEF Winding

\* All that the arguments below need to know of a reachable state.
ServerInv == LeaseInv /\ ReleaseInv /\ ErrcCounts /\ Winding

LEMMA WindingStep == ServerInv /\ [Next]_vars => Winding'
<1> SUFFICES ASSUME ServerInv, [Next]_vars PROVE Winding'
  OBVIOUS
<1>1. TypeOK /\ Winding
  BY DEF ServerInv, LeaseInv
<1>2. CASE UNCHANGED vars
  BY <1>1, <1>2, WindingFrame DEF vars, relayVars, serverVars
<1>3. CASE \/ \E l \in Listeners : ListenerFails(l) \/ ListenerStops(l)
           \/ Signal
           \/ Exit
  BY <1>1, <1>3, WindingFrame
  DEF ListenerFails, ListenerStops, ListenerStopped, Signal, Exit, relayVars, linkVars,
      handlerVars
<1> QED
  BY <1>1, <1>2, <1>3, WindingRelay, WindingHandler, WindingClient DEF Next, ServerInv

LEMMA ServerInvariant == Spec => []ServerInv
<1>1. Init => ErrcCounts
  BY CountsInit DEF Init
<1>2. LeaseInv => TypeOK
  BY DEF LeaseInv
<1>3. ServerInv <=> LeaseInv /\ ReleaseInv /\ ErrcCounts /\ Winding
  BY DEF ServerInv
<1> QED
  BY <1>1, <1>2, <1>3, WindingInit, WindingStep, LeaseInvariant, ReleaseInvInit,
     ReleaseInvStep, ErrcCountsStep, PTL DEF Spec
-----------------------------------------------------------------------------
\* How many steps of its own a relay is from having returned, once its pump
\* remote -> TUN can no longer read.
MainSteps(c) ==
  CASE rpc[c] = "wait"        -> 4
    [] rpc[c] = "closeTun"    -> 3
    [] rpc[c] = "closeRemote" -> 2
    [] rpc[c] = "returned"    -> 1
    [] OTHER                  -> 0

\* How far a handler that was told to stop is from its end.  While it has not
\* closed the connection its relay may run on, and does not count.
Distance(c) ==
  CASE hpc[c] = "start"   -> 10
    [] hpc[c] = "select"  -> 9
    [] hpc[c] = "cleanup" -> 8
    [] OTHER -> MainSteps(c) + (IF rpc[c] = "wait" THEN InnSteps(c) ELSE 0)

Within(c, k) == cancelled[c] /\ Distance(c) <= k

LEMMA DistanceType ==
  ASSUME NEW c \in Conns
  PROVE  Distance(c) \in 0..10 /\ Distance(c)' \in 0..10
<1>1. MainSteps(c) \in 0..4 /\ InnSteps(c) \in 0..3
  BY DEF MainSteps, InnSteps
<1>2. MainSteps(c)' \in 0..4 /\ InnSteps(c)' \in 0..3
  BY DEF MainSteps, InnSteps
<1>3. Distance(c) \in 0..10
  BY <1>1 DEF Distance
<1>4. Distance(c)' \in 0..10
  BY <1>2 DEF Distance
<1> QED
  BY <1>3, <1>4

\* A step of one connection's goroutines, or of its client, moves no other
\* connection's handler and no other relay.
LEMMA OthersKeepTheirPlace ==
  ASSUME TypeOK, NEW c \in Conns, NEW d \in Conns \ {c},
         \/ Accept(d) \/ Hello(d) \/ ClientFinishes(d) \/ ClientLost(d)
         \/ HandlerStep(d) \/ SendDone(d)
         \/ OutPump(d) \/ InnPump(d) \/ RelayMain(d)
  PROVE  hpc'[c] = hpc[c] /\ rpc'[c] = rpc[c] /\ out'[c] = out[c] /\ inn'[c] = inn[c]
<1> USE DEF TypeOK, RelayTypeOK
<1>1. CASE Accept(d) \/ Hello(d) \/ ClientFinishes(d) \/ ClientLost(d)
  BY <1>1 DEF Accept, Hello, ClientFinishes, PeerFinishes, ClientLost, PeerLost, relayVars,
     handlerVars, serverVars
<1>2. CASE HandlerStep(d)
  BY <1>2 DEF HandlerStep, AcceptFails, RejectRequest, Kick, SpawnRelay, StartRelay,
     SelectDone, SelectCancelled, Cleanup, HandlerGoes, relayVars, handlerVars
<1>3. CASE SendDone(d)
  BY <1>3 DEF SendDone
<1>4. CASE OutPump(d)
  <2>1. out'[c] = out[c]
    BY <1>4 DEF OutPump, OutNext, OutStep, OutGoes, TunReadBegins, TunReadFails,
       TunReadInterrupted, RemoteWriteOk, RemoteWriteFails, RemoteWriteBlocks, WriteBroken,
       WriteGoesOn, OutReports, TunReadReturns,
       TunDeviceFails
  <2> QED
    BY <1>4, <2>1, OutType DEF OutPump, serverVars
<1>5. CASE InnPump(d)
  <2>1. inn'[c] = inn[c]
    BY <1>5 DEF InnPump, InnNext, InnStep, InnGoes, RemoteReadOk, RemoteReadFails,
       FrameTooLong, TunWriteOk, TunWriteFails, TunWriteRefused, InnReports
  <2> QED
    BY <1>5, <2>1, InnType DEF InnPump, serverVars
<1>6. CASE RelayMain(d)
  BY <1>6 DEF RelayMain, MainStep, ReceiveError, CloseTun, CloseRemote, MainGoes, serverVars
<1> QED
  BY <1>1, <1>2, <1>3, <1>4, <1>5, <1>6

LEMMA DistanceFrame ==
  ASSUME NEW c \in Conns, hpc'[c] = hpc[c], rpc'[c] = rpc[c], inn'[c] = inn[c]
  PROVE  Distance(c)' = Distance(c)
  BY DEF Distance, MainSteps, InnSteps

\* A handler that was told to stop holds a generation or has ended.
LEMMA CancelledIsOnItsWay ==
  ASSUME ServerInv, NEW c \in Conns, cancelled[c]
  PROVE  hpc[c] \in {"start", "select", "cleanup", "end"}
  BY DEF ServerInv, LeaseInv, Fresh, TypeOK, HandlerStates

LEMMA HandlerCloser ==
  ASSUME ServerInv, NEW c \in Conns, cancelled[c], HandlerStep(c)
  PROVE  Distance(c)' < Distance(c) /\ cancelled'[c]
<1>1. hpc[c] \in {"start", "select", "cleanup", "end"}
  BY CancelledIsOnItsWay
<1>2. /\ MainSteps(c) \in 0..4 /\ InnSteps(c) \in 0..3
      /\ MainSteps(c)' \in 0..4 /\ InnSteps(c)' \in 0..3
  BY DEF MainSteps, InnSteps
<1>3. hpc \in [Conns -> HandlerStates] /\ cancelled \in [Conns -> BOOLEAN]
  BY DEF ServerInv, LeaseInv, TypeOK
<1>4. \/ hpc[c] = "start" /\ hpc'[c] = "select"
      \/ hpc[c] = "select" /\ hpc'[c] = "cleanup"
      \/ hpc[c] = "cleanup" /\ hpc'[c] = "end"
  BY <1>1, <1>3
  DEF HandlerStep, AcceptFails, RejectRequest, Kick, SpawnRelay, SelectDone, SelectCancelled,
      Cleanup, HandlerGoes
<1>5. cancelled'[c]
  BY <1>1, <1>3
  DEF HandlerStep, AcceptFails, RejectRequest, Kick, SpawnRelay, SelectDone, SelectCancelled,
      Cleanup, HandlerGoes, handlerVars
<1>6. Distance(c)' < Distance(c)
  BY <1>2, <1>4 DEF Distance
<1> QED
  BY <1>5, <1>6

\* The connection of a handler that was told to stop, and whose relay still
\* runs when the handler has ended, is closed: its pump reads nothing more.
LEMMA InnCloser ==
  ASSUME ServerInv, NEW c \in Conns, cancelled[c], InnPump(c)
  PROVE  /\ Distance(c)' <= Distance(c) /\ cancelled'[c]
         /\ hpc[c] = "end" /\ rpc[c] = "wait" => Distance(c)' < Distance(c)
<1>1. hpc' = hpc /\ rpc' = rpc /\ cancelled' = cancelled
  BY InnType DEF InnPump, serverVars, ServerInv, LeaseInv, TypeOK
<1>2. inn \in [Conns -> InnStates]
  BY DEF ServerInv, LeaseInv, TypeOK, RelayTypeOK
<1>3. hpc[c] = "end" /\ rpc[c] = "wait" => link[c] = "closed"
  BY DEF ServerInv, Winding
<1>4. \/ inn[c] = "remoteRead" /\ inn'[c] = "tunWrite" /\ link[c] = "up"
      \/ inn[c] = "remoteRead" /\ inn'[c] = "report"
      \/ inn[c] = "tunWrite" /\ inn'[c] \in {"remoteRead", "report"}
      \/ inn[c] = "report" /\ inn'[c] = "dead"
  BY <1>2 DEF InnPump, InnNext, InnStep, InnGoes, RemoteReadOk, RemoteReadFails, Readable,
     FrameTooLong, TunWriteOk, TunWriteFails, TunWriteRefused, InnReports
<1>5. hpc[c] = "end" /\ rpc[c] = "wait" => InnSteps(c)' < InnSteps(c)
  BY <1>3, <1>4 DEF InnSteps
<1>6. /\ MainSteps(c)' = MainSteps(c) /\ MainSteps(c) \in 0..4
      /\ InnSteps(c) \in 0..3 /\ InnSteps(c)' \in 0..3
  BY <1>1 DEF MainSteps, InnSteps
<1>7. hpc[c] \in {"start", "select", "cleanup", "end"}
  BY CancelledIsOnItsWay
<1> QED
  BY <1>1, <1>5, <1>6, <1>7 DEF Distance

LEMMA MainCloser ==
  ASSUME ServerInv, NEW c \in Conns, cancelled[c], RelayMain(c) \/ SendDone(c)
  PROVE  /\ Distance(c)' <= Distance(c) /\ cancelled'[c]
         /\ hpc[c] = "end" => Distance(c)' < Distance(c)
<1>1. hpc' = hpc /\ cancelled' = cancelled
  BY DEF RelayMain, SendDone, serverVars
<1>2. rpc \in [Conns -> MainStates]
  BY DEF ServerInv, LeaseInv, TypeOK, RelayTypeOK
<1>3. \/ rpc[c] = "wait" /\ rpc'[c] = "closeTun"
      \/ rpc[c] = "closeTun" /\ rpc'[c] = "closeRemote"
      \/ rpc[c] = "closeRemote" /\ rpc'[c] = "returned"
      \/ rpc[c] = "returned" /\ rpc'[c] = "done"
  BY <1>2 DEF RelayMain, MainStep, MainGoes, ReceiveError, CloseTun, CloseRemote, SendDone
<1>4. InnSteps(c) \in 0..3
  BY DEF InnSteps
<1>5. hpc[c] \in {"start", "select", "cleanup", "end"}
  BY CancelledIsOnItsWay
<1> QED
  BY <1>1, <1>3, <1>4, <1>5 DEF Distance, MainSteps

\* Nothing that happens in the server takes a handler that was told to stop
\* back from its end.
LEMMA NeverFurther ==
  ASSUME ServerInv, NEW c \in Conns, cancelled[c], [Next]_vars
  PROVE  cancelled'[c] /\ Distance(c)' <= Distance(c)
<1>1. TypeOK
  BY DEF ServerInv, LeaseInv
<1>2. Distance(c) \in 0..10 /\ Distance(c)' \in 0..10
  BY DistanceType
<1>3. ASSUME hpc'[c] = hpc[c], rpc'[c] = rpc[c], inn'[c] = inn[c]
      PROVE  Distance(c)' <= Distance(c)
  BY <1>2, <1>3, DistanceFrame
<1>4. cancelled'[c]
  <2>1. cancelled \in [Conns -> BOOLEAN]
    BY <1>1 DEF TypeOK
  <2>2. CASE \E d \in Conns : Kick(d)
    BY <2>1, <2>2 DEF Kick
  <2>3. CASE \E d \in Conns : Cleanup(d)
    BY <2>1, <2>3 DEF Cleanup
  <2>4. CASE UNCHANGED cancelled
    BY <2>4
  <2>5. UNCHANGED cancelled \/ (\E d \in Conns : Kick(d) \/ Cleanup(d))
    BY OthersLeaveHandlers, ProcessLeavesHandlers
    DEF Next, vars, serverVars, handlerVars, HandlerStep, AcceptFails, SpawnRelay, SelectDone,
        SelectCancelled, HandlerGoes, Accept
  <2> QED
    BY <2>2, <2>3, <2>4, <2>5
<1>5. CASE UNCHANGED vars
  BY <1>3, <1>4, <1>5 DEF vars, relayVars, serverVars
<1>6. ASSUME NEW d \in Conns \ {c},
             \/ Accept(d) \/ Hello(d) \/ ClientFinishes(d) \/ ClientLost(d)
             \/ HandlerStep(d) \/ SendDone(d)
             \/ OutPump(d) \/ InnPump(d) \/ RelayMain(d)
      PROVE  Distance(c)' <= Distance(c)
  BY <1>1, <1>3, <1>6, OthersKeepTheirPlace
<1>7. ASSUME Accept(c) \/ Hello(c) \/ ClientFinishes(c) \/ ClientLost(c)
      PROVE  Distance(c)' <= Distance(c)
  <2>1. ~Accept(c)
    BY CancelledIsOnItsWay DEF Accept
  <2> QED
    BY <1>3, <1>7, <2>1 DEF Hello, ClientFinishes, PeerFinishes, ClientLost, PeerLost, relayVars,
       handlerVars, serverVars
<1>8. ASSUME OutPump(c)
      PROVE  Distance(c)' <= Distance(c)
  BY <1>1, <1>3, <1>8, OutType DEF OutPump, serverVars, TypeOK
<1>9. CASE (\E l \in Listeners : ListenerFails(l) \/ ListenerStops(l)) \/ Signal \/ Exit
  BY <1>3, <1>9 DEF ListenerFails, ListenerStops, ListenerStopped, Signal, Exit, relayVars,
     linkVars, handlerVars
<1>10. HandlerStep(c) => Distance(c)' <= Distance(c)
  BY <1>2, HandlerCloser
<1>11. InnPump(c) \/ RelayMain(c) \/ SendDone(c) => Distance(c)' <= Distance(c)
  BY InnCloser, MainCloser
<1>12. ASSUME NEW d \in Conns,
              \/ Accept(d) \/ Hello(d) \/ ClientFinishes(d) \/ ClientLost(d)
              \/ HandlerStep(d) \/ SendDone(d)
              \/ OutPump(d) \/ InnPump(d) \/ RelayMain(d)
       PROVE  Distance(c)' <= Distance(c)
  <2>1. CASE d = c
    BY <1>7, <1>8, <1>10, <1>11, <1>12, <2>1
  <2>2. CASE d # c
    BY <1>6, <1>12, <2>2
  <2> QED
    BY <2>1, <2>2
<1>13. CASE Next
  <2>1. CASE \E d \in Conns :
               \/ Accept(d) \/ Hello(d) \/ ClientFinishes(d) \/ ClientLost(d)
               \/ HandlerStep(d)
               \/ OutPump(d) \/ InnPump(d) \/ RelayMain(d) \/ SendDone(d)
    BY <1>4, <1>12, <2>1
  <2> QED
    BY <1>4, <1>9, <1>13, <2>1 DEF Next
<1> QED
  BY <1>4, <1>5, <1>13

LEMMA WithinKept ==
  ASSUME ServerInv, NEW c \in Conns, NEW k \in Nat, Within(c, k), [Next]_vars
  PROVE  Within(c, k)'
<1>1. Distance(c) \in 0..10 /\ Distance(c)' \in 0..10
  BY DistanceType
<1> QED
  BY <1>1, NeverFurther DEF Within

\* Exactly k steps are left.
At(c, k) == cancelled[c] /\ Distance(c) = k

LEMMA HandlerMoves ==
  ASSUME ServerInv, NEW c \in Conns, NEW k \in 8..10, At(c, k)
  PROVE  HandlerCan(c)
<1>1. MainSteps(c) \in 0..4 /\ InnSteps(c) \in 0..3
  BY DEF MainSteps, InnSteps
<1>2. hpc[c] \in {"start", "select", "cleanup"}
  BY <1>1 DEF Distance, At
<1>3. hpc[c] = "start" => rpc[c] = "none"
  BY DEF ServerInv, Winding
<1> QED
  BY <1>2, <1>3 DEF HandlerCan, RelayCtxDone, At

LEMMA RelayLeft ==
  ASSUME ServerInv, NEW c \in Conns, NEW k \in 1..7, At(c, k)
  PROVE  /\ hpc[c] = "end"
         /\ k \in 5..7 => rpc[c] = "wait" /\ InnCan(c)
         /\ k \in 1..4 => MainCan(c)
<1>1. MainSteps(c) \in 0..4 /\ InnSteps(c) \in 0..3
  BY DEF MainSteps, InnSteps
<1>2. hpc[c] \in {"start", "select", "cleanup", "end"}
  BY CancelledIsOnItsWay DEF At
<1>3. hpc[c] = "end" /\ k = MainSteps(c) + (IF rpc[c] = "wait" THEN InnSteps(c) ELSE 0)
  BY <1>2 DEF Distance, At
<1>4. TypeOK /\ RelayTypeOK /\ ErrcCounts /\ ErrcHasRoom
  BY CountsLeaveRoom DEF ServerInv, LeaseInv, TypeOK
<1>5. rpc[c] # "none" /\ inn[c] # "none"
  BY <1>3 DEF ServerInv, Winding, At
<1>6. rpc[c] = "wait" => link[c] = "closed"
  BY <1>3 DEF ServerInv, Winding
<1>7. ASSUME k \in 5..7 PROVE rpc[c] = "wait" /\ InnCan(c)
  <2>1. rpc[c] = "wait" /\ InnSteps(c) > 0
    BY <1>1, <1>3, <1>7 DEF MainSteps
  <2>2. inn[c] \in {"tunWrite", "remoteRead", "report"}
    BY <2>1 DEF InnSteps
  <2> QED
    BY <1>4, <1>6, <2>1, <2>2 DEF InnCan, Readable, ErrcHasRoom
<1>8. ASSUME k \in 1..4 PROVE MainCan(c)
  <2>1. CASE rpc[c] = "wait"
    <3>1. InnSteps(c) = 0
      BY <1>1, <1>3, <1>8, <2>1 DEF MainSteps
    <3>2. inn[c] = "dead"
      BY <1>4, <1>5, <3>1 DEF InnSteps, RelayTypeOK, InnStates
    <3>3. errc[c] + Received(c) = Reported(c) /\ errc[c] \in 0..2
      BY <1>4 DEF ErrcCounts, RelayTypeOK
    <3> QED
      BY <2>1, <3>2, <3>3 DEF Received, Reported, MainCan, LoopCan
  <2>2. CASE rpc[c] # "wait"
    <3>1. rpc[c] \in {"closeTun", "closeRemote", "returned"}
      BY <1>1, <1>3, <1>8, <2>2 DEF MainSteps
    <3>2. rpc[c] = "returned" => doneChan[c] = 0
      BY <1>4 DEF ServerInv, ReleaseInv, TypeOK
    <3> QED
      BY <3>1, <3>2 DEF MainCan, LoopCan, DoneHasRoom
  <2> QED
    BY <2>1, <2>2
<1> QED
  BY <1>3, <1>7, <1>8


Closer(c, k) == Within(c, k) ~> Within(c, k - 1) \/ ~Alive

\* A handler that was told to stop, and that is k steps from its end, takes
\* one of them, unless main ends the process first.
LEMMA ComesCloser ==
  ASSUME NEW c \in Conns, NEW k \in 1..10
  PROVE  FairSpec /\ []GuardsSuffice => Closer(c, k)
<1> DEFINE Before == Within(c, k) /\ ~Within(c, k - 1)
           After  == Within(c, k - 1)
<1>1. ServerInv /\ Before /\ [Next]_vars => Before' \/ After'
  <2> SUFFICES ASSUME ServerInv, Before, [Next]_vars PROVE Within(c, k)'
    OBVIOUS
  <2> QED
    BY WithinKept
<1>2. ServerInv /\ Before => At(c, k)
  BY DistanceType DEF Within, At
<1>3. ASSUME ServerInv, Before, Distance(c)' < Distance(c), cancelled'[c] PROVE After'
  <2>1. Distance(c) \in 0..10 /\ Distance(c)' \in 0..10
    BY DistanceType
  <2>2. Distance(c) <= k
    BY <1>3 DEF Within
  <2>3. Distance(c)' <= k - 1
    BY <1>3, <2>1, <2>2
  <2> QED
    BY <1>3, <2>3 DEF Within
<1>4. RelaysAreFair => FairTo(c)
  BY DEF RelaysAreFair
<1>5. CASE k \in 8..10
  <2>1. ServerInv /\ Before /\ <<HandlerActs(c)>>_vars => After'
    <3> SUFFICES ASSUME ServerInv, Before, HandlerStep(c) PROVE After'
      BY DEF HandlerActs
    <3> QED
      BY <1>3, HandlerCloser DEF Within
  <2>2. ServerInv /\ GuardsSuffice /\ Before => (ENABLED <<HandlerActs(c)>>_vars) \/ ~Alive
    BY <1>2, <1>5, HandlerMoves DEF GuardsSuffice
  <2> QED
    BY <1>1, <1>4, <2>1, <2>2, ServerInvariant, PTL DEF FairSpec, Fairness, FairTo, Spec, Closer
<1>6. CASE k \in 5..7
  <2>1. ServerInv /\ Before /\ <<InnActs(c)>>_vars => After'
    <3> SUFFICES ASSUME ServerInv, Before, InnPump(c) PROVE After'
      BY DEF InnActs, InnPump, InnNext
    <3> QED
      BY <1>2, <1>3, <1>6, RelayLeft, InnCloser DEF Within
  <2>2. ServerInv /\ GuardsSuffice /\ Before => (ENABLED <<InnActs(c)>>_vars) \/ ~Alive
    BY <1>2, <1>6, RelayLeft DEF GuardsSuffice
  <2> QED
    BY <1>1, <1>4, <2>1, <2>2, ServerInvariant, PTL DEF FairSpec, Fairness, FairTo, Spec, Closer
<1>7. CASE k \in 1..4
  <2>1. ServerInv /\ Before /\ <<MainActs(c)>>_vars => After'
    <3> SUFFICES ASSUME ServerInv, Before, RelayMain(c) \/ SendDone(c) PROVE After'
      BY DEF MainActs
    <3> QED
      BY <1>2, <1>3, <1>7, RelayLeft, MainCloser DEF Within
  <2>2. ServerInv /\ GuardsSuffice /\ Before => (ENABLED <<MainActs(c)>>_vars) \/ ~Alive
    BY <1>2, <1>7, RelayLeft DEF GuardsSuffice
  <2> QED
    BY <1>1, <1>4, <2>1, <2>2, ServerInvariant, PTL DEF FairSpec, Fairness, FairTo, Spec, Closer
<1> QED
  BY <1>5, <1>6, <1>7


WindsUp(c) == cancelled[c] ~> (hpc[c] = "end" /\ rpc[c] = "done") \/ ~Alive

LEMMA EachWindsUp ==
  ASSUME NEW c \in Conns
  PROVE  FairSpec /\ []GuardsSuffice => WindsUp(c)
<1>1. FairSpec /\ []GuardsSuffice
        => /\ Closer(c, 10) /\ Closer(c, 9) /\ Closer(c, 8) /\ Closer(c, 7) /\ Closer(c, 6)
           /\ Closer(c, 5) /\ Closer(c, 4) /\ Closer(c, 3) /\ Closer(c, 2) /\ Closer(c, 1)
  BY ComesCloser
<1>2. /\ Within(c, 10 - 1) => Within(c, 9)
      /\ Within(c, 9 - 1) => Within(c, 8)
      /\ Within(c, 8 - 1) => Within(c, 7)
      /\ Within(c, 7 - 1) => Within(c, 6)
      /\ Within(c, 6 - 1) => Within(c, 5)
      /\ Within(c, 5 - 1) => Within(c, 4)
      /\ Within(c, 4 - 1) => Within(c, 3)
      /\ Within(c, 3 - 1) => Within(c, 2)
      /\ Within(c, 2 - 1) => Within(c, 1)
  BY DEF Within
<1>3. cancelled[c] => Within(c, 10)
  BY DistanceType DEF Within
<1>4. ServerInv /\ Within(c, 1 - 1) => hpc[c] = "end" /\ rpc[c] = "done"
  <2> SUFFICES ASSUME ServerInv, Within(c, 1 - 1) PROVE hpc[c] = "end" /\ rpc[c] = "done"
    OBVIOUS
  <2>1. cancelled[c] /\ Distance(c) = 0
    BY DistanceType DEF Within
  <2>2. MainSteps(c) \in 0..4 /\ InnSteps(c) \in 0..3
    BY DEF MainSteps, InnSteps
  <2>3. hpc[c] = "end"
    BY <2>1, CancelledIsOnItsWay DEF Distance
  <2>4. MainSteps(c) = 0
    BY <2>1, <2>2, <2>3 DEF Distance
  <2>5. rpc[c] \in MainStates \ {"none"}
    BY <2>1, <2>3 DEF ServerInv, Winding, LeaseInv, TypeOK, RelayTypeOK
  <2> QED
    BY <2>3, <2>4, <2>5 DEF MainSteps, MainStates
<1> QED
  BY <1>1, <1>2, <1>3, <1>4, ServerInvariant, PTL DEF Closer, FairSpec, WindsUp

\* A relay whose cancel function was called is wound up, and so is its handler,
\* for every set of connections: what the select and the deferred closes
\* start, the channels of quic.go:73-89 and of relay.go:20 let come to its end.
THEOREM CancelledRelaysEnd == FairSpec /\ []GuardsSuffice => CancelledRelayEnds
  BY EachWindsUp DEF CancelledRelayEnds, WindsUp
-----------------------------------------------------------------------------
\* How many steps of its own a relay is from its end, once its TUN is closed
\* and while its pump waits for nobody else.
OutSteps(c) ==
  CASE out[c] = "remoteWrite" -> 3
    [] out[c] = "tunRead"     -> 2
    [] out[c] = "report"      -> 1
    [] OTHER                  -> 0
Rest(c) ==
  CASE rpc[c] = "wait"        -> 3 + OutSteps(c)
    [] rpc[c] = "closeTun"    -> 2
    [] rpc[c] = "closeRemote" -> 1
    [] OTHER                  -> 0

Dying(c, k) ==
  /\ tunClosed[TunOf[c]] /\ out[c] \notin {"inRead", "inWrite"}
  /\ Running(c) /\ Rest(c) <= k

\* Its pump has come to wait in a Write that the peer must end.
InWrite(c) == out[c] = "inWrite"

LEMMA RestType ==
  ASSUME NEW c \in Conns
  PROVE  Rest(c) \in 0..6 /\ Rest(c)' \in 0..6
<1>1. OutSteps(c) \in 0..3
  BY DEF OutSteps
<1>2. OutSteps(c)' \in 0..3
  BY DEF OutSteps
<1>3. Rest(c) \in 0..6
  BY <1>1 DEF Rest
<1>4. Rest(c)' \in 0..6
  BY <1>2 DEF Rest
<1> QED
  BY <1>3, <1>4

\* A TUN that is closed stays closed.
LEMMA ClosedStaysClosed ==
  ASSUME TypeOK, NEW c \in Conns, tunClosed[TunOf[c]], [Next]_vars
  PROVE  tunClosed'[TunOf[c]]
<1>1. tunClosed \in [Tuns -> BOOLEAN] /\ TunOf[c] \in Tuns
  BY RelayAssumption DEF TypeOK, RelayTypeOK
<1>2. CASE UNCHANGED tunClosed
  BY <1>2
<1>3. CASE \E d \in Conns : CloseTun(d)
  BY <1>1, <1>3 DEF CloseTun
<1>4. CASE Exit
  BY <1>1, <1>4 DEF Exit
<1>5. ASSUME NEW d \in Conns, RelayMain(d) PROVE UNCHANGED tunClosed \/ CloseTun(d)
  BY <1>5 DEF RelayMain, MainStep, ReceiveError, CloseRemote
<1>6. ASSUME NEW d \in Conns, OutPump(d) \/ InnPump(d) PROVE UNCHANGED tunClosed
  BY <1>6, OutType, InnType DEF OutPump, InnPump, tunVars, TypeOK
<1>7. ASSUME NEW d \in Conns,
             Accept(d) \/ Hello(d) \/ ClientFinishes(d) \/ ClientLost(d) \/ HandlerStep(d)
               \/ SendDone(d)
      PROVE  UNCHANGED tunClosed
  BY <1>7 DEF Accept, Hello, ClientFinishes, PeerFinishes, ClientLost, PeerLost, HandlerStep,
     AcceptFails, RejectRequest, Kick, SpawnRelay, StartRelay, SelectDone, SelectCancelled,
     Cleanup, SendDone, tunVars, relayVars
<1>8. UNCHANGED tunClosed \/ (\E d \in Conns : CloseTun(d)) \/ Exit
  <2>1. CASE UNCHANGED vars
    BY <2>1 DEF vars, relayVars
  <2>2. CASE (\E l \in Listeners : ListenerFails(l) \/ ListenerStops(l)) \/ Signal
    BY <2>2 DEF ListenerFails, ListenerStops, ListenerStopped, Signal, relayVars
  <2>3. CASE Next
    BY <1>5, <1>6, <1>7, <2>2, <2>3 DEF Next
  <2> QED
    BY <2>1, <2>3
<1> QED
  BY <1>2, <1>3, <1>4, <1>8

LEMMA OutCloser ==
  ASSUME ServerInv, NEW c \in Conns, tunClosed[TunOf[c]],
         out[c] \notin {"inRead", "inWrite"}, OutPump(c)
  PROVE  /\ out'[c] # "inRead" /\ rpc'[c] = rpc[c]
         /\ Rest(c)' <= Rest(c)
         /\ rpc[c] = "wait" => Rest(c)' < Rest(c)
<1>1. rpc' = rpc
  BY OutType DEF OutPump, serverVars, ServerInv, LeaseInv, TypeOK
<1>2. out \in [Conns -> OutStates]
  BY DEF ServerInv, LeaseInv, TypeOK, RelayTypeOK
<1>3. \/ out[c] = "remoteWrite" /\ out'[c] \in {"tunRead", "report", "inWrite"}
      \/ out[c] = "tunRead" /\ out'[c] = "report"
      \/ out[c] = "report" /\ out'[c] = "dead"
  BY <1>2 DEF OutPump, OutNext, OutStep, OutGoes, TunReadBegins, TunReadFails,
       TunReadInterrupted, RemoteWriteOk, RemoteWriteFails, RemoteWriteBlocks, WriteBroken,
       WriteGoesOn, OutReports, TunReadReturns,
       TunDeviceFails
<1>4. OutSteps(c)' < OutSteps(c) /\ OutSteps(c) \in 0..3 /\ OutSteps(c)' \in 0..3
  BY <1>3 DEF OutSteps
<1> QED
  BY <1>1, <1>3, <1>4 DEF Rest

LEMMA MainRests ==
  ASSUME ServerInv, NEW c \in Conns, Running(c), RelayMain(c) \/ SendDone(c)
  PROVE  out' = out /\ Rest(c)' < Rest(c)
<1>1. rpc \in [Conns -> MainStates]
  BY DEF ServerInv, LeaseInv, TypeOK, RelayTypeOK
<1>2. \/ rpc[c] = "wait" /\ rpc'[c] = "closeTun"
      \/ rpc[c] = "closeTun" /\ rpc'[c] = "closeRemote"
      \/ rpc[c] = "closeRemote" /\ rpc'[c] = "returned"
  BY <1>1 DEF RelayMain, MainStep, MainGoes, ReceiveError, CloseTun, CloseRemote, SendDone, Running
<1>3. OutSteps(c) \in 0..3
  BY DEF OutSteps
<1>4. out' = out
  BY DEF RelayMain, MainStep, MainGoes, ReceiveError, CloseTun, CloseRemote, SendDone
<1> QED
  BY <1>2, <1>3, <1>4 DEF Rest

\* A relay on a closed TUN never goes back, whoever moves.
LEMMA DyingKept ==
  ASSUME ServerInv, NEW c \in Conns, NEW k \in Nat, Dying(c, k), [Next]_vars
  PROVE  Dying(c, k)' \/ ~Running(c)' \/ InWrite(c)'
<1>1. TypeOK
  BY DEF ServerInv, LeaseInv
<1>2. Rest(c) \in 0..6 /\ Rest(c)' \in 0..6
  BY RestType
<1>3. tunClosed'[TunOf[c]]
  BY <1>1, ClosedStaysClosed DEF Dying
<1>4. ASSUME out'[c] # "inRead", Rest(c)' <= Rest(c)
      PROVE  Dying(c, k)' \/ ~Running(c)' \/ InWrite(c)'
  BY <1>2, <1>3, <1>4 DEF Dying, InWrite
<1>5. ASSUME rpc'[c] = rpc[c], out'[c] = out[c]
      PROVE  Dying(c, k)' \/ ~Running(c)' \/ InWrite(c)'
  <2>1. Rest(c)' = Rest(c)
    BY <1>5 DEF Rest, OutSteps
  <2> QED
    BY <1>2, <1>4, <1>5, <2>1 DEF Dying
<1>6. ASSUME NEW d \in Conns \ {c},
             \/ Accept(d) \/ Hello(d) \/ ClientFinishes(d) \/ ClientLost(d)
             \/ HandlerStep(d) \/ SendDone(d)
             \/ OutPump(d) \/ InnPump(d) \/ RelayMain(d)
      PROVE  Dying(c, k)' \/ ~Running(c)' \/ InWrite(c)'
  BY <1>1, <1>5, <1>6, OthersKeepTheirPlace
<1>7. ASSUME \/ Accept(c) \/ Hello(c) \/ ClientFinishes(c) \/ ClientLost(c)
             \/ HandlerStep(c) \/ InnPump(c)
      PROVE  Dying(c, k)' \/ ~Running(c)' \/ InWrite(c)'
  <2>1. ~SpawnRelay(c)
    BY DEF SpawnRelay, StartRelay, Dying, Running
  <2>2. InnPump(c) => UNCHANGED <<rpc, out>>
    BY <1>1, InnType DEF InnPump, TypeOK
  <2> QED
    BY <1>5, <1>7, <2>1, <2>2, OthersLeaveRelay DEF HandlerStep
<1>8. OutPump(c) => Dying(c, k)' \/ ~Running(c)' \/ InWrite(c)'
  BY <1>4, OutCloser DEF Dying
<1>9. RelayMain(c) \/ SendDone(c) => Dying(c, k)' \/ ~Running(c)' \/ InWrite(c)'
  BY <1>2, <1>4, MainRests DEF Dying
<1>10. CASE UNCHANGED vars
  BY <1>5, <1>10 DEF vars, relayVars
<1>11. CASE (\E l \in Listeners : ListenerFails(l) \/ ListenerStops(l)) \/ Signal \/ Exit
  BY <1>5, <1>11, ProcessLeavesRelay
<1>12. ASSUME NEW d \in Conns,
              \/ Accept(d) \/ Hello(d) \/ ClientFinishes(d) \/ ClientLost(d)
              \/ HandlerStep(d) \/ SendDone(d)
              \/ OutPump(d) \/ InnPump(d) \/ RelayMain(d)
       PROVE  Dying(c, k)' \/ ~Running(c)' \/ InWrite(c)'
  <2>1. CASE d = c
    BY <1>7, <1>8, <1>9, <1>12, <2>1
  <2>2. CASE d # c
    BY <1>6, <1>12, <2>2
  <2> QED
    BY <2>1, <2>2
<1>13. CASE Next
  <2>1. CASE \E d \in Conns :
               \/ Accept(d) \/ Hello(d) \/ ClientFinishes(d) \/ ClientLost(d)
               \/ HandlerStep(d)
               \/ OutPump(d) \/ InnPump(d) \/ RelayMain(d) \/ SendDone(d)
    BY <1>12, <2>1
  <2> QED
    BY <1>11, <1>13, <2>1 DEF Next
<1> QED
  BY <1>10, <1>13

\* At every distance one of the relay's goroutines can move.
LEMMA RelayCanMove ==
  ASSUME ServerInv, NEW c \in Conns, NEW k \in 1..6, Dying(c, k), Rest(c) = k
  PROVE  /\ k \in 4..6 => rpc[c] = "wait" /\ OutCan(c)
         /\ k \in 1..3 => MainCan(c)
<1>1. OutSteps(c) \in 0..3
  BY DEF OutSteps
<1>2. TypeOK /\ RelayTypeOK /\ ErrcCounts /\ ErrcHasRoom
  BY CountsLeaveRoom DEF ServerInv, LeaseInv, TypeOK
<1>3. ASSUME k \in 4..6 PROVE rpc[c] = "wait" /\ OutCan(c)
  <2>1. rpc[c] = "wait" /\ OutSteps(c) > 0
    BY <1>1, <1>3 DEF Rest
  <2>2. out[c] \in {"remoteWrite", "tunRead", "report"}
    BY <2>1 DEF OutSteps
  <2> QED
    BY <1>2, <2>1, <2>2 DEF OutCan, ErrcHasRoom, Dying
<1>4. ASSUME k \in 1..3 PROVE MainCan(c)
  <2>1. CASE rpc[c] = "wait"
    <3>1. OutSteps(c) = 0
      BY <1>1, <1>4, <2>1 DEF Rest
    <3>2. out[c] # "none"
      BY <2>1 DEF ServerInv, Winding
    <3>3. out[c] = "dead"
      BY <1>2, <3>1, <3>2 DEF OutSteps, RelayTypeOK, OutStates, Dying
    <3>4. errc[c] + Received(c) = Reported(c) /\ errc[c] \in 0..2
      BY <1>2 DEF ErrcCounts, RelayTypeOK
    <3> QED
      BY <2>1, <3>3, <3>4 DEF Received, Reported, MainCan, LoopCan
  <2>2. CASE rpc[c] # "wait"
    BY <1>4, <2>2 DEF Rest, MainCan, LoopCan
  <2> QED
    BY <2>1, <2>2
<1> QED
  BY <1>3, <1>4

OneLess(c, k) ==
  Dying(c, k) ~> Dying(c, k - 1) \/ ~Running(c) \/ InWrite(c) \/ ~Alive

\* One of the k steps that are left is taken, unless the relay is over or its
\* pump waits for the peer before.
LEMMA ComesToRest ==
  ASSUME NEW c \in Conns, NEW k \in 1..6
  PROVE  FairSpec /\ []GuardsSuffice => OneLess(c, k)
<1> DEFINE Before == Dying(c, k) /\ ~Dying(c, k - 1)
           After  == Dying(c, k - 1) \/ ~Running(c) \/ InWrite(c)
<1>1. ServerInv /\ Before /\ [Next]_vars => Before' \/ After'
  <2> SUFFICES ASSUME ServerInv, Before, [Next]_vars
               PROVE  Dying(c, k)' \/ ~Running(c)' \/ InWrite(c)'
    OBVIOUS
  <2> QED
    BY DyingKept
<1>2. ASSUME Before PROVE Dying(c, k) /\ Running(c) /\ Rest(c) = k
  BY <1>2, RestType DEF Dying
<1>3. ASSUME ServerInv, Before, Rest(c)' < Rest(c),
             Dying(c, k)' \/ ~Running(c)' \/ InWrite(c)'
      PROVE  After'
  <2>1. Rest(c) = k
    BY <1>2, <1>3
  <2>2. Rest(c)' <= k - 1
    BY <1>3, <2>1, RestType
  <2> QED
    BY <1>3, <2>2 DEF Dying
<1>4. RelaysAreFair => FairTo(c)
  BY DEF RelaysAreFair
<1>5. CASE k \in 4..6
  <2>1. ServerInv /\ Before /\ [Next]_vars /\ <<OutActs(c)>>_vars => After'
    <3> SUFFICES ASSUME ServerInv, Before, [Next]_vars, OutPump(c) PROVE After'
      BY DEF OutActs, OutPump, OutNext
    <3>1. Rest(c)' < Rest(c)
      BY <1>2, <1>5, RelayCanMove, OutCloser DEF Dying
    <3> QED
      BY <1>2, <1>3, <3>1, DyingKept
  <2>2. ServerInv /\ GuardsSuffice /\ Before => (ENABLED <<OutActs(c)>>_vars) \/ ~Alive
    BY <1>2, <1>5, RelayCanMove DEF GuardsSuffice
  <2> QED
    BY <1>1, <1>4, <2>1, <2>2, ServerInvariant, PTL DEF FairSpec, Fairness, FairTo, Spec, OneLess
<1>6. CASE k \in 1..3
  <2>1. ServerInv /\ Before /\ [Next]_vars /\ <<MainActs(c)>>_vars => After'
    <3> SUFFICES ASSUME ServerInv, Before, [Next]_vars, RelayMain(c) \/ SendDone(c) PROVE After'
      BY DEF MainActs
    <3>1. Rest(c)' < Rest(c)
      BY <1>2, MainRests
    <3> QED
      BY <1>2, <1>3, <3>1, DyingKept
  <2>2. ServerInv /\ GuardsSuffice /\ Before => (ENABLED <<MainActs(c)>>_vars) \/ ~Alive
    BY <1>2, <1>6, RelayCanMove DEF GuardsSuffice
  <2> QED
    BY <1>1, <1>4, <2>1, <2>2, ServerInvariant, PTL DEF FairSpec, Fairness, FairTo, Spec, OneLess
<1> QED
  BY <1>5, <1>6

DiesWithTun(c) ==
  (tunClosed[TunOf[c]] /\ Running(c) /\ out[c] # "inRead")
    ~> ~Running(c) \/ InWrite(c) \/ ~Alive

LEMMA EachDiesWithTun ==
  ASSUME NEW c \in Conns
  PROVE  FairSpec /\ []GuardsSuffice => DiesWithTun(c)
<1>1. FairSpec /\ []GuardsSuffice
        => /\ OneLess(c, 6) /\ OneLess(c, 5) /\ OneLess(c, 4)
           /\ OneLess(c, 3) /\ OneLess(c, 2) /\ OneLess(c, 1)
  BY ComesToRest
<1>2. /\ Dying(c, 6 - 1) => Dying(c, 5)
      /\ Dying(c, 5 - 1) => Dying(c, 4)
      /\ Dying(c, 4 - 1) => Dying(c, 3)
      /\ Dying(c, 3 - 1) => Dying(c, 2)
      /\ Dying(c, 2 - 1) => Dying(c, 1)
  BY DEF Dying
<1>3. tunClosed[TunOf[c]] /\ Running(c) /\ out[c] # "inRead" => Dying(c, 6) \/ InWrite(c)
  BY RestType DEF Dying, InWrite
<1>4. ServerInv /\ Dying(c, 1 - 1) => ~Running(c)
  <2> SUFFICES ASSUME ServerInv, Dying(c, 1 - 1) PROVE ~Running(c)
    OBVIOUS
  <2>1. Rest(c) = 0
    BY RestType DEF Dying
  <2>2. OutSteps(c) \in 0..3
    BY DEF OutSteps
  <2>3. rpc[c] \in MainStates
    BY DEF ServerInv, LeaseInv, TypeOK, RelayTypeOK
  <2> QED
    BY <2>1, <2>2, <2>3 DEF Rest, Running, MainStates
<1> QED
  BY <1>1, <1>2, <1>3, <1>4, ServerInvariant, PTL DEF OneLess, FairSpec, DiesWithTun

\* DeadTunEndsRelay, for every set of connections: the error of the Read that
\* fails on the closed TUN reaches RelayLoop's receive, and the deferred closes
\* follow (relay.go:20-62), unless the pump is held by a packet it has already
\* read, which a peer that does not read lets it not write (relay.go:34).
THEOREM RelaysOnDeadTunEnd == FairSpec /\ []GuardsSuffice => DeadTunEndsRelay
  BY EachDiesWithTun DEF DeadTunEndsRelay, DiesWithTun, InWrite
-----------------------------------------------------------------------------
(* Relays whose peer is gone, and the handlers that wait for them.         *)

\* A relay on the server whose client can no longer be read ends: the pump
\* remote -> TUN gets the error, or the end of the client's stream, and its
\* report starts the deferred closes (relay.go:14-18, 46-49).  This needs
\* neither a packet from the TUN nor the kick of another client.
LostPeerEndsRelay ==
  \A c \in Conns : Running(c) /\ ~Readable(c) ~> ~Running(c) \/ ~Alive

\* A connection that its handler has accepted is never up again once it is not.
LEMMA LinkStaysDown ==
  ASSUME TypeOK, NEW c \in Conns, hpc[c] # "none", ~Readable(c), [Next]_vars
  PROVE  ~Readable(c)'
<1> USE DEF TypeOK, RelayTypeOK, Readable
<1>1. CASE UNCHANGED link
  BY <1>1
<1>2. ASSUME NEW d \in Conns,
             Accept(d) \/ Hello(d) \/ ClientFinishes(d) \/ ClientLost(d) \/ HandlerStep(d)
      PROVE  ~Readable(c)'
  <2>1. CASE Accept(d)
    BY <2>1 DEF Accept
  <2>2. CASE Hello(d) \/ ClientFinishes(d) \/ ClientLost(d)
    BY <2>2 DEF Hello, ClientFinishes, PeerFinishes, ClientLost, PeerLost, relayVars
  <2>3. CASE HandlerStep(d)
    BY <2>3 DEF HandlerStep, AcceptFails, RejectRequest, Kick, SpawnRelay, StartRelay, SelectDone,
       SelectCancelled, Cleanup, relayVars, linkVars
  <2> QED
    BY <1>2, <2>1, <2>2, <2>3
<1>3. ASSUME NEW d \in Conns, OutPump(d) \/ InnPump(d) PROVE UNCHANGED link
  BY <1>3, OutType, InnType DEF OutPump, InnPump
<1>4. ASSUME NEW d \in Conns, RelayMain(d) \/ SendDone(d) PROVE ~Readable(c)'
  BY <1>4 DEF RelayMain, MainStep, ReceiveError, CloseTun, CloseRemote, SendDone, linkVars
<1>5. CASE (\E l \in Listeners : ListenerFails(l) \/ ListenerStops(l)) \/ Signal \/ Exit
  BY <1>1, <1>5 DEF ListenerFails, ListenerStops, ListenerStopped, Signal, Exit, relayVars, linkVars
<1>6. CASE UNCHANGED vars
  BY <1>1, <1>6 DEF vars, relayVars
<1> QED
  BY <1>1, <1>2, <1>3, <1>4, <1>5, <1>6 DEF Next

LEMMA StarvedKept ==
  ASSUME ServerInv, NEW c \in Conns, NEW k \in Nat, Starved(c, k), [Next]_vars
  PROVE  Starved(c, k)' \/ ~Running(c)'
<1>1. TypeOK /\ RelayTypeOK /\ ~Readable(c) /\ Running(c)
  BY DEF ServerInv, LeaseInv, TypeOK, Starved
<1>2. ToReturn(c) \in 0..6 /\ ToReturn(c)' \in 0..6
  BY ToReturnType
<1>3. ~Readable(c)'
  <2>1. hpc[c] # "none"
    BY <1>1 DEF ServerInv, ReleaseInv, Running
  <2> QED
    BY <1>1, <2>1, LinkStaysDown
<1>4. ASSUME ToReturn(c)' <= ToReturn(c) PROVE Starved(c, k)' \/ ~Running(c)'
  BY <1>2, <1>3, <1>4 DEF Starved
<1>5. ASSUME rpc'[c] = rpc[c], inn'[c] = inn[c] PROVE ToReturn(c)' <= ToReturn(c)
  BY <1>2, <1>5, ToReturnFrame
<1>6. ASSUME NEW d \in Conns \ {c},
             \/ Accept(d) \/ Hello(d) \/ ClientFinishes(d) \/ ClientLost(d)
             \/ HandlerStep(d) \/ SendDone(d)
             \/ OutPump(d) \/ InnPump(d) \/ RelayMain(d)
      PROVE  Starved(c, k)' \/ ~Running(c)'
  BY <1>1, <1>4, <1>5, <1>6, OthersKeepTheirPlace
<1>7. ASSUME \/ Accept(c) \/ Hello(c) \/ ClientFinishes(c) \/ ClientLost(c)
             \/ HandlerStep(c) \/ OutPump(c)
      PROVE  Starved(c, k)' \/ ~Running(c)'
  <2>1. ~SpawnRelay(c)
    BY <1>1 DEF SpawnRelay, StartRelay, Running
  <2>2. OutPump(c) => UNCHANGED <<rpc, inn>>
    BY <1>1, OutType DEF OutPump
  <2> QED
    BY <1>4, <1>5, <1>7, <2>1, <2>2, OthersLeaveRelay DEF HandlerStep
<1>8. InnPump(c) => Starved(c, k)' \/ ~Running(c)'
  BY <1>1, <1>4, InnReturns DEF InnPump
<1>9. RelayMain(c) => Starved(c, k)' \/ ~Running(c)'
  BY <1>1, <1>2, <1>4, MainReturns DEF RelayMain
<1>10. ~SendDone(c)
  BY <1>1 DEF SendDone, Running
<1>11. CASE UNCHANGED vars
  BY <1>4, <1>5, <1>11 DEF vars, relayVars
<1>12. CASE (\E l \in Listeners : ListenerFails(l) \/ ListenerStops(l)) \/ Signal \/ Exit
  BY <1>4, <1>5, <1>12, ProcessLeavesRelay
<1>13. ASSUME NEW d \in Conns,
              \/ Accept(d) \/ Hello(d) \/ ClientFinishes(d) \/ ClientLost(d)
              \/ HandlerStep(d) \/ SendDone(d)
              \/ OutPump(d) \/ InnPump(d) \/ RelayMain(d)
       PROVE  Starved(c, k)' \/ ~Running(c)'
  <2>1. CASE d = c
    BY <1>7, <1>8, <1>9, <1>10, <1>13, <2>1
  <2>2. CASE d # c
    BY <1>6, <1>13, <2>2
  <2> QED
    BY <2>1, <2>2
<1> QED
  BY <1>11, <1>12, <1>13 DEF Next

OneNearer(c, k) == Starved(c, k) ~> Starved(c, k - 1) \/ ~Running(c) \/ ~Alive

LEMMA ComesNearer ==
  ASSUME NEW c \in Conns, NEW k \in 1..6
  PROVE  FairSpec /\ []GuardsSuffice => OneNearer(c, k)
<1> DEFINE Before == Starved(c, k) /\ ~Starved(c, k - 1)
           After  == Starved(c, k - 1) \/ ~Running(c)
<1>1. ServerInv /\ Before /\ [Next]_vars => Before' \/ After'
  <2> SUFFICES ASSUME ServerInv, Before, [Next]_vars PROVE Starved(c, k)' \/ ~Running(c)'
    OBVIOUS
  <2> QED
    BY StarvedKept
<1>2. ASSUME Before PROVE Starved(c, k) /\ ToReturn(c) = k
  BY <1>2, ToReturnType DEF Starved
<1>3. ASSUME ServerInv, Before, ToReturn(c)' < ToReturn(c), Starved(c, k)' \/ ~Running(c)'
      PROVE  After'
  <2>1. ToReturn(c) = k
    BY <1>2, <1>3
  <2>2. ToReturn(c)' <= k - 1
    BY <1>3, <2>1, ToReturnType
  <2> QED
    BY <1>3, <2>2 DEF Starved
<1>4. RelaysAreFair => FairTo(c)
  BY DEF RelaysAreFair
<1>5. ASSUME ServerInv, Before
      PROVE  /\ k \in 4..6 => rpc[c] = "wait" /\ InnCan(c)
             /\ k \in 1..3 => MainCan(c)
  <2>1. inn[c] # "none"
    BY <1>5 DEF ServerInv, Winding, Starved, Running
  <2> QED
    BY <1>2, <1>5, <2>1, StarvedCanMove DEF MainCan, ServerInv, LeaseInv, TypeOK
<1>6. CASE k \in 4..6
  <2>1. ServerInv /\ Before /\ [Next]_vars /\ <<InnActs(c)>>_vars => After'
    <3> SUFFICES ASSUME ServerInv, Before, [Next]_vars, InnNext(c) PROVE After'
      BY DEF InnActs, InnNext
    <3>1. ToReturn(c)' < ToReturn(c)
      BY <1>5, <1>6, InnReturns DEF Starved, ServerInv, LeaseInv, TypeOK
    <3> QED
      BY <1>2, <1>3, <3>1, StarvedKept
  <2>2. ServerInv /\ GuardsSuffice /\ Before => (ENABLED <<InnActs(c)>>_vars) \/ ~Alive
    BY <1>5, <1>6 DEF GuardsSuffice
  <2> QED
    BY <1>1, <1>4, <2>1, <2>2, ServerInvariant, PTL
    DEF FairSpec, Fairness, FairTo, Spec, OneNearer
<1>7. CASE k \in 1..3
  <2>1. ServerInv /\ Before /\ [Next]_vars /\ <<MainActs(c)>>_vars => After'
    <3> SUFFICES ASSUME ServerInv, Before, [Next]_vars, MainStep(c) \/ SendDone(c) PROVE After'
      BY DEF MainActs, RelayMain
    <3>1. ToReturn(c)' < ToReturn(c)
      BY MainReturns DEF SendDone, Starved, Running, ServerInv, LeaseInv, TypeOK
    <3> QED
      BY <1>2, <1>3, <3>1, StarvedKept
  <2>2. ServerInv /\ GuardsSuffice /\ Before => (ENABLED <<MainActs(c)>>_vars) \/ ~Alive
    BY <1>5, <1>7 DEF GuardsSuffice
  <2> QED
    BY <1>1, <1>4, <2>1, <2>2, ServerInvariant, PTL
    DEF FairSpec, Fairness, FairTo, Spec, OneNearer
<1> QED
  BY <1>6, <1>7

EndsWithPeer(c) == Running(c) /\ ~Readable(c) ~> ~Running(c) \/ ~Alive

LEMMA EachEndsWithPeer ==
  ASSUME NEW c \in Conns
  PROVE  FairSpec /\ []GuardsSuffice => EndsWithPeer(c)
<1>1. FairSpec /\ []GuardsSuffice
        => /\ OneNearer(c, 6) /\ OneNearer(c, 5) /\ OneNearer(c, 4)
           /\ OneNearer(c, 3) /\ OneNearer(c, 2) /\ OneNearer(c, 1)
  BY ComesNearer
<1>2. /\ Starved(c, 6 - 1) => Starved(c, 5)
      /\ Starved(c, 5 - 1) => Starved(c, 4)
      /\ Starved(c, 4 - 1) => Starved(c, 3)
      /\ Starved(c, 3 - 1) => Starved(c, 2)
      /\ Starved(c, 2 - 1) => Starved(c, 1)
  BY DEF Starved
<1>3. Running(c) /\ ~Readable(c) => Starved(c, 6)
  BY ToReturnType DEF Starved
<1>4. ServerInv /\ Starved(c, 1 - 1) => ~Running(c)
  BY StarvedIsOver DEF ServerInv, LeaseInv, TypeOK
<1> QED
  BY <1>1, <1>2, <1>3, <1>4, ServerInvariant, PTL DEF OneNearer, FairSpec, EndsWithPeer

\* The loss of its client ends a relay, for every set of connections, although
\* the pump TUN -> remote may stay inside its Read for ever (relay.go:42-62).
THEOREM LostPeersEndRelays == FairSpec /\ []GuardsSuffice => LostPeerEndsRelay
  BY EachEndsWithPeer DEF LostPeerEndsRelay, EndsWithPeer
-----------------------------------------------------------------------------
(* The handlers.                                                           *)

\* A handler that still waits on done finds there the result of the relay that
\* sent it: nobody else receives from the channel (quic.go:71-76).
ResultWaits == \A c \in Conns :
  hpc[c] = "select" /\ rpc[c] = "done" => doneChan[c] > 0

LEMMA ResultWaitsStep == ServerInv /\ ResultWaits /\ [Next]_vars => ResultWaits'
<1> SUFFICES ASSUME ServerInv, ResultWaits, [Next]_vars PROVE ResultWaits'
  OBVIOUS
<1> USE DEF ServerInv, LeaseInv, TypeOK, RelayTypeOK, ResultWaits
<1>1. CASE UNCHANGED <<hpc, rpc, doneChan>>
  BY <1>1
<1>2. ASSUME NEW c \in Conns, OutPump(c) \/ InnPump(c) PROVE ResultWaits'
  BY <1>1, <1>2, PumpsLeaveRelease
<1>3. ASSUME NEW c \in Conns, RelayMain(c) PROVE ResultWaits'
  BY <1>3 DEF RelayMain, MainStep, MainGoes, ReceiveError, CloseTun, CloseRemote, serverVars
<1>4. ASSUME NEW c \in Conns, SendDone(c) PROVE ResultWaits'
  BY <1>4 DEF SendDone
<1>5. ASSUME NEW c \in Conns, SpawnRelay(c) PROVE ResultWaits'
  BY <1>5 DEF SpawnRelay, StartRelay, HandlerGoes
<1>6. ASSUME NEW c \in Conns,
             \/ AcceptFails(c) \/ RejectRequest(c) \/ Kick(c)
             \/ SelectDone(c) \/ SelectCancelled(c) \/ Cleanup(c)
      PROVE  ResultWaits'
  BY <1>6 DEF AcceptFails, RejectRequest, Kick, SelectDone, SelectCancelled, Cleanup,
     HandlerGoes, relayVars, handlerVars
<1>7. ASSUME NEW c \in Conns, Accept(c) \/ Hello(c) \/ ClientFinishes(c) \/ ClientLost(c)
      PROVE  ResultWaits'
  BY <1>7 DEF Accept, Hello, ClientFinishes, PeerFinishes, ClientLost, PeerLost, relayVars,
     handlerVars, serverVars
<1>8. CASE (\E l \in Listeners : ListenerFails(l) \/ ListenerStops(l)) \/ Signal \/ Exit
  BY <1>1, <1>8, ProcessLeavesRelease
<1>9. CASE UNCHANGED vars
  BY <1>1, <1>9 DEF vars, relayVars, serverVars
<1> QED
  BY <1>2, <1>3, <1>4, <1>5, <1>6, <1>7, <1>8, <1>9 DEF Next, HandlerStep

\* No result is lost between RelayLoop and its handler, for every set of
\* connections: the select of quic.go:73-80 cannot wait for one in vain.
THEOREM NoResultLost == Spec => []ResultWaits
<1>1. Init => ResultWaits
  BY DEF Init, ResultWaits
<1> QED
  BY <1>1, ResultWaitsStep, ServerInvariant, PTL DEF Spec

\* Everything of a connection is at rest only where somebody else must act, for
\* every set of connections: what a goroutine of relay.go or a handler waits for
\* is never a step that another goroutine of this server has left out.
THEOREM NobodyHeldUp == Spec => []NoneHeldUp
<1>1. ServerInv /\ ResultWaits => NoneHeldUp
  <2> SUFFICES ASSUME ServerInv, ResultWaits, NEW c \in Conns, AtRest(c),
                      hpc[c] \notin {"none", "accept"}
               PROVE  \/ /\ hpc[c] = "select" /\ ~RelayCtxDone(c) /\ link[c] = "up"
                         /\ rpc[c] = "wait" /\ inn[c] = "remoteRead"
                         /\ out[c] \in {"tunRead", "inRead", "inWrite"}
                      \/ hpc[c] = "end" /\ rpc[c] \in {"none", "done"}
    BY DEF NoneHeldUp
  <2>1. TypeOK /\ RelayTypeOK /\ ErrcHasRoom
    BY CountsLeaveRoom DEF ServerInv, LeaseInv, TypeOK
  <2>2. rpc[c] \in {"none", "wait", "done"}
    BY <2>1 DEF ServerInv, ReleaseInv, AtRest, MainCan, LoopCan, DoneHasRoom, RelayTypeOK,
       MainStates, TypeOK
  <2>3. hpc[c] \in {"select", "end"}
    BY <2>1 DEF AtRest, HandlerCan, ServerInv, Winding, TypeOK, HandlerStates
  <2>4. ASSUME rpc[c] = "wait"
        PROVE  /\ inn[c] = "remoteRead" /\ link[c] = "up"
               /\ out[c] \in {"tunRead", "inRead", "inWrite"}
    <3>1. errc[c] = 0
      BY <2>1, <2>4 DEF AtRest, MainCan, LoopCan, RelayTypeOK
    <3>2. Reported(c) = 0
      BY <2>4, <3>1 DEF ServerInv, ErrcCounts, Received
    <3>3. out[c] \notin {"none", "dead"} /\ inn[c] \notin {"none", "dead"}
      BY <2>4, <3>2 DEF Reported, ServerInv, Winding
    <3> QED
      BY <2>1, <3>1, <3>3
      DEF AtRest, OutCan, InnCan, Readable, ErrcCapacity, RelayTypeOK, OutStates, InnStates
  <2>5. CASE hpc[c] = "select"
    <3>1. ~RelayCtxDone(c) /\ ~(doneChan[c] > 0)
      BY <2>5 DEF AtRest, HandlerCan
    <3>2. rpc[c] = "wait"
      BY <2>2, <2>5, <3>1 DEF ResultWaits, ServerInv, Winding
    <3> QED
      BY <2>4, <2>5, <3>1, <3>2
  <2>6. CASE hpc[c] = "end"
    BY <2>2, <2>4, <2>6 DEF ServerInv, Winding
  <2> QED
    BY <2>3, <2>5, <2>6
<1> QED
  BY <1>1, ServerInvariant, NoResultLost, PTL

\* From Kick on: the handler holds a generation, or it has given it back.
Kicked(c) == Holding(c) \/ hpc[c] = "end"
Over(c) == rpc[c] \in {"returned", "done"}

LEMMA PlacesKept ==
  ASSUME ServerInv, NEW c \in Conns, [Next]_vars
  PROVE  /\ Kicked(c) => Kicked(c)'
         /\ Over(c) => Over(c)'
         /\ Kicked(c) => hpc'[c] = hpc[c] \/ HandlerStep(c)
         /\ rpc'[c] = rpc[c] \/ SpawnRelay(c) \/ RelayMain(c) \/ SendDone(c)
<1> USE DEF ServerInv, LeaseInv, TypeOK, RelayTypeOK, Kicked, Holding, Over
<1>1. CASE hpc'[c] = hpc[c] /\ rpc'[c] = rpc[c]
  BY <1>1
<1>2. ASSUME NEW d \in Conns \ {c},
             \/ Accept(d) \/ Hello(d) \/ ClientFinishes(d) \/ ClientLost(d)
             \/ HandlerStep(d) \/ SendDone(d)
             \/ OutPump(d) \/ InnPump(d) \/ RelayMain(d)
      PROVE  hpc'[c] = hpc[c] /\ rpc'[c] = rpc[c]
  BY <1>2, OthersKeepTheirPlace
<1>3. ASSUME OutPump(c) \/ InnPump(c) PROVE hpc'[c] = hpc[c] /\ rpc'[c] = rpc[c]
  BY <1>3, PumpsLeaveRelease
<1>4. ASSUME RelayMain(c) \/ SendDone(c) PROVE hpc'[c] = hpc[c] /\ (Over(c) => Over(c)')
  BY <1>4 DEF RelayMain, MainStep, MainGoes, ReceiveError, CloseTun, CloseRemote, SendDone,
     serverVars
<1>5. ASSUME Hello(c) \/ ClientFinishes(c) \/ ClientLost(c)
      PROVE  hpc'[c] = hpc[c] /\ rpc'[c] = rpc[c]
  BY <1>5 DEF Hello, ClientFinishes, PeerFinishes, ClientLost, PeerLost, relayVars, handlerVars,
     serverVars
<1>6. ASSUME Accept(c) PROVE ~Kicked(c) /\ rpc'[c] = rpc[c]
  BY <1>6 DEF Accept
<1>7. ASSUME HandlerStep(c)
      PROVE  /\ Kicked(c) => Kicked(c)'
             /\ rpc'[c] = rpc[c] \/ SpawnRelay(c)
             /\ Over(c) => Over(c)'
  BY <1>7 DEF HandlerStep, AcceptFails, RejectRequest, Kick, SpawnRelay, StartRelay, SelectDone,
     SelectCancelled, Cleanup, HandlerGoes, relayVars
<1>8. CASE (\E l \in Listeners : ListenerFails(l) \/ ListenerStops(l)) \/ Signal \/ Exit
  BY <1>1, <1>8, ProcessLeavesRelease
<1>9. CASE UNCHANGED vars
  BY <1>1, <1>9 DEF vars, relayVars, serverVars
<1>10. ASSUME NEW d \in Conns,
              \/ Accept(d) \/ Hello(d) \/ ClientFinishes(d) \/ ClientLost(d)
              \/ HandlerStep(d) \/ SendDone(d)
              \/ OutPump(d) \/ InnPump(d) \/ RelayMain(d)
       PROVE  \/ hpc'[c] = hpc[c] /\ rpc'[c] = rpc[c]
              \/ HandlerStep(c) \/ Accept(c) \/ RelayMain(c) \/ SendDone(c)
  <2>1. CASE d = c
    BY <1>3, <1>5, <1>10, <2>1
  <2>2. CASE d # c
    BY <1>2, <1>10, <2>2
  <2> QED
    BY <2>1, <2>2
<1>11. \/ hpc'[c] = hpc[c] /\ rpc'[c] = rpc[c]
       \/ HandlerStep(c) \/ Accept(c) \/ RelayMain(c) \/ SendDone(c)
  BY <1>8, <1>9, <1>10, ProcessLeavesRelease DEF Next, vars, relayVars, serverVars
<1> QED
  BY <1>1, <1>4, <1>6, <1>7, <1>11

\* The last steps of a handler whose relay has returned.
AtSend(c)   == hpc[c] = "select" /\ rpc[c] = "returned"
AtResult(c) == hpc[c] = "select" /\ rpc[c] = "done"
AtClose(c)  == hpc[c] = "cleanup"

LEMMA HandlerStepsOn ==
  ASSUME ServerInv, NEW c \in Conns, HandlerStep(c)
  PROVE  /\ hpc[c] # "end"
         /\ hpc[c] = "start" => SpawnRelay(c) /\ hpc'[c] = "select"
         /\ hpc[c] = "select" => hpc'[c] = "cleanup"
         /\ hpc[c] = "cleanup" => hpc'[c] = "end"
  BY DEF ServerInv, LeaseInv, TypeOK, HandlerStep, AcceptFails, RejectRequest, Kick, SpawnRelay,
     SelectDone, SelectCancelled, Cleanup, HandlerGoes

LEMMA LastStepsKept ==
  ASSUME ServerInv, NEW c \in Conns, [Next]_vars
  PROVE  /\ AtSend(c) => (AtSend(c) \/ AtResult(c) \/ AtClose(c))'
         /\ AtResult(c) => (AtResult(c) \/ AtClose(c))'
         /\ AtClose(c) => (AtClose(c) \/ hpc[c] = "end")'
<1>1. rpc[c] \in {"returned", "done"} => rpc'[c] \in {"returned", "done"}
  BY PlacesKept DEF Over
<1>2. rpc[c] = "done" => rpc'[c] = "done"
  BY PlacesKept DEF SpawnRelay, StartRelay, RelayMain, MainStep, MainGoes, ReceiveError, CloseTun,
     CloseRemote, SendDone
<1>3. hpc[c] \in {"select", "cleanup"} => hpc'[c] = hpc[c] \/ HandlerStep(c)
  BY PlacesKept DEF Kicked, Holding
<1> QED
  BY <1>1, <1>2, <1>3, HandlerStepsOn DEF AtSend, AtResult, AtClose

HandlerFollows(c) == Holding(c) /\ Over(c) ~> hpc[c] = "end" \/ ~Alive

\* A handler whose relay has returned ends, unless main ends the process first.
LEMMA EachHandlerFollows ==
  ASSUME NEW c \in Conns
  PROVE  FairSpec /\ []GuardsSuffice => HandlerFollows(c)
<1>1. ServerInv /\ Holding(c) /\ Over(c) => AtSend(c) \/ AtResult(c) \/ AtClose(c)
  BY DEF ServerInv, Winding, Holding, Over, AtSend, AtResult, AtClose
<1>2. ServerInv /\ [Next]_vars
        => /\ AtSend(c) => (AtSend(c) \/ AtResult(c) \/ AtClose(c))'
           /\ AtResult(c) => (AtResult(c) \/ AtClose(c))'
           /\ AtClose(c) => (AtClose(c) \/ hpc[c] = "end")'
  BY LastStepsKept
<1>3. ServerInv /\ AtSend(c) /\ <<MainActs(c)>>_vars => AtResult(c)'
  BY DEF ServerInv, LeaseInv, TypeOK, RelayTypeOK, AtSend, AtResult, MainActs, RelayMain, MainStep,
     MainGoes, ReceiveError, CloseTun, CloseRemote, SendDone
<1>4. ServerInv /\ GuardsSuffice /\ AtSend(c) => (ENABLED <<MainActs(c)>>_vars) \/ ~Alive
  <2>1. ServerInv /\ AtSend(c) => MainCan(c)
    BY DEF ServerInv, LeaseInv, TypeOK, ReleaseInv, AtSend, MainCan, DoneHasRoom
  <2> QED
    BY <2>1 DEF GuardsSuffice
<1>5. ServerInv /\ <<HandlerActs(c)>>_vars
        => (AtResult(c) => AtClose(c)') /\ (AtClose(c) => (hpc[c] = "end")')
  BY HandlerStepsOn DEF HandlerActs, AtResult, AtClose
<1>6. ResultWaits /\ GuardsSuffice /\ (AtResult(c) \/ AtClose(c))
        => (ENABLED <<HandlerActs(c)>>_vars) \/ ~Alive
  <2>1. ResultWaits /\ (AtResult(c) \/ AtClose(c)) => HandlerCan(c)
    BY DEF ResultWaits, AtResult, AtClose, HandlerCan
  <2> QED
    BY <2>1 DEF GuardsSuffice
<1>7. RelaysAreFair => FairTo(c)
  BY DEF RelaysAreFair
<1> QED
  BY <1>1, <1>2, <1>3, <1>4, <1>5, <1>6, <1>7, ServerInvariant, NoResultLost, PTL
  DEF FairSpec, Fairness, FairTo, Spec, HandlerFollows

\* The handler has started its relay.
Begun(c) == hpc[c] = "select" /\ Running(c) /\ out[c] # "inRead"
Starts(c) == hpc[c] = "start" ~> Begun(c) \/ ~Alive
Beyond(c) == hpc[c] \in {"select", "cleanup", "end"}

LEMMA SpawnBegins ==
  ASSUME ServerInv, NEW c \in Conns, hpc[c] = "start", HandlerStep(c)
  PROVE  Begun(c)'
<1>1. SpawnRelay(c) /\ hpc'[c] = "select"
  BY HandlerStepsOn
<1> QED
  BY <1>1 DEF SpawnRelay, StartRelay, Begun, Running, ServerInv, LeaseInv, TypeOK, RelayTypeOK

LEMMA EachStarts ==
  ASSUME NEW c \in Conns
  PROVE  FairSpec /\ []GuardsSuffice => Starts(c)
<1>1. ServerInv /\ hpc[c] = "start" /\ [Next]_vars => (hpc[c] = "start" \/ Begun(c))'
  <2> SUFFICES ASSUME ServerInv, hpc[c] = "start", [Next]_vars
               PROVE  (hpc[c] = "start" \/ Begun(c))'
    OBVIOUS
  <2>1. hpc'[c] = "start" \/ HandlerStep(c)
    BY PlacesKept DEF Kicked, Holding
  <2> QED
    BY <2>1, SpawnBegins
<1>2. ServerInv /\ hpc[c] = "start" /\ <<HandlerActs(c)>>_vars => Begun(c)'
  BY SpawnBegins DEF HandlerActs
<1>3. ServerInv /\ GuardsSuffice /\ hpc[c] = "start" => (ENABLED <<HandlerActs(c)>>_vars) \/ ~Alive
  <2>1. ServerInv /\ hpc[c] = "start" => HandlerCan(c)
    BY DEF ServerInv, Winding, HandlerCan
  <2> QED
    BY <2>1 DEF GuardsSuffice
<1>4. RelaysAreFair => FairTo(c)
  BY DEF RelaysAreFair
<1> QED
  BY <1>1, <1>2, <1>3, <1>4, ServerInvariant, PTL DEF FairSpec, Fairness, FairTo, Spec, Starts

\* What does not change back: a kick, the start of the relay, a dead connection
\* and a closed TUN.
LEMMA NothingGoesBack ==
  ASSUME ServerInv, NEW c \in Conns, [Next]_vars
  PROVE  /\ Kicked(c) => Kicked(c)'
         /\ Beyond(c) => Beyond(c)'
         /\ Kicked(c) /\ ~Readable(c) => ~Readable(c)'
         /\ tunClosed[TunOf[c]] => (tunClosed[TunOf[c]])'
<1>1. TypeOK
  BY DEF ServerInv, LeaseInv
<1>2. Kicked(c) => Kicked(c)'
  BY PlacesKept
<1>3. Beyond(c) => Beyond(c)'
  <2>1. Beyond(c) => hpc'[c] = hpc[c] \/ HandlerStep(c)
    BY PlacesKept DEF Kicked, Holding, Beyond
  <2> QED
    BY <2>1, HandlerStepsOn DEF Beyond
<1>4. Kicked(c) /\ ~Readable(c) => ~Readable(c)'
  BY <1>1, LinkStaysDown DEF Kicked, Holding
<1>5. tunClosed[TunOf[c]] => tunClosed'[TunOf[c]]
  BY <1>1, ClosedStaysClosed
<1> QED
  BY <1>2, <1>3, <1>4, <1>5

LEMMA BeyondMeans ==
  ASSUME ServerInv, NEW c \in Conns, Beyond(c)
  PROVE  hpc[c] = "end" \/ (Holding(c) /\ (Running(c) \/ Over(c)))
  BY DEF ServerInv, Winding, Beyond, Holding, Running, Over

\* A server that has lost its client lets go of it: the relay returns and the
\* handler gives the listener's tunnel back (quic.go:71-88, fallback.go:95-114),
\* although no other client comes to kick it off.
LostClientLetsGo ==
  \A c \in Conns : Holding(c) /\ ~Readable(c) ~> hpc[c] = "end" \/ ~Alive

LetsGo(c) == Holding(c) /\ ~Readable(c) ~> hpc[c] = "end" \/ ~Alive

LEMMA EachLetsGo ==
  ASSUME NEW c \in Conns
  PROVE  FairSpec /\ []GuardsSuffice => LetsGo(c)
<1>1. ServerInv /\ [Next]_vars
        => /\ Kicked(c) => Kicked(c)'
           /\ Beyond(c) => Beyond(c)'
           /\ Kicked(c) /\ ~Readable(c) => ~Readable(c)'
  BY NothingGoesBack
<1>2. ServerInv /\ Beyond(c) => hpc[c] = "end" \/ (Holding(c) /\ (Running(c) \/ Over(c)))
  BY BeyondMeans
<1>3. Holding(c) => Kicked(c) /\ (hpc[c] = "start" \/ Beyond(c))
  BY DEF Holding, Kicked, Beyond
<1>4. Begun(c) => Beyond(c)
  BY DEF Begun, Beyond
<1> QED
  BY <1>1, <1>2, <1>3, <1>4, ServerInvariant, EachStarts, EachEndsWithPeer, EachHandlerFollows, PTL
  DEF LetsGo, Starts, EndsWithPeer, HandlerFollows, FairSpec, Spec

\* LostClientLetsGo, for every set of connections.
THEOREM LostClientsAreLetGo == FairSpec /\ []GuardsSuffice => LostClientLetsGo
  BY EachLetsGo DEF LostClientLetsGo, LetsGo

\* A client that reads, and whose TUN has been closed under it, is not kept
\* waiting: its relay ends and so does its handler, also when the handler had
\* not yet started the relay (relay.go:26-30, quic.go:71-88).  Excepted are a
\* pump inside a Read, which waits for a packet, and one that comes to wait for
\* the client to read (relay.go:34).  The finding about the takeover says that
\* this is what becomes of the second client.
DeadTunFrees ==
  \A c \in Conns :
    Holding(c) /\ tunClosed[TunOf[c]] /\ out[c] # "inRead"
      ~> hpc[c] = "end" \/ out[c] = "inWrite" \/ ~Alive

Frees(c) ==
  Holding(c) /\ tunClosed[TunOf[c]] /\ out[c] # "inRead"
    ~> hpc[c] = "end" \/ InWrite(c) \/ ~Alive

LEMMA EachFrees ==
  ASSUME NEW c \in Conns
  PROVE  FairSpec /\ []GuardsSuffice => Frees(c)
<1>1. ServerInv /\ [Next]_vars
        => /\ Beyond(c) => Beyond(c)'
           /\ tunClosed[TunOf[c]] => (tunClosed[TunOf[c]])'
  BY NothingGoesBack
<1>2. ServerInv /\ Beyond(c) => hpc[c] = "end" \/ (Holding(c) /\ (Running(c) \/ Over(c)))
  BY BeyondMeans
<1>3. Holding(c) => hpc[c] = "start" \/ Beyond(c)
  BY DEF Holding, Beyond
<1>4. Begun(c) => Beyond(c) /\ Running(c) /\ out[c] # "inRead"
  BY DEF Begun, Beyond
<1> QED
  BY <1>1, <1>2, <1>3, <1>4, ServerInvariant, EachStarts, EachDiesWithTun, EachHandlerFollows, PTL
  DEF Frees, Starts, DiesWithTun, HandlerFollows, FairSpec, Spec

\* DeadTunFrees, for every set of connections.
THEOREM DeadTunsFree == FairSpec /\ []GuardsSuffice => DeadTunFrees
  BY EachFrees DEF DeadTunFrees, Frees, InWrite

\* Two handlers of one listener do not go on side by side: the kick that the
\* later one gave ends the other, or one ends before (quic.go:60-89).
OverlapEnds ==
  \A c, d \in Conns :
    c # d /\ Home[c] = Home[d] /\ Holding(c) /\ Holding(d)
      ~> hpc[c] = "end" \/ hpc[d] = "end" \/ ~Alive

\* OverlapEnds, for every set of connections.
THEOREM OverlapsEnd == FairSpec /\ []GuardsSuffice => OverlapEnds
<1> SUFFICES
      ASSUME NEW c \in Conns, NEW d \in Conns
      PROVE  FairSpec /\ []GuardsSuffice
               => (c # d /\ Home[c] = Home[d] /\ Holding(c) /\ Holding(d)
                     ~> hpc[c] = "end" \/ hpc[d] = "end" \/ ~Alive)
  BY DEF OverlapEnds
<1>1. OneUncancelledRelay /\ c # d /\ Home[c] = Home[d] /\ Holding(c) /\ Holding(d)
        => cancelled[c] \/ cancelled[d]
  BY DEF OneUncancelledRelay
<1>2. FairSpec /\ []GuardsSuffice => WindsUp(c) /\ WindsUp(d)
  BY EachWindsUp
<1> QED
  BY <1>1, <1>2, OneRelayPerListener, PTL DEF WindsUp, FairSpec
=============================================================================
