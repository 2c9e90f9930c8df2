-------------------------- MODULE RelayLoopProofs ---------------------------
(***************************************************************************)
(* Facts about a relay that hold whoever starts it: what the steps of its  *)
(* goroutines preserve.  The proofs about RelayServer and TunnelEngine     *)
(* cite them.                                                              *)
(***************************************************************************)
EXTENDS RelayLoop, TLAPS

LEMMA RelayInitType == RelayInit => RelayTypeOK
  BY RelayAssumption
  DEF RelayInit, RelayTypeOK, LinkStates, MainStates, OutStates, InnStates

LEMMA OutType ==
  ASSUME RelayTypeOK, NEW c \in Conns, OutNext(c)
  PROVE  RelayTypeOK' /\ UNCHANGED <<tunClosed, link, sendClosed, rpc, inn>>
<1> USE RelayAssumption
    DEF RelayTypeOK, OutStates, OutGoes, tunVars, linkVars, ErrcCapacity
<1>1. CASE TunReadBegins(c)      BY <1>1 DEF TunReadBegins
<1>2. CASE TunReadFails(c)       BY <1>2 DEF TunReadFails
<1>3. CASE TunReadInterrupted(c) BY <1>3 DEF TunReadInterrupted
<1>4. CASE RemoteWriteOk(c)      BY <1>4 DEF RemoteWriteOk
<1>5. CASE RemoteWriteFails(c)   BY <1>5 DEF RemoteWriteFails
<1>6. CASE OutReports(c)         BY <1>6 DEF OutReports
<1>7. CASE TunReadReturns(c)     BY <1>7 DEF TunReadReturns
<1>8. CASE TunDeviceFails(c)     BY <1>8 DEF TunDeviceFails
<1>9. CASE RemoteWriteBlocks(c)  BY <1>9 DEF RemoteWriteBlocks
<1>10. CASE WriteGoesOn(c)       BY <1>10 DEF WriteGoesOn
<1>11. CASE WriteBroken(c)       BY <1>11 DEF WriteBroken
<1> QED
  BY <1>1, <1>2, <1>3, <1>4, <1>5, <1>6, <1>7, <1>8, <1>9, <1>10, <1>11
  DEF OutNext, OutStep

LEMMA InnType ==
  ASSUME RelayTypeOK, NEW c \in Conns, InnNext(c)
  PROVE  RelayTypeOK' /\ UNCHANGED <<tunVars, link, sendClosed, rpc, out>>
<1> USE DEF RelayTypeOK, InnStates, InnGoes, tunVars, linkVars, ErrcCapacity
<1>1. CASE RemoteReadOk(c)    BY <1>1 DEF RemoteReadOk
<1>2. CASE RemoteReadFails(c) BY <1>2 DEF RemoteReadFails
<1>3. CASE FrameTooLong(c)    BY <1>3 DEF FrameTooLong
<1>4. CASE TunWriteOk(c)      BY <1>4 DEF TunWriteOk
<1>5. CASE TunWriteFails(c)   BY <1>5 DEF TunWriteFails
<1>6. CASE TunWriteRefused(c) BY <1>6 DEF TunWriteRefused
<1>7. CASE InnReports(c)      BY <1>7 DEF InnReports
<1> QED
  BY <1>1, <1>2, <1>3, <1>4, <1>5, <1>6, <1>7 DEF InnNext, InnStep

LEMMA MainType ==
  ASSUME RelayTypeOK, NEW c \in Conns, MainStep(c)
  PROVE  RelayTypeOK'
<1> USE RelayAssumption
    DEF RelayTypeOK, MainStates, LinkStates, MainGoes, linkVars
<1>1. CASE ReceiveError(c) BY <1>1 DEF ReceiveError
<1>2. CASE CloseTun(c)     BY <1>2 DEF CloseTun
<1>3. CASE CloseRemote(c)  BY <1>3 DEF CloseRemote
<1> QED
  BY <1>1, <1>2, <1>3 DEF MainStep
-----------------------------------------------------------------------------
(* The error channel.                                                      *)

LEMMA CountsInit == RelayInit => ErrcCounts
<1> SUFFICES ASSUME RelayInit, NEW c \in Conns
             PROVE  /\ errc[c] + Received(c) = Reported(c)
                    /\ out[c] = "none" /\ inn[c] = "none"
  BY DEF ErrcCounts
<1>1. rpc[c] = "none" /\ out[c] = "none" /\ inn[c] = "none" /\ errc[c] = 0
  BY DEF RelayInit
<1> QED
  BY <1>1 DEF Reported, Received

LEMMA CountsOut ==
  ASSUME RelayTypeOK, ErrcCounts, NEW c \in Conns, OutNext(c)
  PROVE  ErrcCounts'
<1> USE DEF RelayTypeOK, ErrcCounts, Reported, Received, OutGoes, OutStates
<1>1. CASE OutReports(c)         BY <1>1 DEF OutReports
<1>2. CASE TunReadBegins(c)      BY <1>2 DEF TunReadBegins
<1>3. CASE TunReadFails(c)       BY <1>3 DEF TunReadFails
<1>4. CASE TunReadInterrupted(c) BY <1>4 DEF TunReadInterrupted
<1>5. CASE RemoteWriteOk(c)      BY <1>5 DEF RemoteWriteOk
<1>6. CASE RemoteWriteFails(c)   BY <1>6 DEF RemoteWriteFails
<1>7. CASE TunReadReturns(c)     BY <1>7 DEF TunReadReturns
<1>8. CASE TunDeviceFails(c)     BY <1>8 DEF TunDeviceFails
<1>9. CASE RemoteWriteBlocks(c)  BY <1>9 DEF RemoteWriteBlocks
<1>10. CASE WriteGoesOn(c)       BY <1>10 DEF WriteGoesOn
<1>11. CASE WriteBroken(c)       BY <1>11 DEF WriteBroken
<1> QED
  BY <1>1, <1>2, <1>3, <1>4, <1>5, <1>6, <1>7, <1>8, <1>9, <1>10, <1>11
  DEF OutNext, OutStep

LEMMA CountsInn ==
  ASSUME RelayTypeOK, ErrcCounts, NEW c \in Conns, InnNext(c)
  PROVE  ErrcCounts'
<1> USE DEF RelayTypeOK, ErrcCounts, Reported, Received, InnGoes, InnStates
<1>1. CASE InnReports(c)      BY <1>1 DEF InnReports
<1>2. CASE RemoteReadOk(c)    BY <1>2 DEF RemoteReadOk
<1>3. CASE RemoteReadFails(c) BY <1>3 DEF RemoteReadFails
<1>4. CASE FrameTooLong(c)    BY <1>4 DEF FrameTooLong
<1>5. CASE TunWriteOk(c)      BY <1>5 DEF TunWriteOk
<1>6. CASE TunWriteFails(c)   BY <1>6 DEF TunWriteFails
<1>7. CASE TunWriteRefused(c) BY <1>7 DEF TunWriteRefused
<1> QED
  BY <1>1, <1>2, <1>3, <1>4, <1>5, <1>6, <1>7 DEF InnNext, InnStep

LEMMA CountsMain ==
  ASSUME RelayTypeOK, ErrcCounts, NEW c \in Conns, MainStep(c)
  PROVE  ErrcCounts'
<1> USE DEF RelayTypeOK, ErrcCounts, Reported, Received, MainGoes, MainStates
<1>1. CASE ReceiveError(c) BY <1>1 DEF ReceiveError
<1>2. CASE CloseTun(c)     BY <1>2 DEF CloseTun
<1>3. CASE CloseRemote(c)  BY <1>3 DEF CloseRemote
<1> QED
  BY <1>1, <1>2, <1>3 DEF MainStep

\* The result of RelayLoop is taken: "done" counts as "returned" does.
LEMMA CountsDone ==
  ASSUME RelayTypeOK, ErrcCounts, NEW c \in Conns, rpc[c] = "returned",
         rpc' = [rpc EXCEPT ![c] = "done"], UNCHANGED <<out, inn, errc>>
  PROVE  ErrcCounts'
  BY DEF RelayTypeOK, ErrcCounts, Reported, Received, MainStates

LEMMA CountsStart ==
  ASSUME RelayTypeOK, ErrcCounts, NEW c \in Conns, rpc[c] = "none",
         rpc' = [rpc EXCEPT ![c] = "wait"],
         out' = [out EXCEPT ![c] = "tunRead"],
         inn' = [inn EXCEPT ![c] = "remoteRead"],
         UNCHANGED errc
  PROVE  ErrcCounts'
  BY DEF RelayTypeOK, ErrcCounts, Reported, Received, MainStates, OutStates, InnStates

LEMMA CountsFrame ==
  ASSUME ErrcCounts, UNCHANGED <<rpc, out, inn, errc>>
  PROVE  ErrcCounts'
  BY DEF ErrcCounts, Reported, Received

\* Of the two errors, the one the main goroutine does not receive fits.
LEMMA CountsLeaveRoom == RelayTypeOK /\ ErrcCounts => ErrcHasRoom
  BY DEF RelayTypeOK, ErrcCounts, Reported, Received, ErrcHasRoom, ErrcCapacity
-----------------------------------------------------------------------------
(* How a relay ends whose peer is gone: its pump remote -> TUN reads no    *)
(* more, reports, and the main goroutine closes both ends.                 *)

\* How many steps of its own the pump is from having reported.
InnSteps(c) ==
  CASE inn[c] = "tunWrite"   -> 3
    [] inn[c] = "remoteRead" -> 2
    [] inn[c] = "report"     -> 1
    [] OTHER                 -> 0

\* And the relay from having returned.
ToReturn(c) ==
  CASE rpc[c] = "wait"        -> 3 + InnSteps(c)
    [] rpc[c] = "closeTun"    -> 2
    [] rpc[c] = "closeRemote" -> 1
    [] OTHER                  -> 0

Starved(c, k) == Running(c) /\ ~Readable(c) /\ ToReturn(c) <= k

LEMMA ToReturnType ==
  ASSUME NEW c \in Conns
  PROVE  ToReturn(c) \in 0..6 /\ ToReturn(c)' \in 0..6
<1>1. InnSteps(c) \in 0..3
  BY DEF InnSteps
<1>2. InnSteps(c)' \in 0..3
  BY DEF InnSteps
<1>3. ToReturn(c) \in 0..6
  BY <1>1 DEF ToReturn
<1>4. ToReturn(c)' \in 0..6
  BY <1>2 DEF ToReturn
<1> QED
  BY <1>3, <1>4

LEMMA ToReturnFrame ==
  ASSUME NEW c \in Conns, rpc'[c] = rpc[c], inn'[c] = inn[c]
  PROVE  ToReturn(c)' = ToReturn(c)
  BY DEF ToReturn, InnSteps

\* The pump of a relay whose peer is gone only comes closer to its report.
LEMMA InnReturns ==
  ASSUME RelayTypeOK, NEW c \in Conns, ~Readable(c), InnNext(c)
  PROVE  /\ rpc' = rpc /\ link' = link
         /\ ToReturn(c)' <= ToReturn(c)
         /\ rpc[c] = "wait" => ToReturn(c)' < ToReturn(c)
<1>1. rpc' = rpc /\ link' = link
  BY InnType
<1>2. \/ inn[c] = "remoteRead" /\ inn'[c] = "report"
      \/ inn[c] = "tunWrite" /\ inn'[c] \in {"remoteRead", "report"}
      \/ inn[c] = "report" /\ inn'[c] = "dead"
  BY DEF RelayTypeOK, InnNext, InnStep, InnGoes, RemoteReadOk, RemoteReadFails, FrameTooLong,
     TunWriteOk, TunWriteFails, TunWriteRefused, InnReports
<1>3. InnSteps(c)' < InnSteps(c) /\ InnSteps(c) \in 0..3 /\ InnSteps(c)' \in 0..3
  BY <1>2 DEF InnSteps
<1> QED
  BY <1>1, <1>3 DEF ToReturn

LEMMA MainReturns ==
  ASSUME RelayTypeOK, NEW c \in Conns, MainStep(c)
  PROVE  ToReturn(c)' < ToReturn(c)
<1>1. \/ rpc[c] = "wait" /\ rpc'[c] = "closeTun"
      \/ rpc[c] = "closeTun" /\ rpc'[c] = "closeRemote"
      \/ rpc[c] = "closeRemote" /\ rpc'[c] = "returned"
  BY DEF RelayTypeOK, MainStep, MainGoes, ReceiveError, CloseTun, CloseRemote
<1>2. InnSteps(c) \in 0..3
  BY DEF InnSteps
<1> QED
  BY <1>1, <1>2 DEF ToReturn

\* At every distance the pump or the main goroutine can move.
LEMMA StarvedCanMove ==
  ASSUME RelayTypeOK, ErrcCounts, NEW c \in Conns, inn[c] # "none",
         NEW k \in 1..6, Starved(c, k), ToReturn(c) = k
  PROVE  /\ k \in 4..6 => rpc[c] = "wait" /\ InnCan(c)
         /\ k \in 1..3 => LoopCan(c)
<1>1. InnSteps(c) \in 0..3
  BY DEF InnSteps
<1>2. ASSUME k \in 4..6 PROVE rpc[c] = "wait" /\ InnCan(c)
  <2>1. rpc[c] = "wait" /\ InnSteps(c) > 0
    BY <1>1, <1>2 DEF ToReturn
  <2>2. inn[c] \in {"tunWrite", "remoteRead", "report"}
    BY <2>1 DEF InnSteps
  <2> QED
    BY <2>1, <2>2, CountsLeaveRoom DEF InnCan, ErrcHasRoom, Starved
<1>3. ASSUME k \in 1..3 PROVE LoopCan(c)
  <2>1. CASE rpc[c] = "wait"
    <3>1. InnSteps(c) = 0
      BY <1>1, <1>3, <2>1 DEF ToReturn
    <3>2. inn[c] = "dead"
      BY <3>1 DEF InnSteps, RelayTypeOK, InnStates
    <3>3. errc[c] + Received(c) = Reported(c) /\ errc[c] \in 0..2
      BY DEF ErrcCounts, RelayTypeOK
    <3> QED
      BY <2>1, <3>2, <3>3 DEF Received, Reported, LoopCan
  <2>2. CASE rpc[c] # "wait"
    BY <1>3, <2>2 DEF ToReturn, LoopCan
  <2> QED
    BY <2>1, <2>2
<1> QED
  BY <1>2, <1>3

\* With no step left the relay has returned.
LEMMA StarvedIsOver ==
  ASSUME RelayTypeOK, NEW c \in Conns, Starved(c, 1 - 1)
  PROVE  ~Running(c)
<1>1. ToReturn(c) = 0
  BY ToReturnType DEF Starved
<1>2. InnSteps(c) \in 0..3
  BY DEF InnSteps
<1>3. rpc[c] \in MainStates
  BY DEF RelayTypeOK
<1> QED
  BY <1>1, <1>2, <1>3 DEF ToReturn, Running, MainStates
=============================================================================
