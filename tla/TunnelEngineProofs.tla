------------------------ MODULE TunnelEngineProofs -------------------------
(***************************************************************************)
(* Proofs about TunnelEngine, for every set of sessions.                   *)
(***************************************************************************)
EXTENDS TunnelEngine, RelayLoopProofs

USE DEF TcpConns

LEMMA InitOK == Init => EngineInv
<1> SUFFICES ASSUME Init PROVE EngineInv
  OBVIOUS
<1>1. TypeOK
  <2>1. RelayTypeOK
    BY RelayInitType DEF Init
  <2>2. /\ dial \in [Conns -> {"none", "quic", "tcp", "up", "failed"}]
        /\ results \in [Conns -> 0..1]
        /\ gpc \in [Conns -> {"none", "relay", "clear", "end"}]
        /\ seen \in [Conns -> SUBSET Conns]
    BY DEF Init
  <2>3. ctxCancelled \in [Conns -> BOOLEAN] /\ overlapped \in BOOLEAN
    BY DEF Init
  <2>4. {mu, cancelFn, relayDone} \subseteq Conns \cup {NoConn}
    BY DEF Init
  <2> QED
    BY <2>1, <2>2, <2>3, <2>4 DEF TypeOK
<1>2. \A s \in Conns : rpc[s] = "none" /\ gpc[s] = "none" /\ ~ctxCancelled[s] /\ dial[s] = "none"
  BY DEF Init, RelayInit
<1>3. cancelFn = NoConn
  BY DEF Init
<1> QED
  BY <1>1, <1>2, <1>3, RelayAssumption
  DEF EngineInv, Dialing, RunningIsBusy, Alone, Busy, CancelFnIsLatest,
      CancelFnTracksSession
-----------------------------------------------------------------------------
(* Type correctness.                                                       *)

LEMMA RelayTypes ==
  ASSUME TypeOK, NEW s \in Conns,
         RelayAct(PeerFinishes(s)) \/ RelayAct(PeerLost(s)) \/ RelayAct(OutNext(s))
           \/ RelayAct(InnNext(s)) \/ RelayAct(MainStep(s))
  PROVE  TypeOK'
<1>1. RelayTypeOK'
  <2>1. CASE PeerFinishes(s) \/ PeerLost(s)
    BY <2>1 DEF PeerFinishes, PeerLost, TypeOK, RelayTypeOK, LinkStates, tunVars
  <2> QED
    BY <2>1, OutType, InnType, MainType DEF TypeOK, RelayAct
<1>2. UNCHANGED engineVars
  BY DEF RelayAct
<1> QED
  BY <1>1, <1>2 DEF TypeOK, engineVars

LEMMA EngineTypes ==
  ASSUME TypeOK, NEW s \in Conns,
         Connect(s) \/ QuicDialFails(s) \/ FallbackFails(s) \/ Establish(s)
           \/ SendResult(s) \/ ClearCancel(s) \/ Disconnect
  PROVE  TypeOK'
<1> USE DEF TypeOK, RelayTypeOK, LinkStates, MainStates, OutStates, InnStates, tunVars,
            linkVars, relayVars
<1>1. CASE Connect(s)       BY <1>1 DEF Connect
<1>2. CASE QuicDialFails(s) BY <1>2 DEF QuicDialFails
<1>3. CASE FallbackFails(s) BY <1>3 DEF FallbackFails
<1>4. CASE Establish(s)
  <2>1. seen' \in [Conns -> SUBSET Conns]
    BY <1>4 DEF Establish
  <2> QED
    BY <1>4, <2>1 DEF Establish
<1>5. CASE SendResult(s)
  <2>1. PICK r \in seen[s] :
          results[r] < ResultsCapacity /\ results' = [results EXCEPT ![r] = @ + 1]
    BY <1>5 DEF SendResult
  <2>2. results' \in [Conns -> 0..1]
    BY <2>1 DEF ResultsCapacity
  <2> QED
    BY <1>5, <2>2 DEF SendResult
<1>6. CASE ClearCancel(s)   BY <1>6 DEF ClearCancel
<1>7. CASE Disconnect       BY <1>7 DEF Disconnect
<1> QED
  BY <1>1, <1>2, <1>3, <1>4, <1>5, <1>6, <1>7

LEMMA TypesKept == TypeOK /\ [Next]_vars => TypeOK'
<1> SUFFICES ASSUME TypeOK, [Next]_vars PROVE TypeOK'
  OBVIOUS
<1>1. CASE UNCHANGED vars
  BY <1>1 DEF vars, relayVars, engineVars, TypeOK, RelayTypeOK
<1>2. CASE Disconnect
  <2>1. PICK s \in Conns : cancelFn = s
    BY <1>2 DEF Disconnect
  <2> QED
    BY <1>2, <2>1, EngineTypes
<1> QED
  BY <1>1, <1>2, RelayTypes, EngineTypes DEF Next

\* Every variable of the engine keeps its type, for every set of sessions.
THEOREM EngineTypeCorrect == Spec => []TypeOK
<1>1. Init => TypeOK
  BY InitOK DEF EngineInv
<1> QED
  BY <1>1, TypesKept, PTL DEF Spec
-----------------------------------------------------------------------------
(* Sessions and the cancel function.                                       *)

\* A relay's own steps neither start nor resurrect one.
LEMMA RelayMovesItself ==
  ASSUME TypeOK, NEW s \in Conns, NEW r \in Conns, rpc'[r] # rpc[r],
         RelayAct(PeerFinishes(s)) \/ RelayAct(PeerLost(s)) \/ RelayAct(OutNext(s))
           \/ RelayAct(InnNext(s)) \/ RelayAct(MainStep(s))
  PROVE  r = s /\ rpc[r] \notin {"none", "returned", "done"}
<1>1. CASE MainStep(s)
  BY <1>1 DEF MainStep, ReceiveError, CloseTun, CloseRemote, MainGoes, TypeOK, RelayTypeOK
<1> QED
  BY <1>1, OutType, InnType DEF RelayAct, PeerFinishes, PeerLost, TypeOK

LEMMA RelayKeeps ==
  ASSUME EngineInv, TypeOK', NEW s \in Conns,
         RelayAct(PeerFinishes(s)) \/ RelayAct(PeerLost(s)) \/ RelayAct(OutNext(s))
           \/ RelayAct(InnNext(s)) \/ RelayAct(MainStep(s))
  PROVE  EngineInv'
<1>1. UNCHANGED engineVars
  BY DEF RelayAct
<1>2. \A r \in Conns :
        rpc'[r] # rpc[r] => r = s /\ rpc[r] \notin {"none", "returned", "done"}
  BY RelayMovesItself DEF EngineInv
<1> QED
  BY <1>1, <1>2
  DEF EngineInv, Dialing, RunningIsBusy, Alone, Busy, CancelFnIsLatest,
      CancelFnTracksSession, engineVars

\* A new session finds nobody's cancel function in place.
LEMMA EstablishKeeps ==
  ASSUME EngineInv, TypeOK', NEW s \in Conns, Establish(s)
  PROVE  EngineInv'
<1> USE DEF EngineInv, TypeOK, RelayTypeOK, Establish
<1>0. dial[s] \in {"quic", "tcp"}
  OBVIOUS
<1>1. Dialing'
  BY <1>0 DEF Dialing
<1>2. RunningIsBusy'
  BY DEF RunningIsBusy
<1>3. Alone'
  <2> SUFFICES ASSUME ~overlapped', NEW q \in Conns, NEW r \in Conns, Busy(q)', Busy(r)'
               PROVE  q = r
    BY DEF Alone
  <2>1. ~Busy(q) /\ ~Busy(r)
    OBVIOUS
  <2> QED
    BY <2>1 DEF Busy
<1>4. CancelFnIsLatest'
  BY <1>0 DEF Dialing, CancelFnIsLatest
<1>5. CancelFnTracksSession'
  <2>1. cancelFn' = s /\ gpc' = [gpc EXCEPT ![s] = "relay"] /\ UNCHANGED ctxCancelled
    OBVIOUS
  <2>2. ~ctxCancelled[s]
    BY <1>0 DEF Dialing
  <2>3. ~overlapped' => \A q \in Conns : ~Busy(q)
    OBVIOUS
  <2> QED
    BY <2>1, <2>2, <2>3 DEF CancelFnTracksSession, Busy
<1> QED
  BY <1>1, <1>2, <1>3, <1>4, <1>5

\* The goroutine that forgets the cancel function is the only one there is,
\* unless sessions have overlapped.
LEMMA ClearKeeps ==
  ASSUME EngineInv, TypeOK', NEW s \in Conns, ClearCancel(s)
  PROVE  EngineInv'
<1> USE DEF EngineInv, TypeOK, RelayTypeOK, ClearCancel, relayVars
<1>1. Dialing'
  BY DEF Dialing
<1>2. RunningIsBusy'
  BY DEF RunningIsBusy
<1>3. Alone'
  BY DEF Alone, Busy
<1>4. CancelFnIsLatest'
  BY RelayAssumption DEF CancelFnIsLatest
<1>5. CancelFnTracksSession'
  BY RelayAssumption DEF Alone, Busy, CancelFnTracksSession
<1> QED
  BY <1>1, <1>2, <1>3, <1>4, <1>5

LEMMA OthersKeep ==
  ASSUME EngineInv, TypeOK', NEW s \in Conns,
         Connect(s) \/ QuicDialFails(s) \/ FallbackFails(s) \/ SendResult(s) \/ Disconnect
  PROVE  EngineInv'
<1> USE RelayAssumption
    DEF EngineInv, TypeOK, RelayTypeOK, Dialing, RunningIsBusy, Alone, Busy,
        CancelFnIsLatest, CancelFnTracksSession, relayVars
<1>1. CASE Connect(s)       BY <1>1 DEF Connect, Free, IsConnected
<1>2. CASE QuicDialFails(s) BY <1>2 DEF QuicDialFails
<1>3. CASE FallbackFails(s) BY <1>3 DEF FallbackFails
<1>4. CASE SendResult(s)    BY <1>4 DEF SendResult
<1>5. CASE Disconnect       BY <1>5 DEF Disconnect, Free
<1> QED
  BY <1>1, <1>2, <1>3, <1>4, <1>5

LEMMA EngineInvKept == EngineInv /\ [Next]_vars => EngineInv'
<1> SUFFICES ASSUME EngineInv, [Next]_vars PROVE EngineInv'
  OBVIOUS
<1>1. TypeOK'
  BY TypesKept DEF EngineInv
<1>2. CASE UNCHANGED vars
  BY <1>1, <1>2
  DEF EngineInv, Dialing, RunningIsBusy, Alone, Busy, CancelFnIsLatest,
      CancelFnTracksSession, vars, relayVars, engineVars
<1>3. CASE Disconnect
  <2>1. PICK s \in Conns : cancelFn = s
    BY <1>3 DEF Disconnect
  <2> QED
    BY <1>1, <1>3, <2>1, OthersKeep
<1> QED
  BY <1>1, <1>2, <1>3, RelayKeeps, EstablishKeeps, ClearKeeps, OthersKeep DEF Next

\* What Disconnect would cancel is the latest session, and it is not cancelled
\* yet: however sessions overlap.
THEOREM LatestIsCancelled == Spec => []CancelFnIsLatest
<1>1. EngineInv => CancelFnIsLatest
  BY DEF EngineInv
<1> QED
  BY <1>1, InitOK, EngineInvKept, PTL DEF Spec

\* What IsConnected looks at is the cancel function of a session that goes on
\* and was not disconnected, always; and it has that of every such session, as
\* long as no two have overlapped (engine.go:94-102, 111-123).
THEOREM StoredTracksSession == Spec => []CancelFnTracksSession
<1>1. EngineInv => CancelFnTracksSession
  BY DEF EngineInv
<1> QED
  BY <1>1, InitOK, EngineInvKept, PTL DEF Spec
-----------------------------------------------------------------------------
(* The engine implements EngineContract.                                   *)

LEMMA SeenInit == Init => SeenInv
<1> SUFFICES ASSUME Init PROVE SeenInv
  OBVIOUS
<1>1. EngineInv
  BY InitOK
<1>2. \A s \in Conns : rpc[s] = "none" /\ gpc[s] = "none" /\ tunClosed[TunOf[s]] = FALSE
  BY RelayAssumption DEF Init, RelayInit
<1> QED
  BY <1>1, <1>2 DEF SeenInv, TunWithRelay, GoroutineAndRelay

\* A relay's own steps close its own TUN only, and when its main goroutine does.
LEMMA SeenByRelay ==
  ASSUME SeenInv, TypeOK', NEW s \in Conns,
         RelayAct(PeerFinishes(s)) \/ RelayAct(PeerLost(s)) \/ RelayAct(OutNext(s))
           \/ RelayAct(InnNext(s)) \/ RelayAct(MainStep(s))
  PROVE  TunWithRelay' /\ GoroutineAndRelay'
<1> USE RelayAssumption, EngineAssumption
    DEF SeenInv, EngineInv, TypeOK, RelayTypeOK, TunWithRelay, GoroutineAndRelay
<1>1. gpc' = gpc
  BY DEF RelayAct, engineVars
<1>2. CASE UNCHANGED <<rpc, tunClosed>>
  BY <1>1, <1>2
<1>3. CASE ReceiveError(s)
  BY <1>1, <1>3 DEF ReceiveError, MainGoes
<1>4. CASE CloseTun(s)
  BY <1>1, <1>4 DEF CloseTun, MainGoes
<1>5. CASE CloseRemote(s)
  BY <1>1, <1>5 DEF CloseRemote, MainGoes
<1> QED
  BY <1>2, <1>3, <1>4, <1>5, OutType, InnType
  DEF RelayAct, PeerFinishes, PeerLost, MainStep, tunVars

LEMMA SeenByEngine ==
  ASSUME SeenInv, TypeOK', NEW s \in Conns,
         Connect(s) \/ QuicDialFails(s) \/ FallbackFails(s) \/ Establish(s)
           \/ SendResult(s) \/ ClearCancel(s) \/ Disconnect
  PROVE  TunWithRelay' /\ GoroutineAndRelay'
<1> USE DEF SeenInv, EngineInv, TypeOK, RelayTypeOK, TunWithRelay, GoroutineAndRelay,
            relayVars, tunVars
<1>1. CASE Connect(s)       BY <1>1 DEF Connect
<1>2. CASE QuicDialFails(s) BY <1>2 DEF QuicDialFails
<1>3. CASE FallbackFails(s) BY <1>3 DEF FallbackFails
<1>4. CASE Establish(s)     BY <1>4 DEF Establish, Dialing
<1>5. CASE SendResult(s)    BY <1>5 DEF SendResult
<1>6. CASE ClearCancel(s)   BY <1>6 DEF ClearCancel
<1>7. CASE Disconnect       BY <1>7 DEF Disconnect
<1> QED
  BY <1>1, <1>2, <1>3, <1>4, <1>5, <1>6, <1>7

LEMMA SeenInvKept == SeenInv /\ [Next]_vars => SeenInv'
<1> SUFFICES ASSUME SeenInv, [Next]_vars PROVE SeenInv'
  OBVIOUS
<1>1. EngineInv' /\ TypeOK'
  BY EngineInvKept DEF SeenInv, EngineInv
<1>2. CASE UNCHANGED vars
  BY <1>1, <1>2
  DEF SeenInv, TunWithRelay, GoroutineAndRelay, vars, relayVars, engineVars
<1>3. CASE Disconnect
  <2>1. PICK s \in Conns : cancelFn = s
    BY <1>3 DEF Disconnect
  <2> QED
    BY <1>1, <1>3, <2>1, SeenByEngine DEF SeenInv
<1> QED
  BY <1>1, <1>2, <1>3, SeenByRelay, SeenByEngine DEF Next, SeenInv

LEMMA RelayRefines ==
  ASSUME SeenInv, NEW s \in Conns,
         RelayAct(PeerFinishes(s)) \/ RelayAct(PeerLost(s)) \/ RelayAct(OutNext(s))
           \/ RelayAct(InnNext(s)) \/ RelayAct(MainStep(s))
  PROVE  [Contract!Next]_(Contract!contractVars)
<1> USE RelayAssumption, EngineAssumption
    DEF SeenInv, EngineInv, TypeOK, RelayTypeOK, TunWithRelay, GoroutineAndRelay, RelaySeen,
        engineVars, Contract!contractVars
<1>1. UNCHANGED engineVars
  BY DEF RelayAct
<1>2. CASE UNCHANGED tunClosed
  BY <1>1, <1>2
<1>3. CASE CloseTun(s)
  <2>1. gpc[s] = "relay" /\ ~tunClosed[TunOf[s]]
    BY <1>3 DEF CloseTun, MainGoes
  <2>2. \A r \in Conns : r # s => tunClosed'[TunOf[r]] = tunClosed[TunOf[r]]
    BY <1>3 DEF CloseTun
  <2>3. tunClosed'[TunOf[s]]
    BY <1>3 DEF CloseTun
  <2> DEFINE told == [r \in Conns |-> RelaySeen(r)]
  <2>4. told[s] = "open" /\ told' = [told EXCEPT ![s] = "shut"]
    <3>1. RelaySeen(s) = "open" /\ RelaySeen(s)' = "shut"
      BY <1>1, <2>1, <2>3
    <3>2. \A r \in Conns : r # s => RelaySeen(r)' = RelaySeen(r)
      BY <1>1, <2>2
    <3> QED
      BY ONLY <3>1, <3>2, s \in Conns
  <2>5. Contract!CloseTun(s)
    BY <1>1, <2>4 DEF Contract!CloseTun
  <2> QED
    BY <2>5 DEF Contract!Next
<1> QED
  BY <1>2, <1>3, OutType, InnType
  DEF RelayAct, PeerFinishes, PeerLost, MainStep, ReceiveError, CloseRemote, tunVars

LEMMA EngineRefines ==
  ASSUME SeenInv, NEW s \in Conns,
         Connect(s) \/ QuicDialFails(s) \/ FallbackFails(s) \/ Establish(s)
           \/ SendResult(s) \/ ClearCancel(s)
  PROVE  Contract!Next
<1> USE DEF SeenInv, EngineInv, TypeOK, RelayTypeOK, TunWithRelay, GoroutineAndRelay, RelaySeen,
            relayVars, tunVars, Free, Contract!Free
<1>1. CASE Connect(s)
  BY <1>1 DEF Connect, IsConnected, Contract!Connect, Contract!Next
<1>2. CASE QuicDialFails(s)
  BY <1>2 DEF QuicDialFails, Contract!QuicDialFails, Contract!Next
<1>3. CASE FallbackFails(s)
  BY <1>3 DEF FallbackFails, Contract!FallbackFails, Contract!Next
<1>4. CASE Establish(s)
  <2>1. ~tunClosed[TunOf[s]] /\ gpc[s] = "none"
    BY <1>4 DEF Establish, Dialing
  <2>2. \A r \in Conns : Busy(r) <=> Contract!Busy(r)
    BY DEF Busy, Contract!Busy
  <2> DEFINE told == [r \in Conns |-> RelaySeen(r)]
  <2>3. told' = [told EXCEPT ![s] = "open"]
    BY <1>4, <2>1 DEF Establish
  <2>4. Contract!Establish(s)
    BY <1>4, <2>2, <2>3 DEF Establish, Contract!Establish
  <2> QED
    BY <2>4 DEF Contract!Next
<1>5. CASE SendResult(s)
  BY <1>5 DEF SendResult, Contract!SendResult, Contract!Next
<1>6. CASE ClearCancel(s)
  <2> DEFINE told == [r \in Conns |-> RelaySeen(r)]
  <2>1. told[s] = "clear" /\ told' = [told EXCEPT ![s] = "end"]
    BY <1>6 DEF ClearCancel
  <2>2. Contract!ClearCancel(s)
    BY <1>6, <2>1 DEF ClearCancel, Contract!ClearCancel
  <2> QED
    BY <2>2 DEF Contract!Next
<1> QED
  BY <1>1, <1>2, <1>3, <1>4, <1>5, <1>6

LEMMA DisconnectRefines ==
  ASSUME SeenInv, Disconnect
  PROVE  Contract!Disconnect
<1>1. PICK s \in Conns :
        /\ mu = NoConn /\ cancelFn = s /\ cancelFn' = NoConn
        /\ ctxCancelled' = [ctxCancelled EXCEPT ![s] = TRUE]
        /\ UNCHANGED <<mu, dial, gpc, tunClosed, overlapped>>
  BY DEF Disconnect, Free, relayVars, tunVars
<1>2. [r \in Conns |-> RelaySeen(r)]' = [r \in Conns |-> RelaySeen(r)]
  BY <1>1 DEF RelaySeen
<1> QED
  BY <1>1, <1>2 DEF Contract!Disconnect, Contract!Free

\* The engine with its relays, whatever their goroutines do, is EngineContract.
THEOREM EngineImplementsContract == Spec => ContractSpec
<1>1. Init => Contract!Init
  BY DEF Init, RelayInit, Contract!Init, RelaySeen
<1>2. SeenInv /\ [Next]_vars => [Contract!Next]_(Contract!contractVars)
  <2> SUFFICES ASSUME SeenInv, [Next]_vars
               PROVE  [Contract!Next]_(Contract!contractVars)
    OBVIOUS
  <2>1. CASE UNCHANGED vars
    BY <2>1 DEF vars, relayVars, engineVars, Contract!contractVars, RelaySeen
  <2>2. CASE Disconnect
    BY <2>2, DisconnectRefines DEF Contract!Next
  <2> QED
    BY <2>1, <2>2, RelayRefines, EngineRefines DEF Next
<1> QED
  BY <1>1, <1>2, SeenInit, SeenInvKept, PTL DEF Spec, ContractSpec, Contract!Spec
-----------------------------------------------------------------------------
(* Liveness.  The prover has no rules for ENABLED: the theorems take       *)
(* GuardsSuffice, which holds by the guards of the actions, as hypothesis. *)

LEMMA FinishingInit == Init => Finishing
<1> SUFFICES ASSUME Init PROVE Finishing
  OBVIOUS
<1>1. mu = NoConn /\ relayDone = NoConn /\ cancelFn = NoConn
  BY DEF Init
<1>2. \A s \in Conns : results[s] = 0
  BY DEF Init
<1>3. \A s \in Conns : gpc[s] = "none"
  BY DEF Init
<1> QED
  BY <1>1, <1>2, <1>3 DEF Finishing, Busy

LEMMA FinishingSend ==
  ASSUME SeenInv, Finishing, NEW s \in Conns, SendResult(s)
  PROVE  Finishing'
<1> USE DEF SeenInv, EngineInv, TypeOK
<1>1. PICK r \in seen[s] :
        results[r] < ResultsCapacity /\ results' = [results EXCEPT ![r] = @ + 1]
  BY DEF SendResult
<1>2. /\ gpc[s] = "relay" /\ gpc' = [gpc EXCEPT ![s] = "clear"]
      /\ UNCHANGED <<mu, dial, cancelFn, relayDone, seen, overlapped>>
  BY DEF SendResult
<1>3. ~overlapped => r = s
  BY <1>1, <1>2 DEF Finishing, Busy
<1>4. ~overlapped' => \A q \in Conns : gpc'[q] \in {"none", "relay"} => results'[q] = 0
  BY <1>1, <1>2, <1>3 DEF Finishing
<1>5. \A q \in Conns : gpc[q] # "none" => gpc'[q] # "none"
  BY <1>2
<1>6. \A q \in Conns : Busy(q)' => Busy(q)
  BY <1>2 DEF Busy
<1> QED
  BY <1>2, <1>4, <1>5, <1>6 DEF Finishing

LEMMA FinishingKept == SeenInv /\ Finishing /\ [Next]_vars => Finishing'
<1> SUFFICES ASSUME SeenInv, Finishing, [Next]_vars PROVE Finishing'
  OBVIOUS
<1> USE DEF SeenInv, EngineInv, TypeOK, Finishing, Busy
<1>1. CASE UNCHANGED engineVars
  BY <1>1 DEF engineVars
<1>2. ASSUME NEW s \in Conns, Connect(s) PROVE Finishing'
  BY <1>2 DEF Connect
<1>3. ASSUME NEW s \in Conns, QuicDialFails(s) \/ FallbackFails(s) PROVE Finishing'
  BY <1>3 DEF QuicDialFails, FallbackFails, Dialing
<1>4. ASSUME NEW s \in Conns, Establish(s) PROVE Finishing'
  <2>1. ~overlapped' => ~overlapped /\ \A q \in Conns : ~Busy(q)
    BY <1>4 DEF Establish
  <2>2. /\ dial[s] \in {"quic", "tcp"} /\ gpc' = [gpc EXCEPT ![s] = "relay"]
        /\ mu' = NoConn /\ relayDone' = s /\ seen'[s] = {s} /\ UNCHANGED results
    BY <1>4 DEF Establish
  <2>3. gpc[s] = "none"
    BY <2>2 DEF Dialing
  <2> QED
    BY <2>1, <2>2, <2>3
<1>5. ASSUME NEW s \in Conns, SendResult(s) PROVE Finishing'
  BY <1>5, FinishingSend
<1>6. ASSUME NEW s \in Conns, ClearCancel(s) PROVE Finishing'
  BY <1>6 DEF ClearCancel
<1>7. CASE Disconnect
  BY <1>7 DEF Disconnect
<1> QED
  BY <1>1, <1>2, <1>3, <1>4, <1>5, <1>6, <1>7 DEF Next, RelayAct, vars

LEMMA SeenInvariant == Spec => []SeenInv
  BY SeenInit, SeenInvKept, PTL DEF Spec

\* A session's goroutine has the means to go on: nobody holds t.mu while a
\* cancel function is stored, and its own channel is empty until it sends.
THEOREM FinishingHolds == Spec => []Finishing
  BY SeenInvariant, FinishingInit, FinishingKept, PTL DEF Spec

\* The stored session's relay has returned, or its result has been sent too.
Returned(s) == cancelFn = s /\ gpc[s] = "relay" /\ rpc[s] = "returned"
Sent(s) == cancelFn = s /\ gpc[s] = "clear"
Over(s) == cancelFn # s \/ overlapped

LEMMA ReturnedOrSent ==
  ASSUME SeenInv, Finishing, NEW s \in Conns, cancelFn = s, ~Running(s)
  PROVE  Returned(s) \/ Sent(s)
<1>1. Busy(s)
  BY DEF SeenInv, EngineInv, CancelFnTracksSession
<1>2. rpc[s] \in MainStates
  BY DEF SeenInv, EngineInv, TypeOK, RelayTypeOK
<1> QED
  BY <1>1, <1>2 DEF Busy, SeenInv, GoroutineAndRelay, Running, Returned, Sent, MainStates

LEMMA EstablishIsOver ==
  ASSUME SeenInv, NEW s \in Conns, cancelFn = s, NEW r \in Conns, Establish(r)
  PROVE  Over(s)'
<1>1. cancelFn' = r /\ dial[r] \in {"quic", "tcp"}
  BY DEF Establish
<1>2. cancelFn = NoConn
  BY <1>1 DEF SeenInv, EngineInv, Dialing
<1> QED
  BY <1>2, RelayAssumption

LEMMA ReturnedKept ==
  ASSUME SeenInv, NEW s \in Conns, Returned(s), [Next]_vars
  PROVE  (Returned(s) \/ Sent(s) \/ Over(s))'
<1> USE DEF SeenInv, EngineInv, TypeOK, RelayTypeOK, Returned, Sent, Over
<1>1. CASE UNCHANGED vars
  BY <1>1 DEF vars, engineVars, relayVars
<1>2. ASSUME NEW r \in Conns,
             RelayAct(PeerFinishes(r)) \/ RelayAct(PeerLost(r)) \/ RelayAct(OutNext(r))
               \/ RelayAct(InnNext(r)) \/ RelayAct(MainStep(r))
      PROVE  Returned(s)'
  <2>1. rpc'[s] = rpc[s]
    BY <1>2, RelayMovesItself
  <2>2. UNCHANGED <<cancelFn, gpc>>
    BY <1>2 DEF RelayAct, engineVars
  <2> QED
    BY <2>1, <2>2
<1>3. ASSUME NEW r \in Conns,
             Connect(r) \/ QuicDialFails(r) \/ FallbackFails(r) \/ Establish(r)
      PROVE  Returned(s)' \/ Over(s)'
  <2>1. ~Connect(r)
    BY RelayAssumption DEF Connect, IsConnected
  <2>2. CASE QuicDialFails(r) \/ FallbackFails(r)
    BY <2>2 DEF QuicDialFails, FallbackFails, relayVars
  <2>3. CASE Establish(r)
    BY <2>3, EstablishIsOver
  <2> QED
    BY <1>3, <2>1, <2>2, <2>3
<1>4. ASSUME NEW r \in Conns, SendResult(r) \/ ClearCancel(r)
      PROVE  (Returned(s) \/ Sent(s) \/ Over(s))'
  BY <1>4, RelayAssumption DEF SendResult, ClearCancel, relayVars
<1>5. CASE Disconnect
  BY <1>5, RelayAssumption DEF Disconnect
<1> QED
  BY <1>1, <1>2, <1>3, <1>4, <1>5 DEF Next

LEMMA SentKept ==
  ASSUME SeenInv, NEW s \in Conns, Sent(s), [Next]_vars
  PROVE  (Sent(s) \/ Over(s))'
<1> USE DEF SeenInv, EngineInv, TypeOK, Sent, Over
<1>1. CASE UNCHANGED engineVars
  BY <1>1 DEF engineVars
<1>2. ASSUME NEW r \in Conns, Connect(r) \/ QuicDialFails(r) \/ FallbackFails(r)
      PROVE  Sent(s)'
  BY <1>2, RelayAssumption DEF Connect, IsConnected, QuicDialFails, FallbackFails
<1>3. ASSUME NEW r \in Conns, Establish(r) PROVE Over(s)'
  BY <1>3, EstablishIsOver
<1>4. ASSUME NEW r \in Conns, SendResult(r) PROVE Sent(s)'
  BY <1>4 DEF SendResult
<1>5. ASSUME NEW r \in Conns, ClearCancel(r) PROVE Over(s)'
  BY <1>5, RelayAssumption DEF ClearCancel
<1>6. CASE Disconnect
  BY <1>6, RelayAssumption DEF Disconnect
<1> QED
  BY <1>1, <1>2, <1>3, <1>4, <1>5, <1>6 DEF Next, RelayAct, vars

MakesRoom(s) == cancelFn = s /\ ~Running(s) ~> cancelFn # s \/ overlapped

LEMMA EachMakesRoom ==
  ASSUME NEW s \in Conns
  PROVE  FairSpec /\ []GuardsSuffice => MakesRoom(s)
<1>1. SeenInv /\ Finishing /\ cancelFn = s /\ ~Running(s) => Returned(s) \/ Sent(s)
  BY ReturnedOrSent
<1>2. SeenInv /\ Returned(s) /\ [Next]_vars => (Returned(s) \/ Sent(s) \/ Over(s))'
  BY ReturnedKept
<1>3. SeenInv /\ Returned(s) /\ <<GoroutineActs(s)>>_vars => (Sent(s) \/ Over(s))'
  <2> SUFFICES ASSUME SeenInv, Returned(s), GoroutineActs(s) PROVE (Sent(s) \/ Over(s))'
    OBVIOUS
  <2>1. SendResult(s)
    BY DEF GoroutineActs, Returned, RelayAct, MainStep, ReceiveError, CloseTun, CloseRemote,
       MainGoes, ClearCancel
  <2> QED
    BY <2>1 DEF SendResult, Returned, Sent, SeenInv, EngineInv, TypeOK
<1>4. SeenInv /\ Finishing /\ GuardsSuffice /\ Returned(s)
        => (ENABLED <<GoroutineActs(s)>>_vars) \/ Over(s)
  BY DEF Finishing, GuardsSuffice, GoroutineCan, Returned, Over
<1>5. SeenInv /\ Sent(s) /\ [Next]_vars => (Sent(s) \/ Over(s))'
  BY SentKept
<1>6. SeenInv /\ Sent(s) /\ <<GoroutineActs(s)>>_vars => Over(s)'
  <2> SUFFICES ASSUME SeenInv, Sent(s), GoroutineActs(s) PROVE Over(s)'
    OBVIOUS
  <2>1. rpc[s] = "done"
    BY DEF Sent, SeenInv, GoroutineAndRelay
  <2>2. ClearCancel(s)
    BY <2>1 DEF GoroutineActs, Sent, RelayAct, MainStep, ReceiveError, CloseTun, CloseRemote,
       MainGoes, SendResult
  <2> QED
    BY <2>2, RelayAssumption DEF ClearCancel, Over
<1>7. SeenInv /\ Finishing /\ GuardsSuffice /\ Sent(s) => ENABLED <<GoroutineActs(s)>>_vars
  <2> SUFFICES ASSUME SeenInv, Finishing, Sent(s) PROVE gpc[s] = "clear" /\ Free
    BY DEF GuardsSuffice, GoroutineCan
  <2> QED
    BY RelayAssumption DEF Sent, Free, Finishing, SeenInv, EngineInv, TypeOK, Dialing
<1>8. Over(s) <=> cancelFn # s \/ overlapped
  BY DEF Over
<1>9. Fairness => FairTo(s)
  BY DEF Fairness
<1> QED
  BY <1>1, <1>2, <1>3, <1>4, <1>5, <1>6, <1>7, <1>8, <1>9, SeenInvariant, FinishingHolds,
     PTL DEF FairSpec, FairTo, Spec, MakesRoom

\* EndedRelayMakesRoom, for every set of sessions: the result that nobody
\* receives is sent, t.mu is free, and the cancel function goes
\* (engine.go:95-102).
THEOREM RoomIsMade == FairSpec /\ []GuardsSuffice => EndedRelayMakesRoom
  BY EachMakesRoom DEF EndedRelayMakesRoom, MakesRoom
-----------------------------------------------------------------------------
(* Sessions whose server is gone.                                          *)

\* A session's relay ends once its transport can no longer be read: the pump
\* transport -> TUN reports, and the deferred closes follow (relay.go:14-18,
\* 42-62).  Nothing that the user does is needed.
LostPeerEndsRelay == \A s \in Conns : Running(s) /\ ~Readable(s) ~> ~Running(s)

LEMMA LinkStaysDown ==
  ASSUME SeenInv, NEW s \in Conns, rpc[s] # "none", ~Readable(s), [Next]_vars
  PROVE  ~Readable(s)'
<1> USE DEF SeenInv, EngineInv, TypeOK, RelayTypeOK, Readable
<1>1. CASE UNCHANGED link
  BY <1>1
<1>2. ASSUME NEW r \in Conns, RelayAct(PeerFinishes(r)) \/ RelayAct(PeerLost(r)) PROVE ~Readable(s)'
  BY <1>2 DEF RelayAct, PeerFinishes, PeerLost
<1>3. ASSUME NEW r \in Conns, RelayAct(OutNext(r)) \/ RelayAct(InnNext(r)) PROVE UNCHANGED link
  BY <1>3, OutType, InnType DEF RelayAct
<1>4. ASSUME NEW r \in Conns, RelayAct(MainStep(r)) PROVE ~Readable(s)'
  BY <1>4 DEF RelayAct, MainStep, ReceiveError, CloseTun, CloseRemote, linkVars
<1>5. ASSUME NEW r \in Conns, Establish(r) PROVE ~Readable(s)'
  <2>1. r # s
    BY <1>5 DEF Establish, Dialing
  <2> QED
    BY <1>5, <2>1 DEF Establish
<1>6. ASSUME NEW r \in Conns,
             Connect(r) \/ QuicDialFails(r) \/ FallbackFails(r) \/ SendResult(r) \/ ClearCancel(r)
      PROVE  UNCHANGED link
  BY <1>6 DEF Connect, QuicDialFails, FallbackFails, SendResult, ClearCancel, relayVars, linkVars
<1>7. CASE Disconnect
  BY <1>7 DEF Disconnect, relayVars, linkVars
<1>8. CASE UNCHANGED vars
  BY <1>1, <1>8 DEF vars, relayVars
<1> QED
  BY <1>1, <1>2, <1>3, <1>4, <1>5, <1>6, <1>7, <1>8 DEF Next

\* Whoever moves, another session's relay stays where it is, and so does this
\* one's unless it moves itself.
LEMMA RelayKeepsPlace ==
  ASSUME SeenInv, NEW s \in Conns, rpc[s] # "none", [Next]_vars
  PROVE  \/ rpc'[s] = rpc[s] /\ inn'[s] = inn[s]
         \/ RelayAct(InnNext(s)) \/ RelayAct(MainStep(s))
         \/ SendResult(s)
<1> USE DEF SeenInv, EngineInv, TypeOK, RelayTypeOK
<1>1. CASE UNCHANGED <<rpc, inn>>
  BY <1>1
<1>2. ASSUME NEW r \in Conns, RelayAct(OutNext(r)) PROVE UNCHANGED <<rpc, inn>>
  BY <1>2, OutType DEF RelayAct
<1>3. ASSUME NEW r \in Conns \ {s}, RelayAct(InnNext(r)) PROVE rpc'[s] = rpc[s] /\ inn'[s] = inn[s]
  <2>1. inn'[s] = inn[s]
    BY <1>3 DEF RelayAct, InnNext, InnStep, InnGoes, RemoteReadOk, RemoteReadFails, FrameTooLong,
       TunWriteOk, TunWriteFails, TunWriteRefused, InnReports
  <2> QED
    BY <1>3, <2>1, InnType DEF RelayAct
<1>4. ASSUME NEW r \in Conns \ {s}, RelayAct(MainStep(r)) \/ SendResult(r)
      PROVE  rpc'[s] = rpc[s] /\ inn'[s] = inn[s]
  BY <1>4 DEF RelayAct, MainStep, MainGoes, ReceiveError, CloseTun, CloseRemote, SendResult
<1>5. ASSUME NEW r \in Conns, Establish(r) PROVE rpc'[s] = rpc[s] /\ inn'[s] = inn[s]
  <2>1. r # s
    BY <1>5 DEF Establish, Dialing
  <2> QED
    BY <1>5, <2>1 DEF Establish
<1>6. ASSUME NEW r \in Conns,
             \/ Connect(r) \/ QuicDialFails(r) \/ FallbackFails(r) \/ ClearCancel(r)
             \/ RelayAct(PeerFinishes(r)) \/ RelayAct(PeerLost(r))
      PROVE  UNCHANGED <<rpc, inn>>
  BY <1>6 DEF Connect, QuicDialFails, FallbackFails, ClearCancel, RelayAct, PeerFinishes, PeerLost,
     relayVars
<1>7. CASE Disconnect
  BY <1>1, <1>7 DEF Disconnect, relayVars
<1>8. CASE UNCHANGED vars
  BY <1>1, <1>8 DEF vars, relayVars
<1> QED
  BY <1>1, <1>2, <1>3, <1>4, <1>5, <1>6, <1>7, <1>8 DEF Next

LEMMA StarvedKept ==
  ASSUME SeenInv, NEW s \in Conns, NEW k \in Nat, Starved(s, k), [Next]_vars
  PROVE  Starved(s, k)' \/ ~Running(s)'
<1>1. RelayTypeOK /\ ~Readable(s) /\ Running(s) /\ rpc[s] # "none"
  BY DEF SeenInv, EngineInv, TypeOK, Starved, Running
<1>2. ToReturn(s) \in 0..6 /\ ToReturn(s)' \in 0..6
  BY ToReturnType
<1>3. ~Readable(s)'
  BY <1>1, LinkStaysDown
<1>4. ToReturn(s)' <= ToReturn(s)
  <2>1. CASE rpc'[s] = rpc[s] /\ inn'[s] = inn[s]
    BY <1>2, <2>1, ToReturnFrame
  <2>2. CASE RelayAct(InnNext(s))
    BY <1>1, <2>2, InnReturns DEF RelayAct
  <2>3. CASE RelayAct(MainStep(s))
    BY <1>1, <1>2, <2>3, MainReturns DEF RelayAct
  <2>4. ~SendResult(s)
    BY <1>1 DEF SendResult, Running
  <2> QED
    BY <1>1, <2>1, <2>2, <2>3, <2>4, RelayKeepsPlace
<1> QED
  BY <1>2, <1>3, <1>4 DEF Starved

\* A session whose relay has started has both pumps; the counts of errc hold.
PumpsInv == ErrcCounts /\ \A s \in Conns : rpc[s] # "none" => inn[s] # "none"

LEMMA PumpsInvStep == SeenInv /\ PumpsInv /\ [Next]_vars => PumpsInv'
<1> SUFFICES ASSUME SeenInv, PumpsInv, [Next]_vars PROVE PumpsInv'
  OBVIOUS
<1> USE DEF SeenInv, EngineInv, TypeOK, RelayTypeOK
<1>1. ASSUME UNCHANGED <<rpc, out, inn, errc>> PROVE PumpsInv'
  BY <1>1, CountsFrame DEF PumpsInv
<1>2. ASSUME NEW s \in Conns, RelayAct(OutNext(s)) PROVE PumpsInv'
  BY <1>2, CountsOut, OutType DEF PumpsInv, RelayAct
<1>3. ASSUME NEW s \in Conns, RelayAct(InnNext(s)) PROVE PumpsInv'
  <2>1. \A r \in Conns : inn[r] # "none" => inn'[r] # "none"
    BY <1>3 DEF RelayAct, InnNext, InnStep, InnGoes, RemoteReadOk, RemoteReadFails, FrameTooLong,
       TunWriteOk, TunWriteFails, TunWriteRefused, InnReports
  <2> QED
    BY <1>3, <2>1, CountsInn, InnType DEF PumpsInv, RelayAct
<1>4. ASSUME NEW s \in Conns, RelayAct(MainStep(s)) PROVE PumpsInv'
  <2>1. inn' = inn /\ \A r \in Conns : rpc'[r] # "none" => rpc[r] # "none"
    BY <1>4 DEF RelayAct, MainStep, MainGoes, ReceiveError, CloseTun, CloseRemote
  <2> QED
    BY <1>4, <2>1, CountsMain DEF PumpsInv, RelayAct
<1>5. ASSUME NEW s \in Conns, SendResult(s) PROVE PumpsInv'
  <2>1. /\ rpc[s] = "returned" /\ rpc' = [rpc EXCEPT ![s] = "done"]
        /\ UNCHANGED <<out, inn, errc>>
    BY <1>5 DEF SendResult
  <2> QED
    BY <2>1, CountsDone DEF PumpsInv
<1>6. ASSUME NEW s \in Conns, Establish(s) PROVE PumpsInv'
  <2>1. /\ rpc[s] = "none"
        /\ rpc' = [rpc EXCEPT ![s] = "wait"]
        /\ out' = [out EXCEPT ![s] = "tunRead"]
        /\ inn' = [inn EXCEPT ![s] = "remoteRead"]
        /\ UNCHANGED errc
    BY <1>6 DEF Establish, Dialing
  <2> QED
    BY <2>1, CountsStart DEF PumpsInv
<1>7. ASSUME NEW s \in Conns,
             \/ Connect(s) \/ QuicDialFails(s) \/ FallbackFails(s) \/ ClearCancel(s)
             \/ RelayAct(PeerFinishes(s)) \/ RelayAct(PeerLost(s))
      PROVE  PumpsInv'
  BY <1>1, <1>7 DEF Connect, QuicDialFails, FallbackFails, ClearCancel, RelayAct, PeerFinishes,
     PeerLost, relayVars
<1>8. CASE Disconnect
  BY <1>1, <1>8 DEF Disconnect, relayVars
<1>9. CASE UNCHANGED vars
  BY <1>1, <1>9 DEF vars, relayVars
<1> QED
  BY <1>2, <1>3, <1>4, <1>5, <1>6, <1>7, <1>8, <1>9 DEF Next

LEMMA PumpsInvariant == Spec => []PumpsInv
<1>1. Init => PumpsInv
  <2>1. Init => \A s \in Conns : rpc[s] = "none"
    BY DEF Init, RelayInit
  <2> QED
    BY <2>1, CountsInit DEF Init, PumpsInv
<1> QED
  BY <1>1, PumpsInvStep, SeenInvariant, PTL DEF Spec

\* The pumps of a session never wait to report their errors either, for every
\* set of sessions: both errors fit in the channel of which the session's
\* goroutine receives only one (relay.go:20, 61).
THEOREM SessionPumpsNeverBlock == Spec => []ErrcHasRoom
<1>1. SeenInv /\ PumpsInv => ErrcHasRoom
  BY CountsLeaveRoom DEF SeenInv, EngineInv, TypeOK, PumpsInv
<1> QED
  BY <1>1, SeenInvariant, PumpsInvariant, PTL

OneNearer(s, k) == Starved(s, k) ~> Starved(s, k - 1) \/ ~Running(s)

LEMMA ComesNearer ==
  ASSUME NEW s \in Conns, NEW k \in 1..6
  PROVE  FairSpec /\ []GuardsSuffice => OneNearer(s, k)
<1> DEFINE Before == Starved(s, k) /\ ~Starved(s, k - 1)
           After  == Starved(s, k - 1) \/ ~Running(s)
           Inv    == SeenInv /\ PumpsInv
<1>1. Inv /\ Before /\ [Next]_vars => Before' \/ After'
  <2> SUFFICES ASSUME SeenInv, Before, [Next]_vars PROVE Starved(s, k)' \/ ~Running(s)'
    OBVIOUS
  <2> QED
    BY StarvedKept
<1>2. ASSUME Before PROVE Starved(s, k) /\ ToReturn(s) = k
  BY <1>2, ToReturnType DEF Starved
<1>3. ASSUME Before, ToReturn(s)' < ToReturn(s), Starved(s, k)' \/ ~Running(s)'
      PROVE  After'
  <2>1. ToReturn(s) = k
    BY <1>2, <1>3
  <2>2. ToReturn(s)' <= k - 1
    BY <1>3, <2>1, ToReturnType
  <2> QED
    BY <1>3, <2>2 DEF Starved
<1>4. Fairness => FairTo(s)
  BY DEF Fairness
<1>5. ASSUME Inv, Before
      PROVE  /\ RelayTypeOK
             /\ k \in 4..6 => rpc[s] = "wait" /\ InnCan(s)
             /\ k \in 1..3 => GoroutineCan(s)
  <2>1. RelayTypeOK /\ inn[s] # "none"
    BY <1>5 DEF SeenInv, EngineInv, TypeOK, PumpsInv, Starved, Running
  <2> QED
    BY <1>2, <1>5, <2>1, StarvedCanMove DEF GoroutineCan, PumpsInv
<1>6. CASE k \in 4..6
  <2>1. Inv /\ Before /\ [Next]_vars /\ <<RelayAct(InnStep(s))>>_vars => After'
    <3> SUFFICES ASSUME Inv, Before, [Next]_vars, InnNext(s) PROVE After'
      BY DEF RelayAct, InnNext
    <3>1. ToReturn(s)' < ToReturn(s)
      BY <1>5, <1>6, InnReturns DEF Starved
    <3> QED
      BY <1>2, <1>3, <3>1, StarvedKept
  <2>2. Inv /\ GuardsSuffice /\ Before => ENABLED <<RelayAct(InnStep(s))>>_vars
    BY <1>5, <1>6 DEF GuardsSuffice
  <2> QED
    BY <1>1, <1>4, <2>1, <2>2, SeenInvariant, PumpsInvariant, PTL
    DEF FairSpec, FairTo, Spec, OneNearer
<1>7. CASE k \in 1..3
  <2>1. Inv /\ Before /\ [Next]_vars /\ <<GoroutineActs(s)>>_vars => After'
    <3> SUFFICES ASSUME Inv, Before, [Next]_vars, GoroutineActs(s) PROVE After'
      OBVIOUS
    <3>1. MainStep(s)
      BY DEF GoroutineActs, RelayAct, SendResult, ClearCancel, Starved, Running, SeenInv,
         GoroutineAndRelay
    <3>2. ToReturn(s)' < ToReturn(s)
      BY <1>5, <3>1, MainReturns
    <3> QED
      BY <1>2, <1>3, <3>2, StarvedKept
  <2>2. Inv /\ GuardsSuffice /\ Before => ENABLED <<GoroutineActs(s)>>_vars
    BY <1>5, <1>7 DEF GuardsSuffice
  <2> QED
    BY <1>1, <1>4, <2>1, <2>2, SeenInvariant, PumpsInvariant, PTL
    DEF FairSpec, FairTo, Spec, OneNearer
<1> QED
  BY <1>6, <1>7

EndsWithPeer(s) == Running(s) /\ ~Readable(s) ~> ~Running(s)

LEMMA EachEndsWithPeer ==
  ASSUME NEW s \in Conns
  PROVE  FairSpec /\ []GuardsSuffice => EndsWithPeer(s)
<1>1. FairSpec /\ []GuardsSuffice
        => /\ OneNearer(s, 6) /\ OneNearer(s, 5) /\ OneNearer(s, 4)
           /\ OneNearer(s, 3) /\ OneNearer(s, 2) /\ OneNearer(s, 1)
  BY ComesNearer
<1>2. /\ Starved(s, 6 - 1) => Starved(s, 5)
      /\ Starved(s, 5 - 1) => Starved(s, 4)
      /\ Starved(s, 4 - 1) => Starved(s, 3)
      /\ Starved(s, 3 - 1) => Starved(s, 2)
      /\ Starved(s, 2 - 1) => Starved(s, 1)
  BY DEF Starved
<1>3. Running(s) /\ ~Readable(s) => Starved(s, 6)
  BY ToReturnType DEF Starved
<1>4. SeenInv /\ Starved(s, 1 - 1) => ~Running(s)
  BY StarvedIsOver DEF SeenInv, EngineInv, TypeOK
<1> QED
  BY <1>1, <1>2, <1>3, <1>4, SeenInvariant, PTL DEF OneNearer, FairSpec, EndsWithPeer

\* The loss of its server ends a session's relay, for every set of sessions.
THEOREM LostPeersEndRelays == FairSpec /\ []GuardsSuffice => LostPeerEndsRelay
  BY EachEndsWithPeer DEF LostPeerEndsRelay, EndsWithPeer

\* A session whose server is gone makes room for the next Connect, unless
\* sessions have overlapped: its relay ends, and its goroutine forgets the
\* cancel function (relay.go:14-18, engine.go:95-102).
LostSessionMakesRoom ==
  \A s \in Conns : cancelFn = s /\ ~Readable(s) ~> cancelFn # s \/ overlapped

\* LostSessionMakesRoom, for every set of sessions.
THEOREM LostSessionsMakeRoom == FairSpec /\ []GuardsSuffice => LostSessionMakesRoom
<1> SUFFICES
      ASSUME NEW s \in Conns
      PROVE  FairSpec /\ []GuardsSuffice
               => (cancelFn = s /\ ~Readable(s) ~> cancelFn # s \/ overlapped)
  BY DEF LostSessionMakesRoom
<1>1. cancelFn = s \/ cancelFn # s
  OBVIOUS
<1> QED
  BY <1>1, EachEndsWithPeer, EachMakesRoom, PTL DEF EndsWithPeer, MakesRoom
=============================================================================
