-------------------------- MODULE VpnServiceProofs --------------------------
(***************************************************************************)
(* Proofs about VpnService, for every set of sessions and every set of     *)
(* descriptor numbers.  The engine enters by EngineContract only, which    *)
(* TunnelEngineProofs proves of the engine.                                *)
(***************************************************************************)
EXTENDS VpnService, TLAPS

LEMMA ContractInitOK == Init => ContractInv
<1> SUFFICES ASSUME Init PROVE ContractInv
  OBVIOUS
<1>1. \A s \in Conns : relay[s] = "none" /\ dial[s] = "none"
  BY DEF Init
<1>2. ContractTypeOK
  BY DEF Init, ContractTypeOK
<1> QED
  BY <1>1, <1>2 DEF ContractInv, DialAndRelay, OneBusy, Busy, Cancellable

LEMMA ContractInvKept ==
  ASSUME ContractInv, [Next]_contractVars
  PROVE  ContractInv'
<1> USE ContractAssumption
    DEF ContractInv, ContractTypeOK, DialAndRelay, OneBusy, Busy, Cancellable, Free, TcpConns
<1>1. CASE UNCHANGED contractVars
  BY <1>1 DEF contractVars
<1>2. ASSUME NEW s \in Conns, Connect(s) PROVE ContractInv'
  BY <1>2 DEF Connect
<1>3. ASSUME NEW s \in Conns, QuicDialFails(s) PROVE ContractInv'
  BY <1>3 DEF QuicDialFails
<1>4. ASSUME NEW s \in Conns, FallbackFails(s) PROVE ContractInv'
  BY <1>4 DEF FallbackFails
<1>5. ASSUME NEW s \in Conns, Establish(s) PROVE ContractInv'
  <2>1. ContractTypeOK' /\ DialAndRelay'
    BY <1>5 DEF Establish
  <2>2. \A r \in Conns : r # s => (Busy(r)' <=> Busy(r))
    BY <1>5 DEF Establish
  <2>3. ~overlapped' => ~overlapped /\ \A r \in Conns : ~Busy(r)
    BY <1>5 DEF Establish
  <2>4. OneBusy'
    BY <2>2, <2>3
  <2>5. Cancellable'
    BY <1>5, <2>3 DEF Establish
  <2> QED
    BY <2>1, <2>4, <2>5
<1>6. ASSUME NEW s \in Conns, CloseTun(s) PROVE ContractInv'
  BY <1>6 DEF CloseTun
<1>7. ASSUME NEW s \in Conns, SendResult(s) PROVE ContractInv'
  BY <1>7 DEF SendResult
<1>8. ASSUME NEW s \in Conns, ClearCancel(s) PROVE ContractInv'
  BY <1>8 DEF ClearCancel
<1>9. CASE Disconnect
  BY <1>9 DEF Disconnect
<1> QED
  BY <1>1, <1>2, <1>3, <1>4, <1>5, <1>6, <1>7, <1>8, <1>9 DEF Next
-----------------------------------------------------------------------------
(* The service uses the engine as EngineContract says.                     *)

\* What the user does that gives the service no new interface.
OfUser ==
  \/ SelectServer \/ Recreate \/ RequestPermission \/ AnsweredNo
  \/ ClickDisconnect \/ TapNotification \/ OnDestroy

LEMMA StepOfEngine == [ServiceNext]_serviceVars => [Next]_contractVars
<1> SUFFICES ASSUME [ServiceNext]_serviceVars PROVE [Next]_contractVars
  OBVIOUS
<1> USE DEF ThreadGoes, EngineAct, contractVars, Next
<1>1. CASE UNCHANGED serviceVars
  BY <1>1 DEF serviceVars
<1>2. CASE OfUser \/ NotPermitted
  BY <1>2 DEF OfUser, SelectServer, Recreate, RequestPermission, AnsweredNo, NotPermitted,
              ClickDisconnect, TapNotification, OnDestroy, Stop
<1>3. CASE MainThread
  BY <1>3 DEF MainThread, NotifyConnected, EngineDisconnect, ClosePfd
<1>4. ASSUME NEW s \in Conns, Connects(s) \/ Finalize(s)
      PROVE  UNCHANGED contractVars
  BY <1>4 DEF Connects, Finalize
<1>5. ASSUME NEW s \in Conns, Thread(s)
      PROVE  [Next]_contractVars
  BY <1>5 DEF Thread, ReadFd, CallConnect, ConnectRefused, Finally
<1>6. ASSUME NEW s \in Conns, QuicDial(s) \/ TcpDial(s) \/ RelayClosesTun(s) \/ RelayEnds(s)
      PROVE  Next
  BY <1>6 DEF QuicDial, TcpDial, RelayClosesTun, RelayEnds
<1> QED
  BY <1>1, <1>2, <1>3, <1>4, <1>5, <1>6 DEF ServiceNext, OfUser

\* Whatever the service, its threads and the user do, the engine sees calls in
\* an order that EngineContract allows.
THEOREM ServiceUsesEngine == ServiceSpec => Spec
<1>1. ServiceInit => Init
  BY DEF ServiceInit
<1> QED
  BY <1>1, StepOfEngine, PTL DEF ServiceSpec, Spec
-----------------------------------------------------------------------------
(* Type correctness.                                                       *)

LEMMA StartTypes ==
  ASSUME ServiceTypeOK, StartTunnel
  PROVE  /\ connectBtn' = "off" /\ disconnectBtn' = "on"
         /\ selectedProfile' \in {"none", "some"}
         /\ asking' \in 0..MaxAsking /\ hasty' \in {"no", "yes"}
  BY ServiceAssumption DEF ServiceTypeOK, StartTunnel, MayStart, PressConnect, Answered

LEMMA ServiceTypes ==
  ASSUME ServiceTypeOK, [ServiceNext]_serviceVars
  PROVE  ServiceTypeOK'
<1> USE ServiceAssumption
    DEF ServiceTypeOK, ThreadGoes, EngineAct, Forgets, appVars, mainVars, fdVars, uiVars
<1>1. CASE UNCHANGED serviceVars
  BY <1>1 DEF serviceVars
<1>2. CASE SelectServer
  BY <1>2 DEF SelectServer
<1>3. CASE NotPermitted
  BY <1>3, StartTypes DEF NotPermitted
<1>4. CASE ClickDisconnect \/ TapNotification \/ OnDestroy
  BY <1>4 DEF ClickDisconnect, TapNotification, OnDestroy, Stop
<1>5. CASE NotifyConnected
  BY <1>5 DEF NotifyConnected
<1>6. CASE EngineDisconnect
  BY <1>6 DEF EngineDisconnect
<1>7. CASE ClosePfd
  BY <1>7 DEF ClosePfd
<1>8. ASSUME NEW s \in Conns, Connects(s) PROVE ServiceTypeOK'
  BY <1>8, StartTypes DEF Connects
<1>9. ASSUME NEW s \in Conns, Finalize(s) PROVE ServiceTypeOK'
  BY <1>9 DEF Finalize
<1>10. ASSUME NEW s \in Conns, Thread(s) PROVE ServiceTypeOK'
  BY <1>10 DEF Thread, ReadFd, CallConnect, ConnectRefused, Finally
<1>11. ASSUME NEW s \in Conns, RelayClosesTun(s) PROVE ServiceTypeOK'
  BY <1>11 DEF RelayClosesTun
<1>12. ASSUME NEW s \in Conns, QuicDial(s) \/ TcpDial(s) \/ RelayEnds(s)
       PROVE  ServiceTypeOK'
  BY <1>12 DEF QuicDial, TcpDial, RelayEnds
<1>13. CASE Recreate
  BY <1>13 DEF Recreate
<1>14. CASE RequestPermission \/ AnsweredNo
  BY <1>14 DEF RequestPermission, PressConnect, AnsweredNo, Answered
<1> QED
  BY <1>1, <1>2, <1>3, <1>4, <1>5, <1>6, <1>7, <1>8, <1>9, <1>10, <1>11, <1>12, <1>13, <1>14
  DEF ServiceNext, MainThread

LEMMA ServiceInitOK == ServiceInit => ServiceInv
<1> SUFFICES ASSUME ServiceInit PROVE ServiceInv
  OBVIOUS
<1>1. ContractInv
  BY ContractInitOK DEF ServiceInit
<1>2. ServiceTypeOK
  BY ServiceAssumption DEF ServiceInit, ServiceTypeOK
<1>3. /\ tunPfd = NoConn /\ main = "idle" /\ notice = "none"
      /\ selectedProfile = "none" /\ asking = 0
  BY DEF ServiceInit
<1>4. \A s \in Conns : pfd[s] = "none"
  BY DEF ServiceInit
<1> QED
  BY <1>1, <1>2, <1>3, <1>4, ContractAssumption
  DEF ServiceInv, NobodyOnTheWay, DestroyCancels, NumberIsOwn, OwnDescriptor, Buttons,
      NoneOverwritten, NotifiesInForeground, StoppedIsNotConnected

\* Every variable of the service keeps its type.
THEOREM ServiceTypeCorrect == ServiceSpec => []ServiceTypeOK
<1>1. ServiceInit => ServiceTypeOK
  BY ServiceInitOK DEF ServiceInv
<1> QED
  BY <1>1, ServiceTypes, PTL DEF ServiceSpec
-----------------------------------------------------------------------------
(* Notifications and buttons.                                              *)

LEMMA NoticeKept ==
  ASSUME ServiceInv, ServiceTypeOK', [ServiceNext]_serviceVars
  PROVE  NotifiesInForeground' /\ StoppedIsNotConnected'
<1> USE DEF ServiceInv, ServiceTypeOK, NotifiesInForeground, StoppedIsNotConnected,
            ThreadGoes, EngineAct, appVars, mainVars
<1>1. CASE UNCHANGED <<main, foreground, notice>>
  BY <1>1
<1>2. CASE NotPermitted
  BY <1>2 DEF NotPermitted
<1>3. CASE ClickDisconnect \/ TapNotification \/ OnDestroy
  BY <1>3 DEF ClickDisconnect, TapNotification, OnDestroy, Stop
<1>4. CASE NotifyConnected
  BY <1>4 DEF NotifyConnected
<1>5. CASE EngineDisconnect
  BY <1>5 DEF EngineDisconnect
<1>6. CASE ClosePfd
  BY <1>6 DEF ClosePfd
<1>7. ASSUME NEW s \in Conns, Connects(s)
      PROVE  NotifiesInForeground' /\ StoppedIsNotConnected'
  BY <1>7 DEF Connects
<1>8. ASSUME NEW s \in Conns, Thread(s)
      PROVE  NotifiesInForeground' /\ StoppedIsNotConnected'
  BY <1>8 DEF Thread, ReadFd, CallConnect, ConnectRefused, Finally
<1>9. ASSUME NEW s \in Conns,
             Finalize(s) \/ RelayClosesTun(s) \/ QuicDial(s) \/ TcpDial(s) \/ RelayEnds(s)
      PROVE  UNCHANGED <<main, foreground, notice>>
  BY <1>9 DEF Finalize, RelayClosesTun, QuicDial, TcpDial, RelayEnds
<1>10. SelectServer \/ Recreate \/ RequestPermission \/ AnsweredNo \/ UNCHANGED serviceVars
         => UNCHANGED <<main, foreground, notice>>
  BY DEF SelectServer, Recreate, RequestPermission, AnsweredNo, serviceVars
<1> HIDE DEF ServiceInv, ServiceTypeOK, NotifiesInForeground, StoppedIsNotConnected
<1> QED
  BY <1>1, <1>2, <1>3, <1>4, <1>5, <1>6, <1>7, <1>8, <1>9, <1>10 DEF ServiceNext, MainThread

LEMMA ButtonsKept ==
  ASSUME ServiceInv, ServiceTypeOK', [ServiceNext]_serviceVars
  PROVE  Buttons' /\ NoneOverwritten'
<1> USE ContractAssumption
    DEF ServiceInv, ServiceTypeOK, Buttons, NoneOverwritten, ThreadGoes, EngineAct, Forgets,
        appVars, mainVars, fdVars, uiVars
<1>1. CASE UNCHANGED <<main, tunPfd, pfd, uiVars>>
  BY <1>1
<1>2. CASE SelectServer
  BY <1>2 DEF SelectServer
<1>3. CASE NotPermitted
  BY <1>3, ServiceAssumption DEF NotPermitted, StartTunnel, MayStart, PressConnect, Answered
<1>4. CASE ClickDisconnect \/ TapNotification \/ OnDestroy
  BY <1>4 DEF ClickDisconnect, TapNotification, OnDestroy, Stop
<1>5. CASE NotifyConnected
  BY <1>5 DEF NotifyConnected
<1>6. CASE EngineDisconnect
  BY <1>6 DEF EngineDisconnect
<1>7. CASE ClosePfd
  BY <1>7 DEF ClosePfd
<1>8. ASSUME NEW s \in Conns, Connects(s) PROVE Buttons' /\ NoneOverwritten'
  BY <1>8, ServiceAssumption DEF Connects, StartTunnel, MayStart, PressConnect, Answered
<1>9. ASSUME NEW s \in Conns, Finalize(s) PROVE Buttons' /\ NoneOverwritten'
  BY <1>9 DEF Finalize
<1>10. ASSUME NEW s \in Conns,
              Thread(s) \/ RelayClosesTun(s) \/ QuicDial(s) \/ TcpDial(s) \/ RelayEnds(s)
       PROVE  UNCHANGED <<main, tunPfd, pfd, uiVars>>
  BY <1>10
  DEF Thread, ReadFd, CallConnect, ConnectRefused, Finally, RelayClosesTun, QuicDial,
      TcpDial, RelayEnds
<1>11. UNCHANGED serviceVars => UNCHANGED <<main, tunPfd, pfd, uiVars>>
  BY DEF serviceVars
<1>12. CASE Recreate
  BY <1>12 DEF Recreate
<1>13. CASE RequestPermission
  BY <1>13, ServiceAssumption DEF RequestPermission, PressConnect
<1>14. CASE AnsweredNo
  BY <1>14, ServiceAssumption DEF AnsweredNo, Answered
<1> HIDE DEF ServiceInv, ServiceTypeOK, Buttons, NoneOverwritten
<1> QED
  BY <1>1, <1>2, <1>3, <1>4, <1>5, <1>6, <1>7, <1>8, <1>9, <1>10, <1>11, <1>12, <1>13, <1>14
  DEF ServiceNext, MainThread
-----------------------------------------------------------------------------
(* Who may still be on the way to a relay when the service has gone.       *)

\* Once engine.disconnect() has returned, the engine gives nobody a relay that
\* was not already on the way.
LEMMA OnTheWayKept ==
  ASSUME ServiceInv, ServiceTypeOK', ContractInv', [ServiceNext]_serviceVars
  PROVE  NobodyOnTheWay'
<1> USE DEF ServiceInv, ServiceTypeOK, ContractInv, ContractTypeOK, NobodyOnTheWay,
            ThreadGoes, EngineAct, contractVars, appVars, mainVars
<1>1. CASE UNCHANGED <<contractVars, main, thread, late>>
  BY <1>1
<1>2. CASE OfUser \/ NotPermitted \/ NotifyConnected
  BY <1>2 DEF OfUser, SelectServer, Recreate, RequestPermission, AnsweredNo, NotPermitted,
              ClickDisconnect, TapNotification, OnDestroy, Stop, NotifyConnected
<1>3. CASE EngineDisconnect
  <2> SUFFICES ASSUME NEW s \in Conns,
                      \/ thread'[s] \in {"fd", "lock"}
                      \/ dial'[s] \in {"quic", "tcp"}
                      \/ relay'[s] = "open" /\ ~ctxCancelled'[s],
                      ~overlapped'
               PROVE  s \in late'
    OBVIOUS
  <2>1. CASE thread'[s] \in {"fd", "lock"}
    BY <1>3, <2>1 DEF EngineDisconnect
  <2>2. dial'[s] \notin {"quic", "tcp"}
    BY <1>3, ContractAssumption
    DEF EngineDisconnect, Disconnect, Free, DialAndRelay
  <2>3. ~(relay'[s] = "open" /\ ~ctxCancelled'[s])
    <3>1. relay' = relay /\ overlapped' = overlapped
      BY <1>3 DEF EngineDisconnect, Disconnect
    <3>2. CASE cancelFn = NoConn /\ UNCHANGED contractVars
      BY <3>1, <3>2, ContractAssumption DEF Cancellable
    <3>3. CASE Disconnect
      <4>1. PICK r \in Conns :
              cancelFn = r /\ ctxCancelled' = [ctxCancelled EXCEPT ![r] = TRUE]
        BY <3>3 DEF Disconnect
      <4> QED
        BY <3>1, <4>1 DEF Cancellable
    <3> QED
      BY <1>3, <3>2, <3>3 DEF EngineDisconnect
  <2> QED
    BY <2>1, <2>2, <2>3
<1>4. CASE ClosePfd
  BY <1>4 DEF ClosePfd
<1>5. ASSUME NEW s \in Conns, Connects(s) PROVE NobodyOnTheWay'
  BY <1>5 DEF Connects
<1>6. ASSUME NEW s \in Conns, Thread(s) PROVE NobodyOnTheWay'
  BY <1>6 DEF Thread, ReadFd, CallConnect, ConnectRefused, Finally, Connect
<1>7. ASSUME NEW s \in Conns, QuicDial(s) \/ TcpDial(s) PROVE NobodyOnTheWay'
  BY <1>7 DEF QuicDial, TcpDial, QuicDialFails, FallbackFails, Establish
<1>8. ASSUME NEW s \in Conns, RelayClosesTun(s) \/ RelayEnds(s) PROVE NobodyOnTheWay'
  BY <1>8 DEF RelayClosesTun, RelayEnds, CloseTun, SendResult, ClearCancel
<1>9. (\E s \in Conns : Finalize(s)) \/ UNCHANGED serviceVars
        => UNCHANGED <<contractVars, main, thread, late>>
  BY DEF Finalize, serviceVars
<1> HIDE DEF ServiceInv, ServiceTypeOK, ContractInv, ContractTypeOK, NobodyOnTheWay
<1> QED
  BY <1>1, <1>2, <1>3, <1>4, <1>5, <1>6, <1>7, <1>8, <1>9
  DEF ServiceNext, MainThread, OfUser

LEMMA OnTheWayIsEnough == NobodyOnTheWay => DestroyCancels
  BY DEF NobodyOnTheWay, DestroyCancels
-----------------------------------------------------------------------------
(* Descriptor numbers.                                                     *)

\* A session that nobody uses any more does not come into use again.
LEMMA InUseKept ==
  ASSUME ServiceInv, [ServiceNext]_serviceVars, NEW r \in Conns, InUse(r)', ~Connects(r)
  PROVE  InUse(r)
<1> USE DEF ServiceInv, ServiceTypeOK, ContractInv, ContractTypeOK, InUse,
            ThreadGoes, EngineAct, Forgets, contractVars, appVars, mainVars, fdVars, uiVars
<1>1. CASE UNCHANGED <<dial, relay, pfd, thread>>
  BY <1>1
<1>2. CASE OfUser \/ NotPermitted
  BY <1>2 DEF OfUser, SelectServer, Recreate, RequestPermission, AnsweredNo, NotPermitted,
              ClickDisconnect, TapNotification, OnDestroy, Stop
<1>3. CASE NotifyConnected \/ EngineDisconnect
  BY <1>3 DEF NotifyConnected, EngineDisconnect, Disconnect
<1>4. CASE ClosePfd
  BY <1>4 DEF ClosePfd
<1>5. ASSUME NEW s \in Conns, Connects(s) PROVE InUse(r)
  <2>1. s # r
    BY <1>5
  <2> QED
    BY <1>5, <2>1 DEF Connects
<1>6. ASSUME NEW s \in Conns, Finalize(s) PROVE InUse(r)
  BY <1>6 DEF Finalize
<1>7. ASSUME NEW s \in Conns, Thread(s) PROVE InUse(r)
  BY <1>7 DEF Thread, ReadFd, CallConnect, ConnectRefused, Finally, Connect
<1>8. ASSUME NEW s \in Conns, QuicDial(s) \/ TcpDial(s) PROVE InUse(r)
  BY <1>8 DEF QuicDial, TcpDial, QuicDialFails, FallbackFails, Establish
<1>9. ASSUME NEW s \in Conns, RelayClosesTun(s) \/ RelayEnds(s) PROVE InUse(r)
  BY <1>9 DEF RelayClosesTun, RelayEnds, CloseTun, SendResult, ClearCancel
<1>10. UNCHANGED serviceVars => UNCHANGED <<dial, relay, pfd, thread>>
  BY DEF serviceVars
<1> HIDE DEF ServiceInv, ServiceTypeOK, ContractInv, ContractTypeOK, InUse
<1> QED
  BY <1>1, <1>2, <1>3, <1>4, <1>5, <1>6, <1>7, <1>8, <1>9, <1>10
  DEF ServiceNext, MainThread, OfUser

\* The three actions that change who holds which number.
LEMMA NumbersMove ==
  ASSUME [ServiceNext]_serviceVars
  PROVE  \/ \E s \in Conns : Connects(s) \/ Finalize(s) \/ RelayClosesTun(s)
         \/ ClosePfd
         \/ UNCHANGED <<tunPfd, fdOf, file, reused>>
<1> USE DEF ThreadGoes, EngineAct, appVars, fdVars
<1>1. CASE OfUser \/ NotPermitted
  BY <1>1 DEF OfUser, SelectServer, Recreate, RequestPermission, AnsweredNo, NotPermitted,
              ClickDisconnect, TapNotification, OnDestroy, Stop
<1>2. CASE NotifyConnected \/ EngineDisconnect \/ UNCHANGED serviceVars
  BY <1>2 DEF NotifyConnected, EngineDisconnect, serviceVars
<1>3. ASSUME NEW s \in Conns, Thread(s) \/ QuicDial(s) \/ TcpDial(s) \/ RelayEnds(s)
      PROVE  UNCHANGED <<tunPfd, fdOf, file, reused>>
  BY <1>3 DEF Thread, ReadFd, CallConnect, ConnectRefused, Finally, QuicDial, TcpDial, RelayEnds
<1> QED
  BY <1>1, <1>2, <1>3 DEF ServiceNext, MainThread, OfUser

\* The relay of a session closes its TUN once.
LEMMA ClosedKept ==
  ASSUME ContractInv, [Next]_contractVars, NEW s \in Conns, Closed(s)
  PROVE  Closed(s)'
<1> USE DEF ContractInv, ContractTypeOK, DialAndRelay, Closed
<1>1. CASE UNCHANGED relay
  BY <1>1
<1>2. ASSUME NEW r \in Conns, Establish(r) PROVE Closed(s)'
  BY <1>2 DEF Establish
<1>3. ASSUME NEW r \in Conns, CloseTun(r) \/ SendResult(r) \/ ClearCancel(r) PROVE Closed(s)'
  BY <1>3 DEF CloseTun, SendResult, ClearCancel
<1> QED
  BY <1>1, <1>2, <1>3
  DEF Next, Connect, QuicDialFails, FallbackFails, Disconnect, contractVars

LEMMA NumberKept ==
  ASSUME ServiceInv, ServiceTypeOK', [ServiceNext]_serviceVars
  PROVE  NumberIsOwn' /\ OwnDescriptor'
<1> USE ServiceAssumption, ContractAssumption
    DEF ServiceInv, ServiceTypeOK, NumberIsOwn, OwnDescriptor
<1>0. \A s \in Conns : Closed(s) => Closed(s)'
  BY ClosedKept, StepOfEngine
<1>1. ASSUME NEW s \in Conns, Connects(s)
      PROVE  NumberIsOwn' /\ OwnDescriptor'
  <2>1. PICK n \in Numbers :
          /\ fdOf' = [fdOf EXCEPT ![s] = n]
          /\ file' = [file EXCEPT ![n] = s]
          /\ reused' = IF \E r \in Conns : fdOf[r] = n /\ InUse(r)
                          THEN reused \cup {s} ELSE reused
    BY <1>1 DEF Connects
  <2>2. tunPfd' = s
    BY <1>1 DEF Connects
  <2>3. OwnDescriptor'
    BY <2>1, <2>2
  <2>4. ASSUME s \notin reused', NEW r \in Conns, InUse(r)', r # s
        PROVE  fdOf'[r] # fdOf'[s]
    <3>1. ~Connects(r)
      BY <2>2, <2>4 DEF Connects
    <3>2. InUse(r)
      BY <2>4, <3>1, InUseKept
    <3> QED
      BY <2>1, <2>4, <3>2
  <2> QED
    BY <2>2, <2>3, <2>4
<1>2. ASSUME tunPfd' \in {tunPfd, NoConn}, UNCHANGED <<fdOf, reused>>,
             \A s \in Conns : ~Connects(s)
      PROVE  NumberIsOwn'
  BY <1>2, InUseKept
<1>3. ASSUME NEW r \in Conns, Finalize(r)
      PROVE  OwnDescriptor'
  BY <1>0, <1>3 DEF Finalize, Forgets, InUse
<1>4. ASSUME NEW r \in Conns, RelayClosesTun(r)
      PROVE  OwnDescriptor'
  <2>1. relay[r] = "open" /\ Closed(r)'
    BY <1>4 DEF RelayClosesTun, CloseTun, Closed, ContractInv, ContractTypeOK
  <2>2. /\ file' = [file EXCEPT ![fdOf[r]] = NoConn]
        /\ UNCHANGED <<tunPfd, fdOf, reused>>
    BY <1>4 DEF RelayClosesTun
  <2> QED
    BY <1>0, <2>1, <2>2 DEF InUse
<1>5. ClosePfd => tunPfd' = NoConn /\ OwnDescriptor' /\ UNCHANGED <<fdOf, reused>>
  BY DEF ClosePfd
<1>6. UNCHANGED <<tunPfd, fdOf, file, reused>> => OwnDescriptor'
  BY <1>0
<1>7. ASSUME NEW r \in Conns, Finalize(r) \/ RelayClosesTun(r)
      PROVE  UNCHANGED <<tunPfd, fdOf, reused>>
  BY <1>7 DEF Finalize, RelayClosesTun
<1> HIDE DEF ServiceInv, ServiceTypeOK, NumberIsOwn, OwnDescriptor
<1> QED
  BY <1>1, <1>2, <1>3, <1>4, <1>5, <1>6, <1>7, NumbersMove
-----------------------------------------------------------------------------
LEMMA ServiceInvKept == ServiceInv /\ [ServiceNext]_serviceVars => ServiceInv'
<1> SUFFICES ASSUME ServiceInv, [ServiceNext]_serviceVars PROVE ServiceInv'
  OBVIOUS
<1>1. ServiceTypeOK' /\ ContractInv'
  BY ServiceTypes, ContractInvKept, StepOfEngine DEF ServiceInv
<1>2. NobodyOnTheWay' /\ DestroyCancels'
  BY <1>1, OnTheWayKept, OnTheWayIsEnough DEF NobodyOnTheWay, DestroyCancels
<1> QED
  BY <1>1, <1>2, NumberKept, ButtonsKept, NoticeKept DEF ServiceInv

LEMMA ServiceInvariant == ServiceSpec => []ServiceInv
  BY ServiceInitOK, ServiceInvKept, PTL DEF ServiceSpec

\* A destroyed service has called cancel() for every relay that still runs, but
\* those of threads that disconnect() overtook and of overlapping sessions
\* (TunnelVpnService.kt:118-128).  Those it cancelled need not end: that takes
\* another packet, or the peer.
THEOREM DestroyedServiceCancels == ServiceSpec => []DestroyCancels
<1>1. ServiceInv => DestroyCancels
  BY DEF ServiceInv
<1> QED
  BY <1>1, ServiceInvariant, PTL

\* The number of the interface in use is closed by its own session only.
THEOREM DescriptorIsOwn == ServiceSpec => []OwnDescriptor
<1>1. ServiceInv => OwnDescriptor
  BY DEF ServiceInv
<1> QED
  BY <1>1, ServiceInvariant, PTL

\* No interface is forgotten by a user who selects no server while one is held,
\* in this activity or a new one, and presses CONNECT once for each request for
\* the permission (MainActivity.kt:48-55, 96-109, TunnelVpnService.kt:89).
THEOREM NoInterfaceForgotten == ServiceSpec => []NoneOverwritten
<1>1. ServiceInv => NoneOverwritten
  BY DEF ServiceInv
<1> QED
  BY <1>1, ServiceInvariant, PTL

\* The notification of a stopped service never says that it is connected.
THEOREM StoppedNeverConnected == ServiceSpec => []StoppedIsNotConnected
<1>1. ServiceInv => StoppedIsNotConnected
  BY DEF ServiceInv
<1> QED
  BY <1>1, ServiceInvariant, PTL
-----------------------------------------------------------------------------
(* Liveness.  The prover has no rules for ENABLED: the theorem takes       *)
(* GuardsSuffice as a hypothesis, which the guards of the actions imply.   *)

LEMMA HolderKept ==
  ASSUME ContractInv, HolderDials, [Next]_contractVars
  PROVE  HolderDials'
<1> USE ContractAssumption DEF ContractInv, ContractTypeOK, DialAndRelay, HolderDials
<1>1. ASSUME NEW s \in Conns, Connect(s) PROVE HolderDials'
  BY <1>1 DEF Connect
<1>2. ASSUME NEW s \in Conns, QuicDialFails(s) \/ FallbackFails(s) \/ Establish(s)
      PROVE  HolderDials'
  BY <1>2 DEF QuicDialFails, FallbackFails, Establish
<1>3. ASSUME NEW s \in Conns, CloseTun(s) \/ SendResult(s) \/ ClearCancel(s)
      PROVE  HolderDials'
  BY <1>3 DEF CloseTun, SendResult, ClearCancel
<1>4. CASE Disconnect
  BY <1>4 DEF Disconnect
<1>5. CASE UNCHANGED contractVars
  BY <1>5 DEF contractVars
<1> QED
  BY <1>1, <1>2, <1>3, <1>4, <1>5 DEF Next

HeldInv == ServiceInv /\ HolderDials

LEMMA HeldInvariant == ServiceSpec => []HeldInv
<1>1. ServiceInit => HeldInv
  BY ServiceInitOK DEF ServiceInit, Init, HolderDials, HeldInv
<1>2. HeldInv /\ [ServiceNext]_serviceVars => HeldInv'
  BY ServiceInvKept, StepOfEngine, HolderKept DEF HeldInv, ServiceInv
<1> QED
  BY <1>1, <1>2, PTL DEF ServiceSpec

\* The sessions whose Connect has got as far as dialing.
Called == {s \in Conns : dial[s] # "none"}
SomeTcp == \E s \in Conns : dial[s] = "tcp"

\* disconnect() waits, and t.mu is held by a QUIC dial, or free.
HeldBy(called, s) == main = "lock" /\ Called = called /\ mu = s /\ dial[s] = "quic"
NotHeld(called) == main = "lock" /\ Called = called /\ Free
Moved(called) == main # "lock" \/ Called # called \/ SomeTcp

LEMMA DialsKept ==
  ASSUME ContractInv, HolderDials, [Next]_contractVars
  PROVE  \/ UNCHANGED <<mu, dial>>
         \/ \E s \in Conns : mu = NoConn /\ dial[s] = "none" /\ dial'[s] = "quic"
         \/ SomeTcp'
         \/ SomeTcp
         \/ mu' = NoConn /\ Called' = Called
<1> USE ContractAssumption DEF ContractInv, ContractTypeOK, DialAndRelay, HolderDials
<1>1. ASSUME NEW s \in Conns, Connect(s)
      PROVE  mu = NoConn /\ dial[s] = "none" /\ dial'[s] = "quic"
  BY <1>1 DEF Connect, Free
<1>2. ASSUME NEW s \in Conns, QuicDialFails(s) PROVE SomeTcp'
  BY <1>2 DEF QuicDialFails, SomeTcp
<1>3. ASSUME NEW s \in Conns, FallbackFails(s) PROVE SomeTcp
  BY <1>3 DEF FallbackFails, SomeTcp
<1>4. ASSUME NEW s \in Conns, Establish(s) PROVE mu' = NoConn /\ Called' = Called
  BY <1>4 DEF Establish, Called
<1>5. ASSUME NEW s \in Conns, CloseTun(s) \/ SendResult(s) \/ ClearCancel(s)
      PROVE  UNCHANGED <<mu, dial>>
  BY <1>5 DEF CloseTun, SendResult, ClearCancel
<1>6. CASE Disconnect
  BY <1>6 DEF Disconnect
<1> QED
  BY <1>1, <1>2, <1>3, <1>4, <1>5, <1>6 DEF Next, contractVars

LEMMA HeldByKept ==
  ASSUME HeldInv, NEW called, NEW s \in Conns, HeldBy(called, s), [ServiceNext]_serviceVars
  PROVE  (HeldBy(called, s) \/ NotHeld(called) \/ Moved(called))' \/ SomeTcp
<1>1. mu # NoConn
  BY ContractAssumption DEF HeldBy
<1> QED
  BY <1>1, StepOfEngine, DialsKept
  DEF HeldInv, ServiceInv, HeldBy, NotHeld, Moved, Free, Called

LEMMA NotHeldKept ==
  ASSUME HeldInv, NEW called, NotHeld(called), [ServiceNext]_serviceVars
  PROVE  (NotHeld(called) \/ Moved(called))' \/ SomeTcp
<1>1. ASSUME NEW s \in Conns, dial[s] = "none", dial'[s] = "quic" PROVE Called' # Called
  BY <1>1 DEF Called
<1> QED
  BY <1>1, StepOfEngine, DialsKept
  DEF HeldInv, ServiceInv, NotHeld, Moved, Free, Called

LEMMA QuicDialEnds ==
  ASSUME HeldInv, NEW called, NEW s \in Conns, HeldBy(called, s), QuicDial(s)
  PROVE  (NotHeld(called) \/ Moved(called))'
<1> USE DEF HeldInv, ServiceInv, ContractInv, ContractTypeOK
<1>1. CASE EngineAct(QuicDialFails(s))
  BY <1>1 DEF EngineAct, QuicDialFails, Moved, SomeTcp
<1>2. CASE EngineAct(Establish(s))
  BY <1>2 DEF EngineAct, Establish, HeldBy, NotHeld, Called, Free, appVars, mainVars
<1> QED
  BY <1>1, <1>2 DEF QuicDial

\* disconnect() holds up the main thread for no longer than the dial under way,
\* unless that is a TCP dial: only another session's Connect can hold it up
\* again.  DisconnectGoesOn goes on to say so over all sessions.
GoesOnAfter(called, holder) ==
  main = "lock" /\ Called = called /\ mu = holder
    ~> main # "lock" \/ Called # called \/ SomeTcp
HeldUpByConnects ==
  \A called \in SUBSET Conns, holder \in Conns \cup {NoConn} : GoesOnAfter(called, holder)

LEMMA FreeLetsGo ==
  ASSUME NEW called
  PROVE  /\ FairServiceSpec /\ []GuardsSuffice => (NotHeld(called) ~> Moved(called))
         /\ FairServiceSpec /\ []GuardsSuffice => GoesOnAfter(called, NoConn)
<1>1. HeldInv /\ NotHeld(called) /\ [ServiceNext]_serviceVars
        => (NotHeld(called) \/ Moved(called))' \/ SomeTcp
  BY NotHeldKept
<1>2. NotHeld(called) /\ <<ServiceNext /\ MainThread>>_serviceVars => Moved(called)'
  BY DEF NotHeld, Moved, MainThread, NotifyConnected, EngineDisconnect, ClosePfd
<1>3. GuardsSuffice /\ NotHeld(called) => ENABLED <<MainThread>>_serviceVars
  BY DEF GuardsSuffice, NotHeld
<1>4. NotHeld(called) <=> main = "lock" /\ Called = called /\ mu = NoConn
  BY DEF NotHeld, Free
<1>5. Moved(called) <=> main # "lock" \/ Called # called \/ SomeTcp
  BY DEF Moved
<1> QED
  BY <1>1, <1>2, <1>3, <1>4, <1>5, HeldInvariant,
     PTL DEF FairServiceSpec, ServiceSpec, ServiceFairness, GoesOnAfter

LEMMA HolderLetsGo ==
  ASSUME NEW called, NEW s \in Conns
  PROVE  FairServiceSpec /\ []GuardsSuffice => GoesOnAfter(called, s)
<1>1. HeldInv /\ main = "lock" /\ Called = called /\ mu = s
        => HeldBy(called, s) \/ Moved(called)
  BY ContractAssumption DEF HeldInv, HolderDials, HeldBy, Moved, SomeTcp
<1>2. HeldInv /\ HeldBy(called, s) /\ [ServiceNext]_serviceVars
        => (HeldBy(called, s) \/ NotHeld(called) \/ Moved(called))' \/ SomeTcp
  BY HeldByKept
<1>3. HeldInv /\ HeldBy(called, s) /\ <<ServiceNext /\ QuicDial(s)>>_serviceVars
        => (NotHeld(called) \/ Moved(called))'
  BY QuicDialEnds
<1>4. GuardsSuffice /\ HeldBy(called, s) => ENABLED <<QuicDial(s)>>_serviceVars
  BY DEF GuardsSuffice, HeldBy
<1>5. Moved(called) <=> main # "lock" \/ Called # called \/ SomeTcp
  BY DEF Moved
<1>6. DialsEnd => DialEnds(s)
  BY DEF DialsEnd
<1>7. FairServiceSpec /\ []GuardsSuffice => (NotHeld(called) ~> Moved(called))
  BY FreeLetsGo
<1> QED
  BY <1>1, <1>2, <1>3, <1>4, <1>5, <1>6, <1>7, HeldInvariant,
     PTL DEF FairServiceSpec, ServiceSpec, ServiceFairness, DialEnds, GoesOnAfter

\* The QUIC dial that holds t.mu ends, and then nothing is in the way of
\* engine.disconnect() (TunnelVpnService.kt:119; engine.go:57, 109).
THEOREM DisconnectWaitsForDials ==
  FairServiceSpec /\ []GuardsSuffice => HeldUpByConnects
<1>1. ASSUME NEW called \in SUBSET Conns, NEW holder \in Conns \cup {NoConn}
      PROVE  FairServiceSpec /\ []GuardsSuffice => GoesOnAfter(called, holder)
  BY FreeLetsGo, HolderLetsGo
<1> QED
  BY <1>1 DEF HeldUpByConnects
=============================================================================
