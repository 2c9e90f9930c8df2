----------------------------- MODULE VpnService -----------------------------
(***************************************************************************)
(* The Android application around TunnelEngine: one TunnelVpnService       *)
(* (TunnelVpnService.kt) and the buttons of MainActivity that start it.    *)
(*                                                                         *)
(* Both run on the application's main thread, one handler after another;   *)
(* what a handler does without a step of others that could tell is one     *)
(* action.  Every CONNECT that establishes a VPN interface is a session of *)
(* TunnelEngine, with a thread of its own that calls engine.connect and    *)
(* posts "Disconnected" when it returns.                                   *)
(*                                                                         *)
(* The descriptor of the interface has two owners that know it by number   *)
(* only: the ParcelFileDescriptor pfd[s], which main or the garbage        *)
(* collector closes, and the engine's os.File, which the relay closes      *)
(* (CloseTun).  file is the process's descriptor table.                    *)
(*                                                                         *)
(* An intent is delivered when its button is pressed: delivery keeps the   *)
(* order, and neither side looks at the other's state.  Nothing is said of *)
(* a service object created after this one was destroyed.                  *)
(*                                                                         *)
(* The activity comes and goes while the service lives on.  Its layout is  *)
(* not in the repository: it gives a new activity's buttons their state.   *)
(***************************************************************************)
EXTENDS EngineContract

CONSTANTS
  Numbers,     \* descriptor numbers
  Layout,      \* the state in which a new activity finds each of its buttons
  MaxAsking    \* bound: requests for the VPN permission without an answer

ASSUME ServiceAssumption ==
  /\ Numbers \subseteq Nat \ {0}
  /\ Layout \in [connectBtn : {"off", "on"}, disconnectBtn : {"off", "on"}]
  /\ MaxAsking \in Nat

VARIABLES
  main,           \* where the main thread is
  last,           \* is the disconnect() under way that of onDestroy?
  tunPfd,         \* whose ParcelFileDescriptor the service holds, or NoConn
  pfd,            \* per session: its ParcelFileDescriptor
  fdOf,           \* per session: the number of its descriptor, 0 before
  file,           \* per number: whose interface is open under it, or NoConn
  thread,         \* per session: its connect thread
  foreground,     \* is the service in the foreground?
  notice,         \* the notification
  connectBtn, disconnectBtn, selectedProfile,     \* MainActivity
  asking,         \* its requests for the VPN permission without an answer
  reused,         \* history: sessions whose number had a user at the time
  late,           \* history: sessions not yet dialing at a disconnect
  hasty           \* history: a server was selected while an interface was
                  \* held, or CONNECT pressed with a request unanswered

mainVars    == <<main, last, foreground>>
fdVars      == <<tunPfd, pfd, fdOf, file, reused>>
uiVars      == <<connectBtn, disconnectBtn, selectedProfile, asking, hasty>>
appVars     == <<mainVars, fdVars, uiVars, thread, notice, late>>
serviceVars == <<contractVars, appVars>>

ServiceTypeOK ==
  /\ main \in {"idle", "notify", "lock", "close", "destroyed"}
  /\ last \in {"no", "yes"}
  /\ tunPfd \in Conns \cup {NoConn}
  /\ pfd \in [Conns -> {"none", "open", "closed"}]
  /\ fdOf \in [Conns -> Numbers \cup {0}]
  /\ file \in [Numbers -> Conns \cup {NoConn}]
  /\ thread \in [Conns -> {"none", "fd", "lock", "connect", "finally", "end"}]
  /\ foreground \in {"no", "yes"}
  /\ notice \in {"none", "connecting", "connected", "disconnected"}
  /\ connectBtn \in {"off", "on"} /\ disconnectBtn \in {"off", "on"}
  /\ selectedProfile \in {"none", "some"}
  /\ reused \subseteq Conns
  /\ late \subseteq Conns
  /\ asking \in 0..MaxAsking
  /\ hasty \in {"no", "yes"}

ServiceInit ==
  /\ Init
  /\ main = "idle" /\ last = "no" /\ foreground = "no"
  /\ tunPfd = NoConn
  /\ pfd = [s \in Conns |-> "none"]
  /\ fdOf = [s \in Conns |-> 0]
  /\ file = [n \in Numbers |-> NoConn]
  /\ thread = [s \in Conns |-> "none"]
  /\ notice = "none"
  /\ connectBtn = Layout.connectBtn /\ disconnectBtn = Layout.disconnectBtn
  /\ selectedProfile = "none"
  /\ asking = 0 /\ hasty = "no"
  /\ reused = {} /\ late = {}
-----------------------------------------------------------------------------
(* MainActivity.  The list's listener enables connectBtn, whatever runs.   *)

SelectServer ==
  /\ main = "idle"
  /\ selectedProfile' = "some"
  /\ connectBtn' = "on"
  /\ hasty' = IF tunPfd # NoConn THEN "yes" ELSE hasty
  /\ UNCHANGED <<contractVars, mainVars, fdVars, disconnectBtn, asking, thread, notice, late>>

\* onCreate of a new activity, while the service and the requests go on.
Recreate ==
  /\ main = "idle"
  /\ connectBtn' = Layout.connectBtn /\ disconnectBtn' = Layout.disconnectBtn
  /\ selectedProfile' = "none"
  /\ UNCHANGED <<contractVars, mainVars, fdVars, asking, hasty, thread, notice, late>>

\* CONNECT does nothing without a profile, nor without certificates.
PressConnect ==
  /\ main = "idle"
  /\ connectBtn = "on" /\ selectedProfile = "some"
  /\ hasty' = IF asking > 0 THEN "yes" ELSE hasty

\* prepare() gives an intent: the system asks the user.
RequestPermission ==
  /\ PressConnect
  /\ asking < MaxAsking
  /\ asking' = asking + 1
  /\ UNCHANGED <<contractVars, mainVars, fdVars, connectBtn, disconnectBtn, selectedProfile,
                 thread, notice, late>>

Answered ==
  /\ main = "idle"
  /\ asking > 0
  /\ asking' = asking - 1
  /\ UNCHANGED hasty

\* onActivityResult: refused, or no profile is selected by now.
AnsweredNo ==
  /\ Answered
  /\ UNCHANGED <<contractVars, mainVars, fdVars, connectBtn, disconnectBtn, selectedProfile,
                 thread, notice, late>>

\* startTunnel comes at once, the permission being there, or with the answer.
MayStart ==
  \/ PressConnect /\ UNCHANGED asking
  \/ Answered /\ selectedProfile = "some"

MutStartTunnel ==
  /\ MayStart
  /\ disconnectBtn' = "on"
  /\ UNCHANGED <<connectBtn, selectedProfile>>

StartTunnel ==
  /\ MayStart
  /\ connectBtn' = "off" /\ disconnectBtn' = "on"
  /\ UNCHANGED selectedProfile
-----------------------------------------------------------------------------
(* The service's CONNECT.                                                  *)

\* Somebody will yet use or close the number of r's descriptor.
InUse(r) ==
  \/ pfd[r] = "open"
  \/ thread[r] = "lock"
  \/ dial[r] \in {"quic", "tcp"}
  \/ relay[r] = "open"

\* The kernel hands out the lowest free number.
LowestFree(n) ==
  /\ file[n] = NoConn
  /\ \A m \in Numbers : file[m] = NoConn => n <= m

\* establish() gives an interface: tunPfd is overwritten, the thread starts.
Connects(s) ==
  /\ StartTunnel
  /\ pfd[s] = "none"
  /\ \E n \in Numbers :
       /\ LowestFree(n)
       /\ fdOf' = [fdOf EXCEPT ![s] = n]
       /\ file' = [file EXCEPT ![n] = s]
       /\ reused' = IF \E r \in Conns : fdOf[r] = n /\ InUse(r) THEN reused \cup {s} ELSE reused
  /\ pfd' = [pfd EXCEPT ![s] = "open"]
  /\ tunPfd' = s
  /\ thread' = [thread EXCEPT ![s] = "fd"]
  /\ foreground' = "yes" /\ notice' = "connecting"
  /\ main' = "notify"
  /\ UNCHANGED <<contractVars, last, late>>

\* establish() returns null: the service is in the foreground all the same.
NotPermitted ==
  /\ StartTunnel
  /\ foreground' = "yes" /\ notice' = "connecting"
  /\ UNCHANGED <<contractVars, main, last, fdVars, thread, late>>

NotifyConnected ==
  /\ main = "notify"
  /\ main' = "idle"
  /\ notice' = "connected"
  /\ UNCHANGED <<contractVars, last, foreground, fdVars, uiVars, thread, late>>
-----------------------------------------------------------------------------
(* DISCONNECT, from either button, and onDestroy.                          *)

MutStop(isLast) ==
  /\ main = "idle"
  /\ main' = "close"
  /\ last' = isLast
  /\ UNCHANGED <<contractVars, foreground, fdVars, thread, notice, late>>

Stop(isLast) ==
  /\ main = "idle"
  /\ main' = "lock"
  /\ last' = isLast
  /\ UNCHANGED <<contractVars, foreground, fdVars, thread, notice, late>>

ClickDisconnect ==
  /\ Stop("no")
  /\ disconnectBtn = "on"
  /\ connectBtn' = "on" /\ disconnectBtn' = "off" /\ selectedProfile' = "none"
  /\ UNCHANGED <<asking, hasty>>

TapNotification == notice # "none" /\ Stop("no") /\ UNCHANGED uiVars

\* After stopSelf, or when the user revokes the VPN.
OnDestroy == Stop("yes") /\ UNCHANGED uiVars

\* engine.disconnect(): the main thread waits for t.mu.
EngineDisconnect ==
  /\ main = "lock"
  /\ Free
  /\ Disconnect \/ (cancelFn = NoConn /\ UNCHANGED contractVars)
  /\ main' = "close"
  /\ late' = late \cup {s \in Conns : thread[s] \in {"fd", "lock"}}
  /\ UNCHANGED <<last, foreground, fdVars, uiVars, thread, notice>>

Forgets(s) ==
  /\ pfd' = [pfd EXCEPT ![s] = "closed"]
  /\ file' = [file EXCEPT ![fdOf[s]] = NoConn]

MutClosePfd ==
  /\ main = "close"
  /\ IF tunPfd = NoConn THEN UNCHANGED <<pfd, file>> ELSE Forgets(tunPfd)
  /\ foreground' = "no"
  /\ notice' = IF foreground = "yes" THEN "none" ELSE notice
  /\ main' = IF last = "yes" THEN "destroyed" ELSE "idle"
  /\ UNCHANGED <<contractVars, last, tunPfd, fdOf, reused, uiVars, thread, late>>

\* tunPfd?.close(); tunPfd = null; stopForeground(true), which takes along the
\* notification of a service that is in the foreground.
ClosePfd ==
  /\ main = "close"
  /\ IF tunPfd = NoConn THEN UNCHANGED <<pfd, file>> ELSE Forgets(tunPfd)
  /\ tunPfd' = NoConn
  /\ foreground' = "no"
  /\ notice' = IF foreground = "yes" THEN "none" ELSE notice
  /\ main' = IF last = "yes" THEN "destroyed" ELSE "idle"
  /\ UNCHANGED <<contractVars, last, fdOf, reused, uiVars, thread, late>>

\* The finalizer of a ParcelFileDescriptor that was overwritten.
Finalize(s) ==
  /\ pfd[s] = "open" /\ tunPfd # s /\ thread[s] = "end"
  /\ Forgets(s)
  /\ UNCHANGED <<contractVars, mainVars, tunPfd, fdOf, reused, uiVars, thread, notice, late>>
-----------------------------------------------------------------------------
(* The connect thread.                                                     *)

ThreadGoes(s, to) ==
  /\ thread' = [thread EXCEPT ![s] = to]
  /\ UNCHANGED <<mainVars, fdVars, uiVars, late>>

\* pfd.fd throws when the ParcelFileDescriptor was closed.
ReadFd(s) ==
  /\ thread[s] = "fd"
  /\ ThreadGoes(s, IF pfd[s] = "open" THEN "lock" ELSE "finally")
  /\ UNCHANGED <<contractVars, notice>>

CallConnect(s) == thread[s] = "lock" /\ Connect(s) /\ ThreadGoes(s, "connect") /\ UNCHANGED notice

\* "tunnel already running", or certificates that do not parse.
ConnectRefused(s) ==
  /\ thread[s] = "lock"
  /\ Free
  /\ ThreadGoes(s, "finally")
  /\ UNCHANGED <<contractVars, notice>>

MutFinallyError(s) ==
  /\ thread[s] = "finally" \/ (thread[s] = "connect" /\ dial[s] \in {"up", "failed"})
  /\ ThreadGoes(s, "end")
  /\ notice' = IF thread[s] = "finally" THEN "error" ELSE "disconnected"
  /\ UNCHANGED contractVars

MutFinallyConnected(s) ==
  /\ thread[s] = "finally" \/ (thread[s] = "connect" /\ dial[s] \in {"up", "failed"})
  /\ ThreadGoes(s, "end")
  /\ notice' = IF dial[s] = "up" THEN "connected" ELSE "disconnected"
  /\ UNCHANGED contractVars

\* Connect has returned or thrown: updateNotification("Disconnected").
Finally(s) ==
  /\ thread[s] = "finally" \/ (thread[s] = "connect" /\ dial[s] \in {"up", "failed"})
  /\ ThreadGoes(s, "end")
  /\ notice' = "disconnected"
  /\ UNCHANGED contractVars
-----------------------------------------------------------------------------
(* The engine's own steps.                                                 *)

EngineAct(A) == A /\ UNCHANGED appVars

\* The os.File closes the number, whoever has it now.
RelayClosesTun(s) ==
  /\ CloseTun(s)
  /\ file' = [file EXCEPT ![fdOf[s]] = NoConn]
  /\ UNCHANGED <<mainVars, tunPfd, pfd, fdOf, reused, uiVars, thread, notice, late>>

QuicDial(s) == EngineAct(QuicDialFails(s)) \/ (s \in QuicConns /\ EngineAct(Establish(s)))
TcpDial(s)  == EngineAct(FallbackFails(s)) \/ (s \in TcpConns /\ EngineAct(Establish(s)))

RelayEnds(s) == EngineAct(SendResult(s)) \/ EngineAct(ClearCancel(s))

MainThread == NotifyConnected \/ EngineDisconnect \/ ClosePfd
Thread(s)  == ReadFd(s) \/ CallConnect(s) \/ ConnectRefused(s) \/ Finally(s)

ServiceNext ==
  \/ SelectServer \/ Recreate \/ RequestPermission \/ AnsweredNo
  \/ NotPermitted \/ ClickDisconnect \/ TapNotification \/ OnDestroy
  \/ MainThread
  \/ \E s \in Conns :
       \/ Connects(s) \/ Finalize(s) \/ Thread(s)
       \/ QuicDial(s) \/ TcpDial(s) \/ RelayClosesTun(s) \/ RelayEnds(s)

(* The main thread goes on when it can, and a QUIC dial ends, because its  *)
(* handshake times out.  Nothing is assumed of the other threads; a TCP    *)
(* dial has no deadline, and a relay lasts as long as it likes.            *)
DialEnds(s) == WF_serviceVars(QuicDial(s))
DialsEnd == \A s \in Conns : DialEnds(s)
ServiceFairness == WF_serviceVars(MainThread) /\ DialsEnd

ServiceSpec == ServiceInit /\ [][ServiceNext]_serviceVars
FairServiceSpec == ServiceSpec /\ ServiceFairness
-----------------------------------------------------------------------------
\* A service that was destroyed has called cancel() for every relay that still
\* runs, but those whose thread had not reached the engine when disconnect()
\* did, and those of overlapping sessions (TunnelVpnService.kt:100, 119;
\* engine.go:100).  It does not say that the cancelled ones end: the engine's
\* DisconnectEndsRelay is about that.
DestroyCancels ==
  \A s \in Conns :
    main = "destroyed" /\ relay[s] = "open" => ctxCancelled[s] \/ s \in late \/ overlapped

Closed(s) == relay[s] \notin {"none", "open"}

\* The interface of the session that the service holds stays open under its
\* number until its own relay closes it, unless the number was given to it
\* while an earlier session had still to close it (TunnelVpnService.kt:89, 120).
OwnDescriptor ==
  \A s \in Conns :
    tunPfd = s /\ s \notin reused => file[fdOf[s]] = s \/ Closed(s)

\* As long as the user selects no server while the service holds an interface,
\* as a new activity invites him to, and presses CONNECT once for each request
\* for the permission, the service holds every descriptor that is open, those
\* of failed connects too, so that disconnect() closes it
\* (MainActivity.kt:48-55, 81-109, TunnelVpnService.kt:89).
NoneOverwritten ==
  hasty = "no" => \A s \in Conns : pfd[s] = "open" => tunPfd = s

\* Whatever the order in which main and the threads post, no notification says
\* that a service in the background is connected (TunnelVpnService.kt:111-122).
StoppedIsNotConnected ==
  foreground = "no" => notice \in {"none", "disconnected"}

\* disconnect() holds up the main thread, which waits for t.mu, for no longer
\* than a TCP dial takes (TunnelVpnService.kt:119; engine.go:57, 109).
DisconnectGoesOn ==
  main = "lock" ~> main # "lock" \/ \E s \in Conns : dial[s] = "tcp"

\* A step of the main thread or of a QUIC dial is possible when its guards hold:
\* the side condition under which weak fairness makes it happen.  ENABLED is
\* out of the prover's reach, so the theorem on what holds up disconnect() has
\* it as a hypothesis; it is true by the guards of the actions, and says
\* nothing else.
GuardsSuffice ==
  /\ main \in {"notify", "close"} \/ (main = "lock" /\ Free)
       => ENABLED <<MainThread>>_serviceVars
  /\ \A s \in Conns : dial[s] = "quic" => ENABLED <<QuicDial(s)>>_serviceVars
-----------------------------------------------------------------------------
(* What makes the invariants inductive; used by VpnServiceProofs.          *)

\* A service that has disconnected leaves nobody on the way to a relay.
NobodyOnTheWay ==
  main \in {"close", "destroyed"} =>
    \A s \in Conns :
      \/ thread[s] \in {"fd", "lock"}
      \/ dial[s] \in {"quic", "tcp"}
      \/ relay[s] = "open" /\ ~ctxCancelled[s]
      => s \in late \/ overlapped

\* No other session can close the number of the session that is held.
NumberIsOwn ==
  \A s, r \in Conns :
    tunPfd = s /\ s \notin reused /\ InUse(r) /\ r # s => fdOf[r] # fdOf[s]

\* Who does not hurry starts no session while an interface is held.
Buttons ==
  hasty = "no" =>
    /\ asking <= 1
    /\ selectedProfile = "some" /\ (connectBtn = "on" \/ asking > 0)
         => tunPfd = NoConn \/ main \in {"lock", "close"}

NotifiesInForeground == main = "notify" => foreground = "yes"

ServiceInv ==
  /\ ServiceTypeOK /\ ContractInv
  /\ NobodyOnTheWay /\ DestroyCancels
  /\ NumberIsOwn /\ OwnDescriptor
  /\ Buttons /\ NoneOverwritten
  /\ NotifiesInForeground /\ StoppedIsNotConnected
=============================================================================
