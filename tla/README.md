# tunnel-prot-1 in TLA+

A formal model of `innocous06/tunnel-prot-1`, a personal VPN: a Linux server that
relays IP packets between a TUN device and its clients over QUIC or, as a
fallback, over TLS on TCP; a Windows client; an Android client whose engine is
the same Go code behind gomobile. The modules here are checked with TLC on small
instances. Their safety properties, and much of their liveness, are proved with
TLAPS for every number of connections, sessions, servers, deployments and failures.

Paths below are relative to `src/`.

## 1. The system

| component | source | state it keeps | operations | works with |
|---|---|---|---|---|
| relay | `internal/engine/relay.go` | three goroutines, the channel `errc` | `RelayLoop`: two pumps, the first error, deferred closes of both ends | a TUN, a transport |
| QUIC server | `internal/engine/quic.go` | `activeCancel`, `activeGen` under `mu`; per connection a handler, its context and the channel `done` | accept, kick, relay, clean-up | relay, quic-go |
| TCP fallback server | `internal/engine/fallback.go` | the same, of its own | HTTP request, hijack, kick, relay, clean-up | relay, net/http |
| client dial | `quic.go`, `fallback.go` | none | `QUICClient.Dial`, `ProbeRTT`, `DialTCPFallback` | both servers |
| framed transport | `fallback.go` (`wsFrameConn`) | a buffered reader | `Read`, `Write` of length-prefixed frames | relay |
| server process | `cmd/server/main.go` | the one TUN, two listeners, the root context | start, SIGTERM, `wg.Wait` | both servers, Linux TUN |
| Linux TUN and NAT | `internal/tunif/tun_linux.go` | interface, iptables rules | `CreateTUN`, `SetupNAT`, `DefaultPhysicalInterface` | server process |
| deployment | `deploy/` | the files in `/opt/tunnel`, the systemd unit | copies, `enable --now`, restart on failure | certificates, server process |
| Windows client | `cmd/client-windows/main.go` | routes, TUN, relay | probe, choose, dial, route, relay, clean-up | dial, Windows TUN |
| Windows TUN and routes | `internal/tunif/tun_windows.go`, `adapter.go` | routing table | add and remove routes, batched TUN reads | Windows client |
| Android engine | `gomobile/engine.go`, `internal/engine/android_tun.go` | `cancelFn`, `relayDone` under `mu`, one goroutine per session | `Connect`, `Disconnect`, `IsConnected`, `ProbeServer` | dial, relay |
| Android service, activity | `android/.../TunnelVpnService.kt`, `MainActivity.kt`, `ConfigManager.kt` | `tunPfd`, notification, buttons | CONNECT, DISCONNECT, onDestroy, the VPN permission | Android engine |
| TLS, configuration | `internal/engine/tls*.go`, `internal/config` | none | load | all |
| certificates | `cmd/gencerts`, `certs/` | files | generate | deployment, both clients |

What is hard in it:

* **Interleavings.** Every connection of the server runs five goroutines (its
  handler, the one that calls `RelayLoop`, two pumps, and the transport's own). A
  new client *kicks* the present one by cancelling a context; nothing waits for
  the kicked relay, so it overlaps its successor, and a third client can arrive
  while both wind down. The two listeners do not coordinate at all.
* **Shared devices.** All relays of the server copy to and from one TUN, which
  each of them closes when it ends. A pump that is torn down stays in `tun.Read`.
* **Bounded channels.** `errc` has two slots and one receive, `done` one slot and
  possibly none, the engine's `relayDone` one slot and never a receive.
* **Stale state.** Clean-up sections run after others have replaced what they
  clean up. The servers guard with a generation counter; the engine does not.
* **Partial failure.** Start-up and tear-down steps (routes, NAT, descriptors)
  fail half-way, and `log.Fatalf` skips deferred clean-up. Certificates are written,
  copied and imported file by file.
* **Numbers for things.** The Android service and the engine both close the TUN
  descriptor, each by its number, which the kernel gives to somebody else as soon
  as one of them has.

What correctness means, by component:

* relay: no goroutine of it blocks on `errc`; once it ends both ends are closed
  and whoever waits on the other side can tell.
* servers: at most one relay per listener that nobody has told to stop; the next
  client can always stop it; a kicked relay ends; a client whose relay is over
  is told; a client that takes over gets a working TUN.
* Android engine: `Disconnect` reaches the latest session and ends it;
  `IsConnected` tells whether a relay runs; a session that ended makes room for
  the next.
* dial and frames: the receiver gets the packets that were sent, whole and in
  order; every dial ends; the fallback serves the clients QUIC cannot.
* Windows client: routes are back as they were after every exit; the tunnel's own
  packets never enter the tunnel.
* deployment, server start-up: a running server holds what its disk holds; what
  was deployed and imported whole works together; no packet is forwarded that is
  not masqueraded; a server that could not start does once it can.
* Android service: every descriptor is closed, and once; a stopped service leaves
  no relay; the notification tells the truth; the main thread is not held up.
* server list: all servers are in it, the fastest that answered comes first.

## 2. The modules

| module | models | proofs |
|---|---|---|
| `RelayLoop` | `relay.go`, for a set of connections | lemmas in `RelayLoopProofs` |
| `TunnelLease` | abstract: what a listener's handlers promise | `TunnelLeaseProofs` |
| `RelayServer` | `quic.go`, `fallback.go` (servers), `cmd/server/main.go`, with their relays | `RelayServerProofs` |
| `TunnelEngine` | `gomobile/engine.go` with the relays of its sessions | `TunnelEngineProofs` |
| `EngineContract` | abstract: what the Android service sees of the engine | |
| `VpnService` | `TunnelVpnService.kt`, the buttons of `MainActivity.kt`, on `EngineContract` | `VpnServiceProofs` |
| `Deployment` | `cmd/gencerts`, `deploy/`, `saveCert`, the start-up of `cmd/server` with `tls.go` and `tun_linux.go` | `DeploymentProofs` |
| `WindowsClient` | `cmd/client-windows/main.go` and the route operations of `tun_windows.go` | `WindowsClientProofs` |
| `PacketPipe` | abstract: what one direction of a tunnel promises | |
| `PacketRelay` | `wsFrameConn` of `fallback.go` and the unframed QUIC stream, between the pumps of two relays | `PacketRelayProofs` |
| `MCRelayServer`, `MCTunnelEngine`, `MCVpnService`, `MCWindowsClient`, `MCPacketRelay`, `MCDeployment` | the instances that TLC checks | |

### RelayLoop

For each connection `c`: `rpc[c]` is the goroutine that called `RelayLoop`, `out[c]`
the pump TUN to remote, `inn[c]` the pump remote to TUN, `errc[c]` the number of
errors buffered. `link[c]` and `sendClosed[c]` are the transport as its calls see
it, `tunClosed` and `tunReader` the TUN device `TunOf[c]`. One action per system
call that can block, fail or change something: `TunReadBegins` and
`TunReadReturns` (a read that is under way holds the read lock of the file),
`TunReadFails`, `RemoteWriteOk`, `RemoteWriteBlocks`, ..., `OutReports` (`errc <- err`), then
`ReceiveError`, `CloseTun`, `CloseRemote`, in the order in which the deferred
functions run. Packets carry no data: no property of this layer looks inside.

Facts about the libraries, which the code relies on without saying so:

* `os.File`: one `Read` at a time, others queue on a lock; `Close` wakes the queue
  and makes later calls fail, but interrupts a `Read` in flight only if the
  descriptor is non-blocking. `CreateTUN` opens `/dev/net/tun` without `O_NONBLOCK`,
  and so the server's instances have `TunCloseInterrupts = FALSE`; `VpnService`
  hands out non-blocking descriptors, and so the engine's have `TRUE`. The proofs
  cover both.
* `quic.Stream.Close` ends the sending direction only; `net.Conn.Close` both.
* A write to a connection whose peer is gone fails; a read too. A write to a peer that
  does not read waits, once the send buffer or the flow-control window is used up
  (`inWrite`): until the peer reads (`WriteGoesOn`) or the connection is gone
  (`WriteBroken`). The close of a QUIC stream's sending direction does not end it.

### RelayServer

`hpc[c]` is the handler of connection `c`: `accept` (waiting for the stream or
the HTTP request), `start`, `select`, `cleanup`, `end`. The section that both
servers run under `s.mu` when they take over is the action `Kick`; the one at the
end is `Cleanup`. `activeCancel[l]` names the connection whose `relayCancel` the
listener has stored, `activeGen[l]` and `myGen[c]` are the generation counter and
the handler's copy. `RelayCtxDone` differs by listener, as in the code: the TCP
handler derives its context from the root context, the QUIC handler from
`context.Background()`. `mpc` is `main`: SIGTERM cancels the root context, the
listeners stop, and the process ends whatever the relays are doing.

A QUIC handler passes `AcceptStream` only when its client has sent data: `Hello`.
A TCP client may have offered the protocol `tunnel-quic` in its handshake (`hello` is
`alpn`), as every client of the repository does, and the server chose it (`tls.go:30`,
`55`); an `http.Server` has no handler for that protocol and closes the connection
(`AcceptFails`). The other TCP clients, which offer no protocol, are served. A request without the upgrade header, and a
`Hijack` that fails, are `RejectRequest`.

`TunnelLease` says the same with none of the mechanism: `Ask`, `Withdraw`, `Take`,
`GiveBack`. The refinement mapping reads `asked` off `hello`, `granted` off `myGen`,
`revoked` off `cancelled` and `holder` off `activeCancel`.

### TunnelEngine

A session is one `Connect` that got as far as dialing. `mu` is who holds `t.mu`
across a dial; `dial[s]`, `gpc[s]` the session's dial and goroutine; `cancelFn` and
`relayDone` whose function and channel the engine's two fields hold; `results[s]`
how full the session's channel is. `t.relayDone <- RelayLoop(...)` reads the field
without the mutex, before or after `RelayLoop` runs, and so `SendResult` may use its own
channel or that of any session begun since (`seen`). `overlapped` is a history
variable: a session was established while the goroutine of another had not ended.

`Disconnect` calls the cancel function and forgets it, and that is all: a TCP connection
does not depend on the context it was dialed with, nor does a QUIC one, which quic-go
v0.60.0 (`go.mod`) detaches from the context of `DialAddr` when the handshake is
complete. The comment in `cmd/client-windows/main.go:108` says otherwise.

`EngineContract` is the engine without the relay's goroutines, and without the
channel `relayDone`: a relay is open, then it has shut the TUN, then its goroutine
forgets the cancel function. The mapping reads `relay` off `gpc` and `tunClosed`.

`IsConnected` is not the same as a relay that runs. What holds is `CancelFnTracksSession`:
the stored function is of a session whose goroutine is at work and that was not
disconnected, and, as long as sessions do not overlap, every such session's is stored.
A session that was disconnected still relays (`DisconnectEndsRelay`). After an
overlap its goroutine clears the cancel function of the next session, whose relay
then runs although `IsConnected` is false, whatever its comment (`engine.go:118`) says.

### VpnService

Extends `EngineContract`: a session is a CONNECT for which `establish()` gave an
interface, and its calls of the engine are actions of the contract. `main` is the
application's main thread, on which the service's and the activity's handlers run
one after another; it is cut into steps where another thread can tell: the wait
for `t.mu` in `engine.disconnect()` (`lock`), `tunPfd?.close()` (`close`), the
notification after the thread was started (`notify`). `thread[s]` is a session's
connect thread: it reads `pfd.fd`, waits for `t.mu`, is inside `Connect`, and posts
"Disconnected" (`Finally`), as the code does also when `Connect` succeeded.

`file` is the process's descriptor table: for each number the session whose
interface is open under it. The service closes `fdOf[s]` through the
`ParcelFileDescriptor`, the relay through the engine's `os.File`, and neither checks
whose interface it closes. The kernel gives out the lowest free number. `reused` and
`late` are history variables that name the two windows in which the code goes
wrong: a number handed out again while an earlier session has still to use or to
close it, and a thread that had read its descriptor, or was about to, when
`disconnect()` went by. `hasty` is the third: the user selected a server while the
service held an interface, or pressed CONNECT while a request for the VPN permission
was unanswered. The properties say that nothing else goes wrong, and the theorems that
it is so for any number of sessions.

The activity comes and goes: `Recreate` is the `onCreate` of a new one, whose buttons
are as its layout has them and which has no server selected, while the service, its
interface and the requests under way live on. The layout file is not in the
repository, and so `Layout` is a constant; the runs take both buttons enabled, which
lets the user do more, and the proofs cover every layout. CONNECT starts the service at
once when Android has the permission already, or asks the user
(`RequestPermission`); his answer (`Answered`) may come when he has selected another server,
or none. The code counts no requests, `MaxAsking` bounds how many are open.

### Deployment

A file is the number of the `gencerts` run that made it, 0 when it is absent or cut
short. The user's commands (`op`, at step `step`) go through the files in the
order of the code: `GenOrder`, `DeployOrder`, `SaveOrder`. A failing write may leave the
file as it was or cut it short (`BadWrite`), and the command stops there. The server
(`proc`) loads the three TLS files, creates the TUN, gives the four commands of
`SetupNAT` and serves; each may fail, `log.Fatalf` ends the process with status 1 and
systemd starts it again. `rules` counts the iptables rules in force: the code
appends and never deletes, only a reboot clears them. The last two steps of `deploy.sh`
install and start the unit (`EnableNow`) and make IP forwarding permanent
(`EnableForwarding`, the line in `/etc/sysctl.conf` that a reboot reads: `forwarding`); either
may fail and leave its work half done.

Two facts about the systems are in the module's head: a binary that runs cannot
be overwritten (`ETXTBSY`), and five starts in ten seconds are not reached with
`RestartSec=5s`. The first is what keeps a deployment from mixing files under a
server that runs: it aborts at the very first copy. It also means that a
redeployment must be preceded by a stop, of which `deploy.sh` says nothing. When a
server keeps failing to start, the restart may fall between two copies; it then
runs on files of two runs, `enable --now` leaves it so, and the script reports
success. The properties exclude exactly this (`started`). The login user is taken to
be one that may write to `/opt/tunnel/certs`: `deploy.sh:42` gives only `/opt/tunnel` to
`ubuntu`.

### WindowsClient

One process after another on one machine. `pc` is where `main` is, one stage per
step that can fail, block or be interrupted; `Fatal` is `log.Fatalf`, which skips
the deferred functions; `CtrlC` ends the process likewise until `Notify`, and
fills the channel `sig` after it. The machine's state outlives the process only
in `hostRoutes`: the TUN adapter (`tun`) belongs to the process, and Windows takes
it away with its routes when the process ends. `before` is a history variable,
the host routes that the process found. The relay appears as its caller sees it
(`relay`: running, closing the TUN, closing the transport, result sent), because
its pumps are already the subject of `RelayLoop` and only its deferred
`tun.Close()` meets the routes. `main` looks the server's name up again after a TCP
dial; the answer is any address or none, as the code ignores the error.
`route ADD` may fail at any time, which covers the case that the route is there
already.

Before that comes the server list. `results` is the slice of the code, blank as
`make` leaves it, with an entry per profile; `probing` is the `WaitGroup`. Each probe
writes its own entry, in any order; `Sort` waits for all and permutes the slice in
place in any way that `Less`, the code's comparator, allows; `Choice` reads what the
user typed. A blank or failed entry has the time zero, and only the wait and the
comparator's error cases keep it from being the default choice.

### PacketRelay

What `RelayLoop` leaves out: the bytes. One direction of a tunnel is the sending
pump (`out`), the bytes in flight (`wire`) and the receiving pump (`inn`). A byte is
a digit to base `Base` (256 in the code), a frame's length two such digits. Over
`tcp` a packet is written by two `Write`s and read by two full reads; over `quic` it
is written as it is, and a `Read` returns any part of what is at hand. `Cut` may
fall anywhere, also inside a `Write`, and drops any suffix of the bytes under way.
`PacketAssumption` records that the relay's buffers (4096) are smaller than the
longest frame (65535), so that `wsFrameConn.Write` never refuses a packet.

Both TUNs may go away (`TunReadFails`, `TunCloses`), and the receiving one may refuse what
it is given (`TunWrite`): it takes the packets that a TUN delivers, and may refuse
anything else. Over `tcp` nothing else is ever given to it, which is `FailsOnlyWhenCut`. Over
`quic` a part of a packet is, and when the TUN refuses it the receiving pump ends with
nothing cut (`Refused`).

`PacketPipe` says what the framing is for. The refinement mapping takes `sent` and
`received` as they are over `tcp`, and leaves the pipe empty over `quic`.

## 3. The runs

Passing:

| run | instance | checks |
|---|---|---|
| `server_kick` | two clients of the TCP fallback, all upsets | `OneUncancelledRelay`, `ActiveIsLive`, and that the handlers implement `TunnelLease` (`LeaseSpec`) |
| `server_live` | two QUIC clients, fair goroutines | `TypeOK`, `ErrcHasRoom`, `EndedClientIsReleased`, `NoneHeldUp`, `CancelledRelayEnds`, `DeadTunEndsRelay` |
| `engine` | a QUIC and a TCP session, in either order | `TypeOK`, `CancelFnIsLatest`, `CancelFnTracksSession`, `EndedRelayMakesRoom`, and that it implements `EngineContract` (`ContractSpec`) |
| `service` | the same two sessions, two descriptor numbers, a request for the permission | `ServiceTypeOK`, `DestroyCancels`, `OwnDescriptor`, `NoneOverwritten`, `StoppedIsNotConnected`, `DisconnectGoesOn` |
| `client` | three servers, two addresses, three starts | `TypeOK`, `DefaultIsFastest`, `HoleWhenNeeded`, `ReturnRestores`, `OnlyOwnRouteDiffers`, `OverEnds` |
| `deploy` | two runs of `gencerts`, three failures | `DeployTypeOK`, `RunsWhatIsOnDisk`, `RotationWorks`, `ForwardsMasqueraded`, `HalfDeployedHeals` |
| `packets` | bytes 0 and 1, frames of at most three, buffers of two, three packets, both transports | `TypeOK`, `BytesInOrder`, `FailsOnlyWhenCut`, `FramedIsPipe`, `AllArrive` |

Violations, each a place where the code does not do what it says:

| run | property | what happens |
|---|---|---|
| `server_takeover` | `TakeoverKeepsTun` | "A second connection attempt kicks the first connection off" (`quic.go:18`): the first relay's deferred `tun.Close()` closes the TUN that the second one was started on. Every relay that ends on the server does this; only a restart of the process brings the TUN back, and the process does not end. |
| `engine_disconnect` | `DisconnectEndsRelay` | "Disconnect tears down the tunnel cleanly" (`engine.go:107`): the relay is not told, and runs on, over either transport. |
| `client_exit` | `CleanupOnAnyExit` | "Cleanup runs in reverse-creation order on any exit path" (`client-windows/main.go:149`): a failing `AddDefaultRoute` calls `log.Fatalf`, and Ctrl+C before `signal.Notify` kills the process; the host route stays. |
| `client_loop` | `NoRoutingLoop` | "to prevent a routing loop (server traffic must not go back through the tunnel)" (`tun_windows.go:52`): after a TCP dial `net.LookupHost` fails or answers with another address, and the default route captures the connection's own packets. |
| `packets_quic` | `CopiesPackets` | "It copies packets between the TUN device and the remote transport (QUIC stream or TCP fallback)" (`relay.go:11`): over QUIC the boundaries of packets are lost. |

What does hold where the code falls short of those sentences is proved (section 4). The
takeover breaks the TUN at one moment, when the first relay on it ends, and not
before (`TunLasts`); the second client is not kept waiting on the dead TUN, unless its
pump waits for a packet or for the client to read (`DeadTunFrees`). Two relays that
nobody told to stop are on different listeners (`OneUncancelledRelay`). `Disconnect` reaches
the latest session, and only once (`CancelFnIsLatest`). A destroyed service has cancelled every
relay that was not late and did not overlap (`DestroyCancels`). A client
that skips its clean-up leaves one route wrong and no more (`OnlyOwnRouteDiffers`), and
a return restores all of them (`ReturnRestores`). The routing loop needs an address
other than the one dialed (`HoleWhenNeeded`). Over QUIC the bytes still arrive in
order (`BytesInOrder`), and over TCP the packets do (`FramesCopy`).

What the passing runs show beside that: the generation counter of the servers
does what it is there for; no goroutine of a relay blocks on a channel, and none of a
connection waits for another that will never come; a kicked
relay is wound up even if its handler has stopped listening, and even if its pump waits
for the peer; a relay whose TUN was closed under it ends, except in the two cases that
the property names (a pump inside a blocking `Read`, which only a packet ends, and one
inside a `Write` to a peer that does not read); the engine never puts an old
cancel function back, and tracks the sessions that go on as long as they do
not overlap; an Android service closes the descriptors it must and
no others but for reused numbers, forgets none unless the user is hasty, and is held up by
the engine's mutex for a TCP dial at most; failed and repeated deployments and imports do
not keep the next whole one from working; the Windows client's default choice is the
fastest server that answered; that client, started again after any failure,
keeps the hole for its own packets as long as it knows the address it dialed, and
restores the routes whenever it returns, and leaves no other route changed than
the one to its own server when it does not; the frames of the TCP fallback carry
packets whole, in order and once wherever the connection breaks, and between two
relays no frame is refused.

The notification is right about a service that has stopped (`StoppedIsNotConnected`), and that
is all that is said of it. The connect thread posts "Disconnected" as soon as the
engine's `Connect` returns (`TunnelVpnService.kt:111`), also when it succeeded: a connected
service shows "Connected" or "Disconnected", whichever thread came last. No sentence of
the repository claims anything else, and so no run refutes one.

Three more places where the code goes wrong are named in the properties that exclude
them, or in a guard, and have no run of their own. `overlapped`: after `Disconnect` and another
`Connect` the first session's goroutine clears the second's cancel function
(`engine.go:100`), and nobody can stop the second relay any more. `late`: a connect thread
that `disconnect()` overtook dials and relays for a service that is gone, until its first
use of the closed descriptor fails, or on another file if the number was given out again. The
ALPN name: the fallback turns away every client of the repository (`AcceptFails`).

### Bounds

* Two connections, or sessions. Every property relates at most two of them, and
  a connection is used once, so one client's kick, overlap and clean-up against
  another's is all there; a third would repeat the part of the second. The
  proofs do not depend on it.
* The two servers differ in a few guards (`Hello`, `RelayCtxDone`, `RejectRequest`,
  and what `Close` does to the link), so each run takes the one for which its
  question is harder: the TCP handler has more ways to end and meets the root
  context, a QUIC stream's `Close` leaves the other direction open. That one client
  on each listener at the same time brings nothing new rests on the theorems,
  which are about every set of connections.
* `Upsets` says which events outside the relays may happen: a failing TUN read or
  write, a failing listener, a signal. The safety runs of the server have all
  four. The liveness runs of the server have none, for the size of the graph: no
  property there needs one, and each only ends a relay by one way more.
* Two descriptor numbers for the Android service's two sessions: fewer than one
  each never suffices, and with two the lowest free number is reused whenever the
  first session's descriptor is closed by then.
* One request for the VPN permission without an answer (`MaxAsking`): with it open a
  CONNECT that needs none any more, or a server selected, starts a session too many. More
  requests would repeat it.
* Two runs of `gencerts`: old files and new ones. Three upsets: one that leaves a
  mix, one that stops or restarts the server over it, one in the repair.
* Three servers in the list: one that failed, and two to compare; round trips of
  zero and one (a clock tick may be longer than a handshake).
* Three starts of the Windows client (`MaxStarts`): one that leaves something
  behind, one that finds it, one after that. Two addresses: the one dialed and
  another one.
* `PacketRelay`: base 2 and buffers of two bytes give every packet that fits a
  buffer, and a length (three) that fits a frame but no buffer; three packets give a
  frame before, at and after any point where the stream is cut or misread.
* Counters: `errc` and `done` are bounded by the code; the generation counter by
  the number of connections, `rules` by the upsets. The bounds that guards add are
  `MaxStarts`, `MaxSent`, `MaxRuns`, `MaxUpsets` and `MaxAsking`, each a `CONSTANT` declared as one.

Deadlock checking is off where the modelled system stops by design: the server
has exited, all sessions are over, or nobody starts the client again.

### Fairness

`FairSpec` gives weak fairness to each goroutine's own steps: Go's scheduler runs
every goroutine that can run, and `sync.Mutex` does not starve. What one connection or
session owes to it is an operator of its own (`FairTo`), so that a theorem about one
of them can name it. It gives none to
what waits for someone else: a packet from the kernel (`TunReadReturns`) or the
peer (`RemoteReadOk`), a peer that makes room (`WriteGoesOn`), a dial or a route command of the Windows client, a client coming or leaving, the user, a signal.

The Android service's `ServiceFairness` is that of its main thread, plus the end of a
QUIC dial, whose handshake times out in quic-go: nothing else is needed of the other
threads. It gives none to a TCP dial: `tls.Dialer` gets a context without deadline,
and the deadline of `fallback.go:139` begins after the handshake. The deployment's
`FairSpec` has systemd restart a unit that failed, which it does for ever at this
`RestartSec`, and the server's start-up go on.

## 4. The proofs

`tlapm` checks them from nothing; nothing is assumed beyond the named assumptions
on the constants (`RelayAssumption`, `ServerAssumption`, `EngineAssumption`,
`ContractAssumption`, `ServiceAssumption`, `ClientAssumption`,
`DeploymentAssumption`, `PacketAssumption`), which TLC evaluates in the runs. `Conns` may be any set, finite or not.

* `RelayLoopProofs`: lemmas by pump and by goroutine, used by both modules that
  compose relays. The first say that the steps of one part keep the relay's types, or
  the count `ErrcCounts`: errors buffered plus errors received are exactly the
  pumps that are dead. From that, and because a pump that has an error to report
  is not dead, `ErrcHasRoom`: two slots for two pumps. The others are about a relay
  that can no longer read its peer: its way to the return (`ToReturn`) gets shorter with
  every step of its pump and of its main goroutine, and one of the two can move.
* `RelayServerProofs`
  * `TypeCorrect`: `Spec => []TypeOK`.
  * `StoredCancelIsLive`, `OneRelayPerListener`. `ActiveIsLive` is not inductive
    alone: whether a stale `Cleanup` erases a newer entry depends on generations.
    `LeaseInv` adds that handlers which have not kicked are untouched (`Fresh`), and
    that a copy of the counter is at most the counter and equal to it exactly
    when the stored function is the handler's (`Generations`). `OneUncancelledRelay`
    follows: two handlers not told to stop would both be the stored one.
  * `PumpsNeverBlock`, from the count.
  * `NoClientLeftWaiting`: `ReleaseInv` follows the release of a client from
    `CloseRemote` through the result channel to the handler's end.
  * `HandlersImplementLease`: `Spec => LeaseSpec`, each action of the server maps
    to a step of `TunnelLease` or to a stutter, under `LeaseInv`.
  * `CancelledRelaysEnd`: a handler that was told to stop, and its relay, have at most
    ten steps to take (`Distance`). No step of anybody lengthens the way
    (`NeverFurther`), and wherever they stand some goroutine of theirs can take one
    (`HandlerMoves`, `RelayLeft`): the handler up to its end, by then the link is closed
    (`Winding`), the pump that reads from it then dies, and its error brings
    `RelayLoop` to its return (the count `ErrcCounts` again). So the way gets shorter
    (`ComesCloser`), ten times.
  * `RelaysOnDeadTunEnd`: the same for a relay on a closed TUN, whose pump dies of the
    TUN instead of the link (`Rest`, `ComesToRest`), or comes to wait in a `Write` first.
  * `NobodyHeldUp`: where none of a connection's goroutines can go on, only the client, the
    kernel or the operator can change that. From `Winding`, `NoResultLost` and the counts of
    `errc`: a handler that waits for a relay that is over finds its result, a main
    goroutine that waits has no dead pump, and a pump always has room for its error.
  * `LostPeersEndRelays`: the same once more for a relay whose client is lost or has
    finished, without a kick. What the relay has left to do (`ToReturn`), and that it can
    go on (`StarvedCanMove`), are facts of `RelayLoopProofs`, and a link that is down
    stays down (`LinkStaysDown`).
  * `LostClientsAreLetGo`, `DeadTunsFree`, `OverlapsEnd`: what these ends of a relay mean for
    the handlers. A handler that has kicked starts its relay (`Starts`), and one whose
    relay is over follows it (`HandlerFollows`), because the result that it waits for is
    in its channel (`NoResultLost`). So a handler whose client is lost gives the
    listener's tunnel back without another client's kick, one whose TUN was closed by
    another relay ends too (but for the two waits that the property names), and of two that hold generations at the same time one
    has been told to stop (`OneRelayPerListener`) and ends.
  * `TunLastsUntilFirstEnd`: the TUN is closed if and only if some relay on it has run its
    deferred calls (`Shut`).
* `TunnelLeaseProofs`: `LiveLease`, the property the abstract specification is
  there for.
* `TunnelEngineProofs`: `EngineTypeCorrect`, `LatestIsCancelled` and
  `StoredTracksSession`, from `EngineInv`, which adds that a session that dials
  has nothing else, that a relay that has begun and not delivered its result
  keeps its goroutine, and that without overlap at most one goroutine is at work.
  `EngineImplementsContract`: `Spec => ContractSpec`, under `SeenInv`, which ties the
  TUN's being closed to where the relay is. `RoomIsMade`: a relay that has returned
  sends its result and then its goroutine forgets the cancel function. What lets it do
  both is `FinishingHolds`: its channel is still empty, although the send reads
  `t.relayDone` without the mutex, because no other session's result was sent there
  (`Finishing`), and `t.mu` is free because no Connect passes a stored cancel function.
  `SessionPumpsNeverBlock` and `LostPeersEndRelays` use the lemmas of `RelayLoopProofs` as the
  server's theorems of the kind do, under `PumpsInv`. `LostSessionsMakeRoom` joins the second
  with `RoomIsMade`: a session whose server is gone leaves `IsConnected` false by itself.
* `VpnServiceProofs`
  * `ServiceUsesEngine`: each step of the service is a step of `EngineContract` or
    leaves its variables alone, and so, with `EngineImplementsContract`, what is
    proved of the engine's use holds of the engine.
  * `DestroyedServiceCancels`, from `NobodyOnTheWay`: once `disconnect()` has passed the
    engine, whoever can still start a relay, or keep one that was not cancelled, is in
    `late` or overlapped.
  * `DescriptorIsOwn`, from `NumberIsOwn`: nobody else who will use or close a number
    has the number of the session that is held.
  * `NoInterfaceForgotten`, from what the buttons, of this activity or a new one, and the
    requests under way let a user do who is not hasty (`Buttons`).
  * `StoppedNeverConnected`, `ServiceTypeCorrect`.
  * `DisconnectWaitsForDials`: whoever holds `t.mu` dials (`HolderDials`), so a waiting
    `disconnect()` goes on when that dial ends, unless it is a TCP dial or another
    session's Connect gets the mutex first. This is `HeldUpByConnects`, with the sessions
    that have begun (`Called`) fixed.
* `DeploymentProofs`: `ServerRunsItsDisk`, from `CleanBetweenCopies`: a server that was
  started clean is not running while the TLS files are being copied;
  `RotationIsAccepted`, from what has been copied or saved so far (`CopiedSoFar`,
  `SavedSoFar`); `ForwardedIsMasqueraded`, from the counts of the rules that a start
  under way has given (`RulesSoFar`); `DeploymentTypeCorrect`. `FailedStartHeals`: a
  server that waits for its restart over whole files passes each stage of its start
  (`Route`) to the one in which it serves, unless an upset intervenes.
* `WindowsClientProofs`: `FirstChoiceIsFastest`, from `EntriesOwn` (an entry is that of
  its profile once its probe is in) and two lemmas on permutations and on the
  comparator; `ClientTypeCorrect`, `HoleBeforeDefault` and `RestoredOnReturn`, from `ClientInv`: at each stage the host routes are those
  found plus or minus the one of the process (`OwnRoutes`), and the default route
  exists only between the step that adds it and the one that removes it
  (`RoutesInOrder`). `OneRouteAtMost` is the other half of what `CleanupOnAnyExit` gets
  wrong: an exit that skips the clean-up leaves one route too many, or one too few, and
  no more. `OverComesToAnEnd` rests on `Relaying`: a relay exists, and its
  result is not lost, from the step that starts it to the end of the process.
* `PacketRelayProofs`, for every base, buffer size and set of packets: `PacketTypeCorrect`,
  `RefusesNothing`, `FramesCopy` and `FramesImplementPipe` (`Spec => FramedIsPipe`).
  `PacketInv` does not say what the bytes in flight are as a concatenation, which
  would be an induction over the packets, but where the frame of each packet begins
  (`Framing`): the positions are consecutive (`Consecutive`), every byte in flight that
  a frame claims is that frame's (`Laid`), and unless the transport is cut the bytes end
  where the writer stands. A reader that is between frames is at position 0 of the
  next one, a reader that has the header at position -2. So the header read is that of
  the next packet (`ReadHeaderInv`, with `TwoBytes`: the two digits of a length give the
  length) and the body read is that packet (`BodyIsPacket`).
  `BytesArriveInOrder` (`Spec => []BytesInOrder`) is about both transports. Over QUIC it
  comes from `Streamed`: what was received, what is in flight and what is being written
  make up what was sent. `FlattenSeq` is a fold; its equations, which need induction
  over data, are shown from the least number for which they fail (`FlattenExists`
  to `FlattenBegins`), which needs no induction theorem.
  Two theorems say what becomes of the bytes, up to fairness. `WaitsOnlyWhenDone`: unless the
  transport was cut, the TUN went or it refused what was read, both pumps wait only when
  everything is through.
  `PumpsComeToRest`: each of their steps leaves less to do (`Left`), so that they do
  come to wait.

The theorems on liveness have the form `FairSpec /\ []GuardsSuffice => P`. Weak fairness
obliges a goroutine to move when its action is `ENABLED`, and the prover has no rules
for that operator; `GuardsSuffice` says of each action which guards are enough. It is a
fact about the actions alone, true by their guards, and no property of a run: that the
guards come true, and stay so until the step is taken, is what is proved.

`TunLasts`, `ResultWaits`, `LostPeerEndsRelay`, `LostClientLetsGo`, `DeadTunFrees`, `OverlapEnds`
and `LostSessionMakesRoom` are stated with their proofs, in
`RelayServerProofs` and `TunnelEngineProofs`, and are no properties of a run. TLC finds that
each holds on the instances of `server_live` and `engine`.

Only model-checked:

* `AllArrive`, `DisconnectGoesOn`, `HalfDeployedHeals`. Each is one of the arguments above
  repeated for every packet, session or upset there can be, and an
  induction over temporal formulas is out of the prover's reach. What is proved is one
  round: `WaitsOnlyWhenDone` and `PumpsComeToRest`, `HeldUpByConnects`, and
  `HealsUnlessUpset`.
* The violations.

`GuardsSuffice` is neither proved nor a property of a run: it is a hypothesis, for the
reason given.

## 5. Not modelled

* Contents of packets beyond their bytes and boundaries; congestion, idle timers and retransmission inside quic-go and TCP.
* The dials: a session's dial succeeds or fails, nothing more. The models of the clients
  let a TCP dial succeed, although the fallback, as it is, turns away a client that offers
  `tunnel-quic` (`AcceptFails` of `RelayServer`).
* Android: the intents' delivery (a button's command is carried out when it is
  pressed), a service object created after the one modelled was destroyed, the
  routing of the application's own sockets. `protectFd` is called by nobody, so that
  the dial's packets enter the tunnel that is not there yet unless Android excludes
  them; no state of a model would tell.
* More than one VPS, and with it the claim that one CA serves them all
  (`gencerts/main.go:18`), which the tool's making a new CA each time contradicts; the
  laptop's files; `DefaultPhysicalInterface`'s choice of the first interface that is up;
  the openssl script in `certs/`.
* Errors of the Windows client's route deletions, which the code drops, and a
  change of the machine's gateway, which it does not watch.
* Parsing of configuration files, the contents of certificates and TLS
  configurations, layouts and lists on the screen: no state that an interleaving
  could reach, or pure I/O.

## 6. What could follow

* A module `Dial` between `RelayServer` and its clients: the hijacked reader, a server that accepts and says nothing. It would rest on rules of
  net/http and quic-go that are in none of the repository's files.
* `OneBusy` of `EngineContract` as an obligation: were `Connect` to wait for the
  goroutine of the session before it, `overlapped` would stay false, and the
  properties that name it could be stated without.
