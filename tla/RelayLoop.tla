------------------------------ MODULE RelayLoop ------------------------------
(***************************************************************************)
(* RelayLoop of internal/engine/relay.go, for a set of connections.  Every *)
(* relay copies between its connection c and the TUN device TunOf[c]; the  *)
(* server gives all its relays the same one.                               *)
(*                                                                         *)
(* A relay is three goroutines: the main one, rpc[c], blocked on the error *)
(* channel errc, and one pump per direction: out[c] copies TUN -> remote,  *)
(* inn[c] copies remote -> TUN.  Packets carry no data here: what matters  *)
(* is who blocks where, who closes what, and who notices.                  *)
(*                                                                         *)
(* Two facts of the libraries, on which the relay depends, are modelled    *)
(* with it.  (1) The TUN is an os.File: one Read is in flight at a time,   *)
(* the others queue on the file's read lock, and Close wakes the queue.    *)
(* A Read that is already in the system call is interrupted only when the  *)
(* descriptor is non-blocking; CreateTUN opens /dev/net/tun blocking.      *)
(* (2) Close of a QUIC stream closes its SEND direction only, and does not *)
(* end a Write that waits for the peer to read; Close of a TCP connection  *)
(* closes both directions and ends both calls.                             *)
(*                                                                         *)
(* The two "n == 0" lines (relay.go:31, 50) leave the state as it is: an   *)
(* os.File turns a Read of no bytes into io.EOF (TunDeviceFails), and a    *)
(* Read of no bytes from the remote is simply repeated.                    *)
(***************************************************************************)
EXTENDS Naturals

CONSTANTS
  Conns,                \* transport connections, each used for one relay
  QuicConns,            \* those whose relay runs on a QUIC stream
  NoConn,               \* not a connection
  Tuns,                 \* TUN devices
  TunOf,                \* the device of each connection's relay
  TunCloseInterrupts,   \* does closing the TUN interrupt a Read in flight?
  Upsets                \* bound: which of AllUpsets may happen

\* The TUN's Read or Write fails by itself; a listener fails; main is signalled.
AllUpsets == {"read", "write", "listener", "signal"}

ASSUME RelayAssumption ==
  /\ Upsets \subseteq AllUpsets
  /\ QuicConns \subseteq Conns
  /\ NoConn \notin Conns
  /\ TunOf \in [Conns -> Tuns]
  /\ TunCloseInterrupts \in BOOLEAN

VARIABLES
  tunClosed,    \* per TUN: it has been closed
  tunReader,    \* per TUN: whose pump is inside its Read, or NoConn
  link,         \* state of the transport, as the server's calls see it
  sendClosed,   \* QUIC: our send direction has been closed
  rpc,          \* where RelayLoop's main goroutine is
  out,          \* where the pump TUN -> remote is
  inn,          \* where the pump remote -> TUN is
  errc          \* number of errors buffered in errc

tunVars   == <<tunClosed, tunReader>>
linkVars  == <<link, sendClosed>>
relayVars == <<tunClosed, tunReader, link, sendClosed, rpc, out, inn, errc>>

TcpConns == Conns \ QuicConns

\* "fin": the peer closed its direction of the QUIC stream; "lost": the peer
\* is gone; "closed": this process closed the connection.
LinkStates == {"idle", "up", "fin", "lost", "closed"}
MainStates == {"none", "wait", "closeTun", "closeRemote", "returned", "done"}
OutStates  == {"none", "tunRead", "inRead", "remoteWrite", "inWrite", "report", "dead"}
InnStates  == {"none", "remoteRead", "tunWrite", "report", "dead"}

RelayTypeOK ==
  /\ tunClosed \in [Tuns -> BOOLEAN]
  /\ tunReader \in [Tuns -> Conns \cup {NoConn}]
  /\ link \in [Conns -> LinkStates]
  /\ sendClosed \in [Conns -> BOOLEAN]
  /\ rpc \in [Conns -> MainStates]
  /\ out \in [Conns -> OutStates]
  /\ inn \in [Conns -> InnStates]
  /\ errc \in [Conns -> 0..2]

RelayInit ==
  /\ tunClosed = [t \in Tuns |-> FALSE]
  /\ tunReader = [t \in Tuns |-> NoConn]
  /\ link = [c \in Conns |-> "idle"]
  /\ sendClosed = [c \in Conns |-> FALSE]
  /\ rpc = [c \in Conns |-> "none"]
  /\ out = [c \in Conns |-> "none"]
  /\ inn = [c \in Conns |-> "none"]
  /\ errc = [c \in Conns |-> 0]

Running(c) == rpc[c] \notin {"none", "returned", "done"}

Readable(c) == link[c] = "up"
Writable(c) == link[c] \in {"up", "fin"} /\ ~sendClosed[c]

\* errc := make(chan error, 2): one slot per pump.
MutErrcCapacity == 1
ErrcCapacity == 2
-----------------------------------------------------------------------------
(* The peers.                                                              *)

\* The peer's own RelayLoop returned and closed its end of the QUIC stream.
PeerFinishes(c) ==
  /\ c \in QuicConns
  /\ link[c] = "up"
  /\ link' = [link EXCEPT ![c] = "fin"]
  /\ UNCHANGED <<tunVars, sendClosed, rpc, out, inn, errc>>

\* The peer closed the connection, or its idle timeout expired.
PeerLost(c) ==
  /\ link[c] \in {"up", "fin"}
  /\ link' = [link EXCEPT ![c] = "lost"]
  /\ UNCHANGED <<tunVars, sendClosed, rpc, out, inn, errc>>
-----------------------------------------------------------------------------
(* go RelayLoop(tun, remote): the two pumps start, the caller's goroutine  *)
(* waits for the first error.                                              *)

StartRelay(c) ==
  /\ rpc[c] = "none"
  /\ rpc' = [rpc EXCEPT ![c] = "wait"]
  /\ out' = [out EXCEPT ![c] = "tunRead"]
  /\ inn' = [inn EXCEPT ![c] = "remoteRead"]
  /\ UNCHANGED <<tunVars, linkVars, errc>>
-----------------------------------------------------------------------------
(* The pump TUN -> remote.                                                 *)

OutGoes(c, from, to) ==
  /\ out[c] = from
  /\ out' = [out EXCEPT ![c] = to]
  /\ UNCHANGED <<rpc, inn>>

\* tun.Read enters the system call: it holds the file's read lock.
TunReadBegins(c) ==
  /\ OutGoes(c, "tunRead", "inRead")
  /\ ~tunClosed[TunOf[c]]
  /\ tunReader[TunOf[c]] = NoConn
  /\ tunReader' = [tunReader EXCEPT ![TunOf[c]] = c]
  /\ UNCHANGED <<tunClosed, linkVars, errc>>

\* A Read in flight returns a packet when the kernel has one, even when the
\* TUN was closed meanwhile.
TunReadReturns(c) ==
  /\ OutGoes(c, "inRead", "remoteWrite")
  /\ tunReader' = [tunReader EXCEPT ![TunOf[c]] = NoConn]
  /\ UNCHANGED <<tunClosed, linkVars, errc>>

\* A new Read, or one queued on the read lock, of a closed TUN.
MutTunReadFails(c) ==
  /\ OutGoes(c, "tunRead", "tunRead")
  /\ tunClosed[TunOf[c]]
  /\ UNCHANGED <<tunVars, linkVars, errc>>

TunReadFails(c) ==
  /\ OutGoes(c, "tunRead", "report")
  /\ tunClosed[TunOf[c]]
  /\ UNCHANGED <<tunVars, linkVars, errc>>

\* Close interrupts the Read in flight of a non-blocking descriptor.
TunReadInterrupted(c) ==
  /\ OutGoes(c, "inRead", "report")
  /\ tunClosed[TunOf[c]]
  /\ TunCloseInterrupts
  /\ tunReader' = [tunReader EXCEPT ![TunOf[c]] = NoConn]
  /\ UNCHANGED <<tunClosed, linkVars, errc>>

\* The Read in flight fails by itself: the interface was removed.
TunDeviceFails(c) ==
  /\ "read" \in Upsets
  /\ OutGoes(c, "inRead", "report")
  /\ tunReader' = [tunReader EXCEPT ![TunOf[c]] = NoConn]
  /\ UNCHANGED <<tunClosed, linkVars, errc>>

RemoteWriteOk(c) ==
  /\ OutGoes(c, "remoteWrite", "tunRead")
  /\ Writable(c)
  /\ UNCHANGED <<tunVars, linkVars, errc>>

RemoteWriteFails(c) ==
  /\ OutGoes(c, "remoteWrite", "report")
  /\ ~Writable(c)
  /\ UNCHANGED <<tunVars, linkVars, errc>>

\* The send buffer is full, or the flow-control window is used up: Write waits
\* for the peer to read.
RemoteWriteBlocks(c) ==
  /\ OutGoes(c, "remoteWrite", "inWrite")
  /\ Writable(c)
  /\ UNCHANGED <<tunVars, linkVars, errc>>

\* The peer has read and made room.
WriteGoesOn(c) ==
  /\ OutGoes(c, "inWrite", "tunRead")
  /\ link[c] \in {"up", "fin"}
  /\ UNCHANGED <<tunVars, linkVars, errc>>

\* The connection is gone, and the Write that waited with it.
WriteBroken(c) ==
  /\ OutGoes(c, "inWrite", "report")
  /\ link[c] \notin {"up", "fin"}
  /\ UNCHANGED <<tunVars, linkVars, errc>>

\* errc <- err; return
OutReports(c) ==
  /\ OutGoes(c, "report", "dead")
  /\ errc[c] < ErrcCapacity
  /\ errc' = [errc EXCEPT ![c] = @ + 1]
  /\ UNCHANGED <<tunVars, linkVars>>

\* The steps the pump takes by itself; those that wait for a packet, for the
\* peer to make room, or for a fault are in OutNext only.
OutStep(c) ==
  \/ TunReadBegins(c)
  \/ TunReadFails(c)
  \/ TunReadInterrupted(c)
  \/ RemoteWriteOk(c)
  \/ RemoteWriteFails(c)
  \/ RemoteWriteBlocks(c)
  \/ WriteBroken(c)
  \/ OutReports(c)

OutNext(c) ==
  OutStep(c) \/ TunReadReturns(c) \/ TunDeviceFails(c) \/ WriteGoesOn(c)
-----------------------------------------------------------------------------
(* The pump remote -> TUN.                                                 *)

InnGoes(c, from, to) ==
  /\ inn[c] = from
  /\ inn' = [inn EXCEPT ![c] = to]
  /\ UNCHANGED <<tunVars, linkVars, rpc, out>>

RemoteReadOk(c) ==
  /\ InnGoes(c, "remoteRead", "tunWrite")
  /\ Readable(c)
  /\ UNCHANGED errc

RemoteReadFails(c) ==
  /\ InnGoes(c, "remoteRead", "report")
  /\ ~Readable(c)
  /\ UNCHANGED errc

\* wsFrameConn.Read refuses a frame longer than the relay's buffer.
FrameTooLong(c) ==
  /\ InnGoes(c, "remoteRead", "report")
  /\ c \in TcpConns
  /\ Readable(c)
  /\ UNCHANGED errc

TunWriteOk(c) ==
  /\ InnGoes(c, "tunWrite", "remoteRead")
  /\ ~tunClosed[TunOf[c]]
  /\ UNCHANGED errc

TunWriteFails(c) ==
  /\ InnGoes(c, "tunWrite", "report")
  /\ tunClosed[TunOf[c]]
  /\ UNCHANGED errc

\* The kernel refuses the bytes: they are not an IP packet.
TunWriteRefused(c) ==
  /\ "write" \in Upsets
  /\ InnGoes(c, "tunWrite", "report")
  /\ ~tunClosed[TunOf[c]]
  /\ UNCHANGED errc

\* return err without errc <- err.
MutInnReports(c) ==
  /\ InnGoes(c, "report", "dead")
  /\ UNCHANGED errc

InnReports(c) ==
  /\ InnGoes(c, "report", "dead")
  /\ errc[c] < ErrcCapacity
  /\ errc' = [errc EXCEPT ![c] = @ + 1]

\* The steps the pump takes by itself, and those that wait for the peer.
InnStep(c) ==
  \/ RemoteReadFails(c)
  \/ TunWriteOk(c)
  \/ TunWriteFails(c)
  \/ InnReports(c)

InnNext(c) == InnStep(c) \/ RemoteReadOk(c) \/ FrameTooLong(c) \/ TunWriteRefused(c)
-----------------------------------------------------------------------------
(* The main goroutine: err := <-errc, then the deferred closes.            *)

MainGoes(c, from, to) ==
  /\ rpc[c] = from
  /\ rpc' = [rpc EXCEPT ![c] = to]
  /\ UNCHANGED <<tunReader, out, inn>>

MutReceiveError(c) ==
  /\ MainGoes(c, "wait", "closeTun")
  /\ errc' = [errc EXCEPT ![c] = @ - 1]
  /\ UNCHANGED <<tunClosed, linkVars>>

ReceiveError(c) ==
  /\ MainGoes(c, "wait", "closeTun")
  /\ errc[c] > 0
  /\ errc' = [errc EXCEPT ![c] = @ - 1]
  /\ UNCHANGED <<tunClosed, linkVars>>

CloseTun(c) ==
  /\ MainGoes(c, "closeTun", "closeRemote")
  /\ tunClosed' = [tunClosed EXCEPT ![TunOf[c]] = TRUE]
  /\ UNCHANGED <<linkVars, errc>>

MutCloseRemote(c) ==
  /\ MainGoes(c, "closeRemote", "returned")
  /\ UNCHANGED <<tunClosed, linkVars, errc>>

\* remote.Close(): half of a QUIC stream, the whole of a TCP connection.
CloseRemote(c) ==
  /\ MainGoes(c, "closeRemote", "returned")
  /\ sendClosed' = [sendClosed EXCEPT ![c] = (c \in QuicConns)]
  /\ link' = [link EXCEPT ![c] = IF c \in TcpConns THEN "closed" ELSE @]
  /\ UNCHANGED <<tunClosed, errc>>

MainStep(c) == ReceiveError(c) \/ CloseTun(c) \/ CloseRemote(c)
-----------------------------------------------------------------------------
(* When the operation that one of the relay's goroutines is at does not    *)
(* block.                                                                  *)

OutCan(c) ==
  \/ out[c] = "tunRead" /\ tunClosed[TunOf[c]]
  \/ out[c] = "remoteWrite"
  \/ out[c] = "inWrite" /\ link[c] \notin {"up", "fin"}
  \/ out[c] = "report" /\ errc[c] < ErrcCapacity
InnCan(c) ==
  \/ inn[c] = "remoteRead" /\ ~Readable(c)
  \/ inn[c] = "tunWrite"
  \/ inn[c] = "report" /\ errc[c] < ErrcCapacity
LoopCan(c) ==
  \/ rpc[c] = "wait" /\ errc[c] > 0
  \/ rpc[c] \in {"closeTun", "closeRemote"}
-----------------------------------------------------------------------------
\* A pump that has an error to report is never blocked on errc, although the
\* main goroutine receives only once (relay.go:20, 61).
ErrcHasRoom ==
  \A c \in Conns :
    out[c] = "report" \/ inn[c] = "report" => errc[c] < ErrcCapacity

\* Errors reported and not yet received are in errc.
Reported(c) == (IF out[c] = "dead" THEN 1 ELSE 0) + (IF inn[c] = "dead" THEN 1 ELSE 0)
Received(c) == IF rpc[c] \in {"none", "wait"} THEN 0 ELSE 1
ErrcCounts == \A c \in Conns :
  /\ errc[c] + Received(c) = Reported(c)
  /\ rpc[c] = "none" => out[c] = "none" /\ inn[c] = "none"
=============================================================================
