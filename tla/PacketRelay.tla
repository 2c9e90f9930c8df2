---------------------------- MODULE PacketRelay -----------------------------
(***************************************************************************)
(* One direction of a tunnel, packet by packet and byte by byte: the pump  *)
(* TUN -> remote of one RelayLoop, the transport, and the pump remote ->   *)
(* TUN of the RelayLoop at the other end (internal/engine/relay.go).       *)
(*                                                                         *)
(* Over the TCP fallback both ends wrap the connection in a wsFrameConn    *)
(* (internal/engine/fallback.go), which writes each packet's length, two   *)
(* bytes big-endian, before the packet.  Over QUIC the relay writes to the *)
(* stream itself.  Either way the transport is a stream of bytes.          *)
(*                                                                         *)
(* A byte is a digit to base Base, which is 256 in the code: the lengths   *)
(* that two of them can say are what the frame format allows.              *)
(*                                                                         *)
(* What a TUN has delivered, another takes, as long as it is there.  It    *)
(* may refuse anything else: the kernel refuses what begins with no IP     *)
(* version, and a part of a packet, or two in one, begins with any byte.   *)
(* The other end reads on, so that a Write that waits for room in the      *)
(* transport is one that takes longer: wire has no limit.                  *)
(***************************************************************************)
EXTENDS Naturals, SequencesExt

CONSTANTS
  Base,       \* number of values of a byte
  BufSize,    \* packetBufSize, the relay's buffers at both ends
  Packets,    \* packets that the TUN may deliver
  MaxSent     \* bound: how many it delivers

Bytes == 0..(Base - 1)

\* 4096 < 65536: every packet that fits a buffer fits a frame, and so the
\* writer's own check for a packet that is too large never fires.  The TUN
\* delivers no empty packet.
ASSUME PacketAssumption ==
  /\ Base \in Nat \ {0, 1}
  /\ BufSize \in 1..(Base * Base - 1)
  /\ MaxSent \in Nat
  /\ \A p \in Packets : p \in Seq(Bytes) /\ Len(p) \in 1..BufSize

VARIABLES
  transport,  \* "tcp" or "quic", as the dial chose
  out,        \* where the sending pump is
  sent,       \* packets it has read from its TUN
  wire,       \* bytes written and not yet read
  cut,        \* the transport is closed or broken
  tunDown,    \* the receiving TUN is closed or down
  inn,        \* where the receiving pump is
  need,       \* length: what the last frame header said
  received    \* packets that it has written to its TUN

vars == <<transport, out, sent, wire, cut, tunDown, inn, need, received>>

TypeOK ==
  /\ transport \in {"tcp", "quic"}
  /\ out \in {"tunRead", "header", "payload", "failed"}
  /\ sent \in Seq(Packets)
  /\ wire \in Seq(Bytes)
  /\ cut \in BOOLEAN
  /\ tunDown \in BOOLEAN
  /\ inn \in {"header", "body", "stream", "failed"}
  /\ need \in 0..BufSize
  /\ received \in Seq(Seq(Bytes))

Init ==
  /\ transport \in {"tcp", "quic"}
  /\ out = "tunRead"
  /\ sent = <<>>
  /\ wire = <<>>
  /\ cut = FALSE
  /\ tunDown = FALSE
  /\ inn = (IF transport = "tcp" THEN "header" ELSE "stream")
  /\ need = 0
  /\ received = <<>>

DropFirst(n) == SubSeq(wire, n + 1, Len(wire))
-----------------------------------------------------------------------------
(* The sending pump.                                                       *)

TunRead ==
  /\ out = "tunRead"
  /\ Len(sent) < MaxSent
  /\ \E p \in Packets : sent' = Append(sent, p)
  /\ out' = (IF transport = "tcp" THEN "header" ELSE "payload")
  /\ UNCHANGED <<transport, wire, cut, tunDown, inn, need, received>>

\* The sending TUN is closed or down: the pump returns.
TunReadFails ==
  /\ out = "tunRead"
  /\ out' = "failed"
  /\ UNCHANGED <<transport, sent, wire, cut, tunDown, inn, need, received>>

\* binary.BigEndian.PutUint16
MutLittleEndian(n) == <<n % Base, n \div Base>>
MutNoShift(n) == <<n, n % Base>>
Header(n) == <<n \div Base, n % Base>>

\* The bytes of the Write that the pump is in.
Writing ==
  CASE out = "header"  -> Header(Len(Last(sent)))
    [] out = "payload" -> Last(sent)
    [] OTHER           -> <<>>

WriteReturns ==
  /\ out \in {"header", "payload"}
  /\ ~cut
  /\ wire' = wire \o Writing
  /\ out' = (IF out = "header" THEN "payload" ELSE "tunRead")
  /\ UNCHANGED <<transport, sent, cut, tunDown, inn, need, received>>

WriteFails ==
  /\ out \in {"header", "payload"}
  /\ cut
  /\ out' = "failed"
  /\ UNCHANGED <<transport, sent, wire, cut, tunDown, inn, need, received>>
-----------------------------------------------------------------------------
\* The connection is closed or breaks, possibly in the middle of a Write: the
\* other end gets some of the bytes that are under way, in order.
Cut ==
  /\ ~cut
  /\ cut' = TRUE
  /\ LET all == wire \o Writing
     IN  \E n \in 0..Len(all) : wire' = SubSeq(all, 1, n)
  /\ UNCHANGED <<transport, out, sent, tunDown, inn, need, received>>

\* The receiving TUN is closed, by another relay that shares it, or goes down.
TunCloses ==
  /\ ~tunDown
  /\ tunDown' = TRUE
  /\ UNCHANGED <<transport, out, sent, wire, cut, inn, need, received>>
-----------------------------------------------------------------------------
(* The receiving pump.  A Read that the bytes at hand do not satisfy waits *)
(* for more, or fails when the transport has been cut.                     *)

MutReadHeader ==
  /\ inn = "header"
  /\ Len(wire) >= 2
  /\ need' = wire[1] * Base + wire[2]
  /\ inn' = (IF need' >= BufSize THEN "failed" ELSE "body")
  /\ wire' = DropFirst(2)
  /\ UNCHANGED <<transport, out, sent, cut, tunDown, received>>

\* wsFrameConn.Read: the length, refused when the buffer is too small for it.
ReadHeader ==
  /\ inn = "header"
  /\ Len(wire) >= 2
  /\ need' = wire[1] * Base + wire[2]
  /\ inn' = (IF need' > BufSize THEN "failed" ELSE "body")
  /\ wire' = DropFirst(2)
  /\ UNCHANGED <<transport, out, sent, cut, tunDown, received>>

\* tun.Write of what a Read returned; an error ends the pump.
TunWrite(p) ==
  \/ /\ ~tunDown
     /\ received' = Append(received, p)
     /\ inn' = (IF transport = "tcp" THEN "header" ELSE "stream")
  \/ /\ tunDown \/ p \notin Packets
     /\ inn' = "failed"
     /\ UNCHANGED received

MutShortRead ==
  /\ inn = "body"
  /\ \E n \in 1..need :
       /\ n <= Len(wire)
       /\ wire' = DropFirst(n)
       /\ TunWrite(SubSeq(wire, 1, n))
  /\ UNCHANGED <<transport, out, sent, cut, tunDown, need>>

MutReadAhead ==
  /\ inn = "body"
  /\ Len(wire) > need
  /\ wire' = DropFirst(need)
  /\ TunWrite(SubSeq(wire, 1, need))
  /\ UNCHANGED <<transport, out, sent, cut, tunDown, need>>

\* io.ReadFull, then the relay's tun.Write.
ReadBody ==
  /\ inn = "body"
  /\ Len(wire) >= need
  /\ wire' = DropFirst(need)
  /\ TunWrite(SubSeq(wire, 1, need))
  /\ UNCHANGED <<transport, out, sent, cut, tunDown, need>>

\* Read of the QUIC stream: what is at hand, up to the buffer's size, goes to
\* the TUN as one packet.
ReadStream ==
  /\ inn = "stream"
  /\ \E n \in 1..BufSize :
       /\ n <= Len(wire)
       /\ wire' = DropFirst(n)
       /\ TunWrite(SubSeq(wire, 1, n))
  /\ UNCHANGED <<transport, out, sent, cut, tunDown, need>>

\* The end of the stream, also in the middle of a frame: what there is of the
\* frame is dropped.
ReadFails ==
  /\ cut
  /\ \/ inn = "header" /\ Len(wire) < 2
     \/ inn = "body" /\ Len(wire) < need
     \/ inn = "stream" /\ wire = <<>>
  /\ inn' = "failed"
  /\ UNCHANGED <<transport, out, sent, wire, cut, tunDown, need, received>>
-----------------------------------------------------------------------------
Write == WriteReturns \/ WriteFails
Read  == ReadHeader \/ ReadBody \/ ReadStream \/ ReadFails

Next == TunRead \/ TunReadFails \/ Write \/ Cut \/ TunCloses \/ Read

(* Both pumps go on when they can; the TUN need not deliver anything.      *)
Fairness == WF_vars(Write) /\ WF_vars(Read)

Spec == Init /\ [][Next]_vars
FairSpec == Spec /\ Fairness
-----------------------------------------------------------------------------
\* Over the TCP fallback the direction is a PacketPipe: wherever the two
\* Writes of a frame are cut off, no packet comes out in part, twice or out of
\* order (fallback.go:16-44).
Pipe == INSTANCE PacketPipe WITH
  sent     <- IF transport = "tcp" THEN sent ELSE <<>>,
  received <- IF transport = "tcp" THEN received ELSE <<>>
FramedIsPipe == Pipe!Spec

\* Over either transport the bytes that come out are the first of those that
\* went in, without the headers (relay.go:22-58).
BytesInOrder == IsPrefix(FlattenSeq(received), FlattenSeq(sent))

\* Over the TCP fallback the receiving pump fails only when the transport has
\* been cut or its TUN is gone: no frame is refused as too long, and none that
\* is read is anything but a packet, which a TUN takes (fallback.go:28,
\* relay.go:8, 53-56).
FailsOnlyWhenCut ==
  transport = "tcp" /\ inn = "failed" => cut \/ tunDown

\* Over QUIC the pump may also fail because of what it read: the TUN refused a
\* part of a packet, or several in one.
Refused == transport = "quic" /\ inn = "failed" /\ ~cut /\ ~tunDown

\* Every byte arrives unless the transport is cut, the TUN goes away or, over
\* QUIC, it refuses what was read: neither pump waits for bytes that the other
\* will not send (relay.go:22-58, fallback.go:22-44).
AllArrive ==
  []<>(cut \/ tunDown \/ Refused \/ FlattenSeq(received) = FlattenSeq(sent))

\* "It copies packets between the TUN device and the remote transport (QUIC
\* stream or TCP fallback)" (relay.go:11).
CopiesPackets == IsPrefix(received, sent)
=============================================================================
