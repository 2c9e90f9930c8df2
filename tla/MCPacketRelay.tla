--------------------------- MODULE MCPacketRelay ----------------------------
(***************************************************************************)
(* PacketRelay with bytes 0 and 1, frames of up to three bytes, buffers of *)
(* two, and every packet that fits a buffer and begins with a 1: a TUN may *)
(* refuse what begins with a 0.                                            *)
(***************************************************************************)
EXTENDS PacketRelay

AllPackets == {<<1>>} \cup {<<1, a>> : a \in Bytes}
=============================================================================
