----------------------------- MODULE PacketPipe -----------------------------
(***************************************************************************)
(* What one direction of a tunnel promises: packets come out whole, in     *)
(* order and once.  It may stop at any time, and then the last packets     *)
(* that went in do not come out.                                           *)
(*                                                                         *)
(* This is the "simple binary packet framing" of internal/engine/          *)
(* fallback.go:16; PacketRelay implements it over the TCP fallback.        *)
(***************************************************************************)
EXTENDS Sequences, Naturals

CONSTANT Packets

VARIABLES
  sent,      \* the packets that went in
  received   \* the packets that came out

Init ==
  /\ sent = <<>>
  /\ received = <<>>

Send(p) ==
  /\ sent' = Append(sent, p)
  /\ UNCHANGED received

Receive ==
  /\ Len(received) < Len(sent)
  /\ received' = Append(received, sent[Len(received) + 1])
  /\ UNCHANGED sent

Next == Receive \/ \E p \in Packets : Send(p)

Spec == Init /\ [][Next]_<<sent, received>>
=============================================================================
