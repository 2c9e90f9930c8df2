--------------------------- MODULE WindowsClient ----------------------------
(***************************************************************************)
(* The Windows client (cmd/client-windows/main.go): one process after      *)
(* another on one machine, each of which dials a server, redirects the     *)
(* machine's traffic into a TUN adapter, relays, and puts the routes back. *)
(*                                                                         *)
(* The adapter and the default route on it (internal/tunif/tun_windows.go) *)
(* go away with the process, however it ends: Wintun ties them to its      *)
(* handle.  The host route, made by the command "route ADD", stays until   *)
(* somebody deletes it.  log.Fatalf ends the process without its deferred  *)
(* functions, and so does Ctrl+C as long as signal.Notify was not called.  *)
(*                                                                         *)
(* RelayLoop (module RelayLoop) appears here as its caller sees it: it     *)
(* runs, closes the TUN, closes the transport, and sends its result.       *)
(***************************************************************************)
EXTENDS Naturals, Functions

CONSTANTS
  Servers,    \* how many server profiles are configured
  MaxRtt,     \* bound: the longest round trip that a probe measures
  Addrs,      \* addresses that the server's name may resolve to
  NoAddr,     \* no address
  MaxStarts   \* bound: how many times the client is started

ASSUME ClientAssumption ==
  /\ NoAddr \notin Addrs
  /\ MaxStarts \in Nat
  /\ Servers \in Nat \ {0}
  /\ MaxRtt \in Nat

VARIABLES
  results,        \* main's slice: an entry per profile, in the list's order once sorted
  probing,        \* the profiles whose probe is out: the WaitGroup wg
  hostRoutes,     \* the machine's host routes to servers, via the gateway
  tun,            \* the TUN adapter: "none", "up", or the machine's "default" route
  starts,         \* processes started so far
  pc,             \* where main is; "off" when no process runs
  ended,          \* how the last process ended
  dialed,         \* the address that the transport is connected to
  conn,           \* the transport: "none", "open" or "closed"
  serverPublicIP, \* main's variable: the address the host route is for
  relay,          \* where RelayLoop is
  relayDone,      \* results in the channel relayDone
  sig,            \* the channel sig: "empty", "full", or "unset" before signal.Notify
  before          \* history: the host routes found at start

probeVars   == <<results, probing>>
machineVars == <<hostRoutes, tun>>
dialVars    == <<dialed, conn, serverPublicIP>>
relayVars   == <<relay, relayDone>>
runVars     == <<starts, ended, before>>
vars == <<probeVars, machineVars, dialVars, relayVars, sig, runVars, pc>>

Stages == {"off", "load", "probe", "choose",
           "dialQuic", "dialTcp", "lookup", "gateway", "createTun",
           "addHost", "addDefault", "startRelay", "notify", "wait",
           "removeDefault", "removeHost", "closeTun"}

Slots == 1..Servers

Entry == [profile : 0..Servers, rtt : 0..MaxRtt, err : BOOLEAN]

\* What make() fills the slice with: no profile, no error and no time at all.
Blank == [i \in Slots |-> [profile |-> 0, rtt |-> 0, err |-> FALSE]]

TypeOK ==
  /\ results \in [Slots -> Entry]
  /\ probing \subseteq Slots
  /\ hostRoutes \subseteq Addrs
  /\ tun \in {"none", "up", "default"}
  /\ starts \in 0..MaxStarts
  /\ pc \in Stages
  /\ ended \in {"never", "returned", "fatal", "interrupted"}
  /\ dialed \in Addrs \cup {NoAddr}
  /\ conn \in {"none", "open", "closed"}
  /\ serverPublicIP \in Addrs \cup {NoAddr}
  /\ relay \in {"none", "running", "closeTun", "closeRemote", "returned", "sent"}
  /\ relayDone \in 0..1
  /\ sig \in {"unset", "empty", "full"}
  /\ before \subseteq Addrs

Init ==
  /\ results = Blank
  /\ probing = {}
  /\ tun = "none"
  /\ dialed = NoAddr
  /\ conn = "none"
  /\ serverPublicIP = NoAddr
  /\ relay = "none"
  /\ relayDone = 0
  /\ sig = "unset"
  /\ hostRoutes = {}
  /\ starts = 0
  /\ pc = "off"
  /\ ended = "never"
  /\ before = {}
-----------------------------------------------------------------------------
(* The process.                                                            *)

Goes(from, to) == pc = from /\ pc' = to

\* The process ends: whatever belongs to it is gone, the host routes are not.
Ends(how) ==
  /\ pc' = "off"
  /\ ended' = how
  /\ tun' = "none"
  /\ dialed' = NoAddr
  /\ conn' = "none"
  /\ serverPublicIP' = NoAddr
  /\ relay' = "none"
  /\ relayDone' = 0
  /\ sig' = "unset"
  /\ results' = Blank
  /\ probing' = {}
  /\ UNCHANGED <<hostRoutes, starts, before>>

Start ==
  /\ Goes("off", "load")
  /\ starts < MaxStarts
  /\ starts' = starts + 1
  /\ before' = hostRoutes
  /\ UNCHANGED <<probeVars, machineVars, dialVars, relayVars, sig, ended>>

\* log.Fatalf, with which every step before the relay can fail.  In "choose" it
\* is the TLS configuration of a server that can be reached.
Fatal ==
  /\ \/ pc \in {"load", "dialTcp", "gateway", "createTun", "addDefault"}
     \/ pc = "choose" /\ \E i \in Slots : ~results[i].err
     \/ pc = "addHost" /\ serverPublicIP # NoAddr
  /\ Ends("fatal")
-----------------------------------------------------------------------------
(* The list of servers: every profile is probed at once, and each probe's  *)
(* goroutine writes the entry of its own.                                  *)

\* LoadClientConfig; one goroutine for each of the profiles.
LoadConfig ==
  /\ Goes("load", "probe")
  /\ results' = Blank
  /\ probing' = Slots
  /\ UNCHANGED <<machineVars, dialVars, relayVars, sig, runVars>>

\* A probe returns within its five seconds: with an error and no time, or with
\* the time of its handshake.
Probed(i) == {e \in Entry : e.profile = i /\ (e.err => e.rtt = 0)}

Probe ==
  \E i \in probing :
    /\ \E e \in Probed(i) : results' = [results EXCEPT ![i] = e]
    /\ probing' = probing \ {i}
    /\ UNCHANGED <<machineVars, dialVars, relayVars, sig, runVars, pc>>

\* The comparator given to sort.Slice, which keeps no order among equals.
MutLess(a, b) == a.rtt < b.rtt

Less(a, b) == ~a.err /\ (b.err \/ a.rtt < b.rtt)

InOrder(list) == \A i, j \in Slots : i < j => ~Less(list[j], list[i])

\* wg.Wait, and the sorting in place.
Sort ==
  /\ Goes("probe", "choose")
  /\ probing = {}
  /\ \E order \in Bijection(Slots, Slots) :
       results' = [i \in Slots |-> results[order[i]]]
  /\ InOrder(results')
  /\ UNCHANGED <<probing, machineVars, dialVars, relayVars, sig, runVars>>

\* Whatever the user types, the first entry stands for what is no choice.
Choice(typed) == IF typed \in Slots THEN typed ELSE 1

Typed == 0..Servers

Unreachable ==
  /\ pc = "choose"
  /\ \E typed \in Typed : results[Choice(typed)].err
  /\ Ends("fatal")

\* The TLS configuration is made; the slice is not read again.
Choose ==
  /\ Goes("choose", "dialQuic")
  /\ \E typed \in Typed : ~results[Choice(typed)].err
  /\ results' = Blank
  /\ UNCHANGED <<probing, machineVars, dialVars, relayVars, sig, runVars>>
-----------------------------------------------------------------------------
(* The dial, the adapter and the routes.                                   *)

\* The address is that of the connection itself.
DialQuic ==
  /\ \/ /\ Goes("dialQuic", "gateway")
        /\ dialed' \in Addrs
        /\ conn' = "open"
        /\ serverPublicIP' = dialed'
     \/ /\ Goes("dialQuic", "dialTcp")
        /\ UNCHANGED dialVars
  /\ UNCHANGED <<probeVars, machineVars, relayVars, sig, runVars>>

DialTcp ==
  /\ Goes("dialTcp", "lookup")
  /\ dialed' \in Addrs
  /\ conn' = "open"
  /\ UNCHANGED <<probeVars, machineVars, serverPublicIP, relayVars, sig, runVars>>

\* net.LookupHost after the dial: it may fail, or answer with another address.
LookupHost ==
  /\ Goes("lookup", "gateway")
  /\ serverPublicIP' \in Addrs \cup {NoAddr}
  /\ UNCHANGED <<probeVars, machineVars, dialed, conn, relayVars, sig, runVars>>

DefaultGateway ==
  /\ Goes("gateway", "createTun")
  /\ UNCHANGED <<probeVars, machineVars, dialVars, relayVars, sig, runVars>>

CreateTUN ==
  /\ Goes("createTun", "addHost")
  /\ tun' = "up"
  /\ UNCHANGED <<probeVars, hostRoutes, dialVars, relayVars, sig, runVars>>

\* "route ADD", skipped when the address is not known.
MutAddHostRoute ==
  /\ Goes("addHost", "addDefault")
  /\ UNCHANGED <<probeVars, machineVars, dialVars, relayVars, sig, runVars>>

AddHostRoute ==
  /\ Goes("addHost", "addDefault")
  /\ hostRoutes' = hostRoutes \cup ({serverPublicIP} \ {NoAddr})
  /\ UNCHANGED <<probeVars, tun, dialVars, relayVars, sig, runVars>>

AddDefaultRoute ==
  /\ Goes("addDefault", "startRelay")
  /\ tun' = "default"
  /\ UNCHANGED <<probeVars, hostRoutes, dialVars, relayVars, sig, runVars>>

\* SetDNS, whose failure is only a warning; then go RelayLoop(tunRW, transport).
StartRelay ==
  /\ Goes("startRelay", "notify")
  /\ relay' = "running"
  /\ UNCHANGED <<probeVars, machineVars, dialVars, relayDone, sig, runVars>>

Notify ==
  /\ Goes("notify", "wait")
  /\ sig' = "empty"
  /\ UNCHANGED <<probeVars, machineVars, dialVars, relayVars, runVars>>

RelayEnded ==
  /\ Goes("wait", "removeDefault")
  /\ relayDone > 0
  /\ relayDone' = relayDone - 1
  /\ UNCHANGED <<probeVars, machineVars, dialVars, relay, sig, runVars>>

MutInterrupted ==
  /\ Goes("wait", "removeDefault")
  /\ sig = "full" /\ relay = "sent"
  /\ sig' = "empty"
  /\ UNCHANGED <<probeVars, machineVars, dialVars, relayVars, runVars>>

Interrupted ==
  /\ Goes("wait", "removeDefault")
  /\ sig = "full"
  /\ sig' = "empty"
  /\ UNCHANGED <<probeVars, machineVars, dialVars, relayVars, runVars>>

\* The deferred clean-up, in its order.
RemoveDefaultRoute ==
  /\ Goes("removeDefault", "removeHost")
  /\ tun' = IF tun = "default" THEN "up" ELSE tun
  /\ UNCHANGED <<probeVars, hostRoutes, dialVars, relayVars, sig, runVars>>

MutRemoveHostRoute ==
  /\ Goes("removeHost", "closeTun")
  /\ hostRoutes' = IF relay = "sent" THEN hostRoutes ELSE hostRoutes \ {serverPublicIP}
  /\ UNCHANGED <<probeVars, tun, dialVars, relayVars, sig, runVars>>

MutRemoveDialed ==
  /\ Goes("removeHost", "closeTun")
  /\ hostRoutes' = hostRoutes \ {dialed}
  /\ UNCHANGED <<probeVars, tun, dialVars, relayVars, sig, runVars>>

RemoveHostRoute ==
  /\ Goes("removeHost", "closeTun")
  /\ hostRoutes' = hostRoutes \ {serverPublicIP}
  /\ UNCHANGED <<probeVars, tun, dialVars, relayVars, sig, runVars>>

\* tunRW.Close() and the return of main, which does not wait for the relay.
Return ==
  /\ pc = "closeTun"
  /\ Ends("returned")

\* The user presses Ctrl+C, at any time; the channel sig holds one signal.
CtrlC ==
  /\ pc # "off"
  /\ \/ /\ sig = "unset"
        /\ Ends("interrupted")
     \/ /\ sig # "unset"
        /\ sig' = "full"
        /\ UNCHANGED <<probeVars, machineVars, dialVars, relayVars, runVars, pc>>
-----------------------------------------------------------------------------
(* The relay's goroutine, and the connection.                              *)

RelayGoes(from, to) ==
  /\ pc # "off"
  /\ relay = from
  /\ relay' = to
  /\ UNCHANGED <<probeVars, hostRoutes, dialed, serverPublicIP, sig, runVars, pc>>

\* A pump has met an error: the peer is gone, the TUN failed or was closed.
RelayFails ==
  /\ RelayGoes("running", "closeTun")
  /\ UNCHANGED <<tun, conn, relayDone>>

\* The adapter takes the route on it along.
RelayClosesTun ==
  /\ RelayGoes("closeTun", "closeRemote")
  /\ tun' = "none"
  /\ UNCHANGED <<conn, relayDone>>

\* Close of a QUIC stream leaves the connection open, Close of TCP does not.
RelayClosesRemote ==
  /\ RelayGoes("closeRemote", "returned")
  /\ conn' \in {conn, "closed"}
  /\ UNCHANGED <<tun, relayDone>>

MutSendResult ==
  /\ RelayGoes("returned", "returned")
  /\ relayDone' = relayDone + 1
  /\ UNCHANGED <<tun, conn>>

SendResult ==
  /\ RelayGoes("returned", "sent")
  /\ relayDone < 1
  /\ relayDone' = relayDone + 1
  /\ UNCHANGED <<tun, conn>>

\* The peer closes, or the connection's idle timeout expires.
ConnLost ==
  /\ conn = "open"
  /\ conn' = "closed"
  /\ UNCHANGED <<probeVars, machineVars, dialed, serverPublicIP, relayVars, sig, runVars, pc>>
-----------------------------------------------------------------------------
Listing == LoadConfig \/ Probe \/ Sort \/ Unreachable \/ Choose

SetUp == DialQuic \/ DialTcp \/ LookupHost \/ DefaultGateway \/ CreateTUN
           \/ AddHostRoute \/ AddDefaultRoute \/ Fatal

WindUp == StartRelay \/ Notify \/ RelayEnded \/ Interrupted
            \/ RemoveDefaultRoute \/ RemoveHostRoute \/ Return

Closing == RelayClosesTun \/ RelayClosesRemote \/ SendResult

Next == Start \/ Listing \/ SetUp \/ WindUp \/ CtrlC \/ RelayFails \/ Closing \/ ConnLost

(* main and the relay's goroutine go on when they can; nothing is assumed  *)
(* of the user, of the dials and of the connection.                        *)
Fairness == WF_vars(WindUp) /\ WF_vars(Closing)

Spec == Init /\ [][Next]_vars
FairSpec == Spec /\ Fairness
-----------------------------------------------------------------------------
\* The user sees every configured server once, and the entry that stands for no
\* choice is the fastest server that answered, if any did: no probe's result
\* is lost or still missing, and one that failed, whose time reads zero, does
\* not pass for the fastest (client-windows/main.go:46-85).
DefaultIsFastest ==
  pc = "choose" =>
    /\ \A p \in Slots : \E i \in Slots : results[i].profile = p
    /\ \A i \in Slots :
         ~results[i].err => ~results[1].err /\ results[1].rtt <= results[i].rtt

\* While all traffic is routed into the TUN, the traffic to the address that
\* the transport is connected to is not (tun_windows.go:51-53).
NoRoutingLoop == conn = "open" /\ tun = "default" => dialed \in hostRoutes

\* It is not, whatever fails or is interrupted and whatever earlier processes
\* left behind, as long as the address in serverPublicIP is the one dialed
\* (client-windows/main.go:150-173).
HoleWhenNeeded == serverPublicIP = dialed => NoRoutingLoop

\* A process that returns leaves the host routes that it found, except that to
\* its own server, even when an earlier process had left that one behind
\* (client-windows/main.go:150-158).
ReturnRestores ==
  [][pc = "closeTun" /\ ended' = "returned" /\ pc' = "off"
       => hostRoutes' = before \ {serverPublicIP}]_vars

\* Once the relay is over or the user has asked for the end, the process ends:
\* its two ways to learn of it do not lose the news, and neither waits for the
\* other (client-windows/main.go:186-200).
OverEnds == relay = "closeTun" \/ sig = "full" ~> pc = "off"

\* A step of main or of the relay's goroutine is possible when its guards hold:
\* the side condition under which weak fairness makes it happen.  ENABLED is
\* out of the prover's reach, so the theorem on OverEnds has it as a hypothesis;
\* it is true by the guards of the actions, and says nothing else.
GuardsSuffice ==
  /\ \/ pc \in {"notify", "removeDefault", "removeHost", "closeTun"}
     \/ pc = "wait" /\ (relayDone > 0 \/ sig = "full")
     => ENABLED <<WindUp>>_vars
  /\ \/ pc = "wait" /\ relay \in {"closeTun", "closeRemote"}
     \/ pc = "wait" /\ relay = "returned" /\ relayDone < 1
     => ENABLED <<Closing>>_vars

\* However the process ends, it has added no host route but the one to its own
\* server and removed no other: what CleanupOnAnyExit gets wrong is one route
\* (client-windows/main.go:150-173).
OnlyOwnRouteDiffers ==
  [][pc # "off" /\ pc' = "off"
       => /\ hostRoutes' \subseteq before \cup {serverPublicIP}
          /\ before \subseteq hostRoutes' \cup {serverPublicIP}]_vars

\* "Cleanup runs in reverse-creation order on any exit path" (main.go:149).
CleanupOnAnyExit == pc = "off" /\ ended # "never" => hostRoutes \subseteq before
-----------------------------------------------------------------------------
(* What makes the safety properties inductive; used by WindowsClientProofs. *)

\* From the first route on, the routes are those found and main's own.
OwnRoutes ==
  /\ pc \in {"load", "probe", "choose",
            "dialQuic", "dialTcp", "lookup", "gateway", "createTun", "addHost"}
       => hostRoutes = before
  /\ pc \in {"addDefault", "startRelay", "notify", "wait", "removeDefault", "removeHost"}
       => hostRoutes = before \cup ({serverPublicIP} \ {NoAddr})
  /\ pc = "closeTun" => hostRoutes = before \ {serverPublicIP}

\* The default route is there only between the step that adds it and the one
\* that removes it, and a connection that is open has an address.
RoutesInOrder ==
  /\ tun = "default" => pc \in {"startRelay", "notify", "wait", "removeDefault"}
  /\ conn = "open" => dialed \in Addrs

\* An entry is that of its profile once the probe is in, and stays in the list.
EntriesOwn ==
  /\ probing # {} => pc = "probe"
  /\ pc = "probe" => \A i \in Slots \ probing : results[i].profile = i
  /\ DefaultIsFastest

\* The relay is there from the step that starts it to the end of the process,
\* and its result waits in the channel until main receives it.
Relaying ==
  /\ relay # "none"
       <=> pc \in {"notify", "wait", "removeDefault", "removeHost", "closeTun"}
  /\ sig # "unset" <=> pc \in {"wait", "removeDefault", "removeHost", "closeTun"}
  /\ relay # "sent" => relayDone = 0
  /\ relay = "sent" /\ pc \in {"notify", "wait"} => relayDone = 1

ClientInv == TypeOK /\ OwnRoutes /\ RoutesInOrder /\ EntriesOwn
=============================================================================
