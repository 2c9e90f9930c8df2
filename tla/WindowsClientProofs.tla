------------------------ MODULE WindowsClientProofs -------------------------
(***************************************************************************)
(* WindowsClient is well typed, digs the hole for its own packets before   *)
(* it redirects everything else, and restores the routes when it returns,  *)
(* for every set of addresses and every number of starts.                  *)
(***************************************************************************)
EXTENDS WindowsClient, TLAPS

LEMMA BlankType == Blank \in [Slots -> Entry] /\ Slots \subseteq Nat
BY ClientAssumption DEF Blank, Slots, Entry

LEMMA InitInv == Init => ClientInv
BY ClientAssumption, BlankType DEF Init, ClientInv, TypeOK, OwnRoutes, RoutesInOrder,
       EntriesOwn, DefaultIsFastest, Stages

\* How a process may end: every part of the invariant speaks of the host routes
\* of a process that runs, and none does.
LEMMA EndsInv ==
  ASSUME ClientInv, NEW how \in {"returned", "fatal", "interrupted"}, Ends(how)
  PROVE  ClientInv'
BY BlankType DEF ClientInv, TypeOK, OwnRoutes, RoutesInOrder,
       EntriesOwn, DefaultIsFastest, Stages, Ends

\* A permutation of the list still has an entry for each of the profiles.
LEMMA Permuted ==
  ASSUME NEW order \in Bijection(Slots, Slots),
         NEW p \in Slots
  PROVE  order \in [Slots -> Slots] /\ \E i \in Slots : order[i] = p
BY DEF Bijection, Injection, Surjection

\* Sorted by the comparator, the first entry is the fastest that answered.
LEMMA FirstIsFastest ==
  ASSUME NEW list \in [Slots -> Entry], InOrder(list), NEW i \in Slots, ~list[i].err
  PROVE  ~list[1].err /\ list[1].rtt <= list[i].rtt
<1>1. 1 \in Slots /\ list[1] \in Entry /\ list[i] \in Entry
  BY ClientAssumption DEF Slots
<1>2. CASE i = 1
  BY <1>1, <1>2, ClientAssumption DEF Entry
<1>3. CASE i # 1
  <2>1. 1 < i
    BY <1>3, ClientAssumption DEF Slots
  <2>2. ~Less(list[i], list[1])
    BY <1>1, <2>1 DEF InOrder
  <2> QED
    BY <1>1, <2>2, ClientAssumption DEF Less, Entry
<1> QED
  BY <1>2, <1>3

LEMMA SortInv == ClientInv /\ Sort => ClientInv'
<1> SUFFICES ASSUME ClientInv, Sort PROVE ClientInv'
  OBVIOUS
<1>1. PICK order \in Bijection(Slots, Slots) : results' = [i \in Slots |-> results[order[i]]]
  BY DEF Sort
<1>2. order \in [Slots -> Slots]
  BY Permuted, ClientAssumption DEF Bijection, Injection
<1>3. results' \in [Slots -> Entry]
  BY <1>1, <1>2 DEF ClientInv, TypeOK
<1>4. \A p \in Slots : \E i \in Slots : results'[i].profile = p
  <2> TAKE p \in Slots
  <2>1. PICK i \in Slots : order[i] = p
    BY Permuted
  <2>2. results[p].profile = p
    BY DEF Sort, Goes, ClientInv, EntriesOwn
  <2> QED
    BY <1>1, <2>1, <2>2
<1>5. \A i \in Slots :
        ~results'[i].err => ~results'[1].err /\ results'[1].rtt <= results'[i].rtt
  BY <1>3, FirstIsFastest DEF Sort
<1>6. EntriesOwn'
  BY <1>4, <1>5 DEF EntriesOwn, DefaultIsFastest, Sort, Goes
<1>7. TypeOK'
  BY <1>3 DEF ClientInv, TypeOK, Stages, Sort, Goes, machineVars, dialVars, relayVars, runVars
<1>8. OwnRoutes' /\ RoutesInOrder'
  BY DEF ClientInv, OwnRoutes, RoutesInOrder, Sort, Goes,
       machineVars, dialVars, relayVars, runVars
<1> QED
  BY <1>6, <1>7, <1>8 DEF ClientInv

LEMMA ListingInv == ClientInv /\ Listing => ClientInv'
<1> SUFFICES ASSUME ClientInv, Listing PROVE ClientInv'
  OBVIOUS
<1> USE ClientAssumption, BlankType
    DEF ClientInv, TypeOK, OwnRoutes, RoutesInOrder, Stages, Goes,
      machineVars, dialVars, relayVars, runVars
<1>1. CASE LoadConfig
  BY <1>1 DEF LoadConfig, EntriesOwn, DefaultIsFastest
<1>2. CASE Probe
  <2>1. PICK i \in probing : \E e \in Probed(i) :
          results' = [results EXCEPT ![i] = e] /\ probing' = probing \ {i}
    BY <1>2 DEF Probe
  <2>2. PICK e \in Probed(i) : results' = [results EXCEPT ![i] = e]
    BY <2>1
  <2>3. i \in Slots /\ e \in Entry /\ e.profile = i
    BY <2>2 DEF Probed
  <2>4. pc' = pc /\ pc = "probe"
    BY <1>2, <2>1 DEF Probe, EntriesOwn
  <2>5. EntriesOwn'
    BY <2>1, <2>2, <2>3, <2>4 DEF EntriesOwn, DefaultIsFastest
  <2> QED
    BY <1>2, <2>1, <2>2, <2>3, <2>5 DEF Probe
<1>3. CASE Sort
  BY <1>3, SortInv
<1>4. CASE Unreachable
  BY <1>4, EndsInv DEF Unreachable
<1>5. CASE Choose
  BY <1>5 DEF Choose, EntriesOwn, DefaultIsFastest
<1> QED
  BY <1>1, <1>2, <1>3, <1>4, <1>5 DEF Listing

LEMMA SetUpInv == ClientInv /\ SetUp => ClientInv'
<1> SUFFICES ASSUME ClientInv, SetUp PROVE ClientInv'
  OBVIOUS
<1> USE ClientAssumption DEF ClientInv, TypeOK, OwnRoutes, RoutesInOrder,
       EntriesOwn, DefaultIsFastest, Stages, Goes,
      probeVars, machineVars, dialVars, relayVars, runVars
<1>1. CASE DialQuic
  BY <1>1 DEF DialQuic
<1>2. CASE DialTcp
  BY <1>2 DEF DialTcp
<1>3. CASE LookupHost
  BY <1>3 DEF LookupHost
<1>4. CASE DefaultGateway
  BY <1>4 DEF DefaultGateway
<1>5. CASE CreateTUN
  BY <1>5 DEF CreateTUN
<1>6. CASE AddHostRoute
  BY <1>6 DEF AddHostRoute
<1>7. CASE AddDefaultRoute
  BY <1>7 DEF AddDefaultRoute
<1>8. CASE Fatal
  BY <1>8, EndsInv DEF Fatal
<1> QED
  BY <1>1, <1>2, <1>3, <1>4, <1>5, <1>6, <1>7, <1>8 DEF SetUp

LEMMA WindUpInv == ClientInv /\ WindUp => ClientInv'
<1> SUFFICES ASSUME ClientInv, WindUp PROVE ClientInv'
  OBVIOUS
<1> USE ClientAssumption DEF ClientInv, TypeOK, OwnRoutes, RoutesInOrder,
       EntriesOwn, DefaultIsFastest, Stages, Goes,
      probeVars, machineVars, dialVars, relayVars, runVars
<1>1. CASE StartRelay
  BY <1>1 DEF StartRelay
<1>2. CASE Notify
  BY <1>2 DEF Notify
<1>3. CASE RelayEnded
  BY <1>3 DEF RelayEnded
<1>4. CASE Interrupted
  BY <1>4 DEF Interrupted
<1>5. CASE RemoveDefaultRoute
  BY <1>5 DEF RemoveDefaultRoute
<1>6. CASE RemoveHostRoute
  BY <1>6 DEF RemoveHostRoute
<1>7. CASE Return
  BY <1>7, EndsInv DEF Return
<1> QED
  BY <1>1, <1>2, <1>3, <1>4, <1>5, <1>6, <1>7 DEF WindUp

LEMMA StepInv == ClientInv /\ [Next]_vars => ClientInv'
<1> SUFFICES ASSUME ClientInv, [Next]_vars PROVE ClientInv'
  OBVIOUS
<1>1. CASE SetUp
  BY <1>1, SetUpInv
<1>2. CASE WindUp
  BY <1>2, WindUpInv
<1>3. CASE Start
  BY <1>3, ClientAssumption DEF Start, Goes, ClientInv, TypeOK, OwnRoutes, RoutesInOrder,
       EntriesOwn, DefaultIsFastest, Stages,
       probeVars, machineVars, dialVars, relayVars
<1>4. CASE CtrlC
  <2>1. CASE Ends("interrupted")
    BY <2>1, EndsInv
  <2>2. CASE /\ UNCHANGED <<probeVars, machineVars, dialVars, relayVars, runVars, pc>>
             /\ sig' = "full"
    BY <2>2 DEF ClientInv, TypeOK, OwnRoutes, RoutesInOrder,
       EntriesOwn, DefaultIsFastest, Stages,
         probeVars, machineVars, dialVars, relayVars, runVars
  <2> QED
    BY <1>4, <2>1, <2>2 DEF CtrlC
<1>5. CASE RelayFails \/ Closing \/ ConnLost
  <2> USE DEF RelayGoes, ClientInv, TypeOK, OwnRoutes, RoutesInOrder,
       EntriesOwn, DefaultIsFastest, Stages,
        probeVars, machineVars, relayVars, runVars
  <2>1. CASE RelayFails
    BY <2>1 DEF RelayFails
  <2>2. CASE RelayClosesTun
    BY <2>2 DEF RelayClosesTun
  <2>3. CASE RelayClosesRemote
    BY <2>3 DEF RelayClosesRemote
  <2>4. CASE SendResult
    BY <2>4 DEF SendResult
  <2>5. CASE ConnLost
    BY <2>5 DEF ConnLost
  <2> QED
    BY <1>5, <2>1, <2>2, <2>3, <2>4, <2>5 DEF Closing
<1>6. CASE Listing
  BY <1>6, ListingInv
<1>7. CASE UNCHANGED vars
  BY <1>7 DEF vars, probeVars, machineVars, dialVars, relayVars, runVars,
       ClientInv, TypeOK, OwnRoutes, RoutesInOrder,
       EntriesOwn, DefaultIsFastest, Stages
<1> QED
  BY <1>1, <1>2, <1>3, <1>4, <1>5, <1>6, <1>7 DEF Next

LEMMA ClientInvariant == Spec => []ClientInv
BY InitInv, StepInv, PTL DEF Spec

\* Every reachable state of the Windows client is well typed: in particular no
\* channel of it ever holds more than the one item it has room for.
THEOREM ClientTypeCorrect == Spec => []TypeOK
<1>1. ClientInv => TypeOK
  BY DEF ClientInv
<1> QED
  BY <1>1, ClientInvariant, PTL

\* The client never redirects the tunnel's own packets into the tunnel, as long
\* as it knows the address it dialed: not while it sets up, not while it cleans
\* up, and not after an earlier process left routes behind.
THEOREM HoleBeforeDefault == Spec => []HoleWhenNeeded
<1>1. ClientInv => HoleWhenNeeded
  BY ClientAssumption DEF ClientInv, OwnRoutes, RoutesInOrder, HoleWhenNeeded, NoRoutingLoop
<1> QED
  BY <1>1, ClientInvariant, PTL

\* The list is complete, and its first entry the fastest server that answered,
\* for every number of servers and every outcome and order of their probes.
THEOREM FirstChoiceIsFastest == Spec => []DefaultIsFastest
<1>1. ClientInv => DefaultIsFastest
  BY DEF ClientInv, EntriesOwn
<1> QED
  BY <1>1, ClientInvariant, PTL

LEMMA OnlyEnds ==
  ASSUME ClientInv, [Next]_vars, pc # "off", pc' = "off"
  PROVE  hostRoutes' = hostRoutes
BY DEF ClientInv, TypeOK, Next, vars, Start, SetUp, Listing, LoadConfig, Probe, Sort,
   Unreachable, Choose, DialQuic, DialTcp, LookupHost, DefaultGateway,
   CreateTUN, AddHostRoute, AddDefaultRoute, Fatal, WindUp, StartRelay, Notify,
   RelayEnded, Interrupted, RemoveDefaultRoute, RemoveHostRoute, Return, CtrlC,
   RelayFails, Closing, RelayClosesTun, RelayClosesRemote, SendResult, ConnLost,
   RelayGoes, Goes, Ends, machineVars

\* A client that returns restores the routes, whatever came before it.
THEOREM RestoredOnReturn == Spec => ReturnRestores
<1>1. ClientInv /\ [Next]_vars
        => [pc = "closeTun" /\ ended' = "returned" /\ pc' = "off"
              => hostRoutes' = before \ {serverPublicIP}]_vars
  <2> SUFFICES ASSUME ClientInv, [Next]_vars,
                      pc = "closeTun", ended' = "returned", pc' = "off"
               PROVE  hostRoutes' = before \ {serverPublicIP}
    OBVIOUS
  <2>1. hostRoutes = before \ {serverPublicIP}
    BY DEF ClientInv, OwnRoutes
  <2>2. hostRoutes' = hostRoutes
    BY OnlyEnds
  <2> QED
    BY <2>1, <2>2
<1> QED
  BY <1>1, ClientInvariant, PTL DEF Spec, ReturnRestores

\* However a process ends, even without its deferred functions, the host routes
\* are those that it found, but for the one to its own server
\* (client-windows/main.go:150-173).
THEOREM OneRouteAtMost == Spec => OnlyOwnRouteDiffers
<1>1. ClientInv /\ pc # "off"
        => /\ hostRoutes \subseteq before \cup {serverPublicIP}
           /\ before \subseteq hostRoutes \cup {serverPublicIP}
  BY DEF ClientInv, OwnRoutes, TypeOK, Stages
<1>2. ClientInv /\ [Next]_vars
        => [pc # "off" /\ pc' = "off"
              => /\ hostRoutes' \subseteq before \cup {serverPublicIP}
                 /\ before \subseteq hostRoutes' \cup {serverPublicIP}]_vars
  BY <1>1, OnlyEnds
<1> QED
  BY <1>2, ClientInvariant, PTL DEF Spec, OnlyOwnRouteDiffers
-----------------------------------------------------------------------------
(* The end of the process.                                                 *)

LEMMA RelayingKept == ClientInv /\ Relaying /\ [Next]_vars => Relaying'
<1> SUFFICES ASSUME ClientInv, Relaying, [Next]_vars PROVE Relaying'
  OBVIOUS
<1> USE DEF ClientInv, TypeOK, Stages, Relaying
<1>1. CASE UNCHANGED vars
  BY <1>1 DEF vars, relayVars
<1>2. CASE Start
  BY <1>2 DEF Start, Goes, relayVars
<1>3. CASE \E how \in {"returned", "fatal", "interrupted"} : Ends(how)
  BY <1>3 DEF Ends
<1>4. CASE LoadConfig \/ Probe \/ Sort \/ Choose
  BY <1>4 DEF LoadConfig, Probe, Sort, Choose, Goes, relayVars
<1>5. CASE DialQuic \/ DialTcp \/ LookupHost \/ DefaultGateway \/ CreateTUN
             \/ AddHostRoute \/ AddDefaultRoute
  BY <1>5 DEF DialQuic, DialTcp, LookupHost, DefaultGateway, CreateTUN,
     AddHostRoute, AddDefaultRoute, Goes, relayVars
<1>6. CASE StartRelay \/ Notify
  BY <1>6 DEF StartRelay, Notify, Goes, relayVars
<1>7. CASE RelayEnded \/ Interrupted \/ RemoveDefaultRoute \/ RemoveHostRoute
  BY <1>7 DEF RelayEnded, Interrupted, RemoveDefaultRoute, RemoveHostRoute, Goes, relayVars
<1>8. CASE CtrlC
  BY <1>8, <1>3 DEF CtrlC, relayVars
<1>9. CASE RelayFails \/ Closing
  BY <1>9 DEF RelayFails, Closing, RelayClosesTun, RelayClosesRemote, SendResult, RelayGoes
<1>10. CASE ConnLost
  BY <1>10 DEF ConnLost, relayVars
<1>11. Unreachable \/ Fatal \/ Return => \E how \in {"returned", "fatal", "interrupted"} : Ends(how)
  BY DEF Unreachable, Fatal, Return
<1> QED
  BY <1>1, <1>2, <1>3, <1>4, <1>5, <1>6, <1>7, <1>8, <1>9, <1>10, <1>11
  DEF Next, Listing, SetUp, WindUp

LEMMA RelayingHolds == Spec => [](ClientInv /\ Relaying)
<1>1. Init => Relaying
  BY DEF Init, Relaying
<1> QED
  BY <1>1, InitInv, StepInv, RelayingKept, PTL DEF Spec

\* The stages from the news to the end: main is not waiting yet; it waits
\* while the relay closes the TUN, closes the transport and sends its result;
\* the news is there; then the deferred clean-up.
NotYet == pc = "notify" /\ relay # "running"
Waiting(at) == pc = "wait" /\ relay = at
Told == pc = "wait" /\ (relayDone > 0 \/ sig = "full")
Cleaning(at) == pc = at
Off == pc = "off"

\* What can happen to a process whose relay has started.
LEMMA LateStep ==
  ASSUME ClientInv, Relaying, relay # "none", [Next]_vars
  PROVE  \/ Off'
         \/ UNCHANGED <<pc, relay, relayDone>> /\ sig' \in {sig, "full"}
         \/ UNCHANGED <<pc, sig>> /\ (RelayFails \/ Closing)
         \/ WindUp
<1> USE DEF ClientInv, TypeOK, Relaying
<1>1. pc \in {"notify", "wait", "removeDefault", "removeHost", "closeTun"}
  OBVIOUS
<1>2. ~Start /\ ~Listing
  BY <1>1 DEF Start, Listing, EntriesOwn, LoadConfig, Probe, Sort, Unreachable, Choose, Goes
<1>3. ~SetUp
  BY <1>1 DEF SetUp, DialQuic, DialTcp, LookupHost, DefaultGateway, CreateTUN,
     AddHostRoute, AddDefaultRoute, Fatal, Goes
<1>4. CASE CtrlC
  BY <1>4 DEF CtrlC, Ends, Off, relayVars
<1>5. CASE RelayFails \/ Closing
  BY <1>5 DEF RelayFails, Closing, RelayClosesTun, RelayClosesRemote, SendResult, RelayGoes
<1>6. CASE ConnLost \/ UNCHANGED vars
  BY <1>6 DEF ConnLost, vars, relayVars
<1> QED
  BY <1>2, <1>3, <1>4, <1>5, <1>6 DEF Next

LEMMA NotYetKept ==
  ASSUME ClientInv, Relaying, NotYet, [Next]_vars
  PROVE  Off' \/ NotYet' \/ (pc' = "wait" /\ relay' # "running")
BY LateStep DEF Relaying, NotYet, WindUp, StartRelay, Notify, RelayEnded, Interrupted,
   RemoveDefaultRoute, RemoveHostRoute, Return, Goes, relayVars, RelayFails, Closing,
   RelayClosesTun, RelayClosesRemote, SendResult, RelayGoes

LEMMA WaitingKept ==
  ASSUME ClientInv, Relaying, pc = "wait", relay # "running", [Next]_vars
  PROVE  \/ Off' \/ Cleaning("removeDefault")'
         \/ pc' = "wait" /\ (sig = "full" => sig' = "full")
              /\ \/ UNCHANGED <<relay, relayDone>>
                 \/ Closing
<1> USE DEF ClientInv, TypeOK, Relaying
<1>1. CASE WindUp
  BY <1>1 DEF WindUp, StartRelay, Notify, RelayEnded, Interrupted,
     RemoveDefaultRoute, RemoveHostRoute, Return, Goes, Cleaning
<1>2. ~RelayFails
  BY DEF RelayFails, RelayGoes
<1> QED
  BY <1>1, <1>2, LateStep

LEMMA ClosingGoesOn ==
  ASSUME Closing
  PROVE  \/ relay = "closeTun" /\ relay' = "closeRemote" /\ relayDone' = relayDone
         \/ relay = "closeRemote" /\ relay' = "returned" /\ relayDone' = relayDone
         \/ relay = "returned" /\ relay' = "sent" /\ relayDone' = relayDone + 1
BY DEF Closing, RelayClosesTun, RelayClosesRemote, SendResult, RelayGoes

LEMMA CleaningKept ==
  ASSUME ClientInv, Relaying, [Next]_vars,
         NEW at \in {"removeDefault", "removeHost", "closeTun"}, Cleaning(at)
  PROVE  Off' \/ Cleaning(at)' \/ WindUp
BY LateStep DEF Relaying, Cleaning

\* Each step of main's own on its way to the end.
LEMMA WindUpGoesOn ==
  ASSUME WindUp
  PROVE  /\ pc = "notify" => pc' = "wait" /\ UNCHANGED relay
         /\ pc = "wait" => pc' = "removeDefault"
         /\ pc = "removeDefault" => pc' = "removeHost"
         /\ pc = "removeHost" => pc' = "closeTun"
         /\ pc = "closeTun" => Off'
BY DEF WindUp, StartRelay, Notify, RelayEnded, Interrupted, RemoveDefaultRoute,
   RemoveHostRoute, Return, Goes, Ends, Off, relayVars

\* A relay that has begun to end, or a Ctrl+C that main receives, brings the
\* process to its end, through the select and all deferred functions, for every
\* list of servers and set of addresses (client-windows/main.go:149-200).
THEOREM OverComesToAnEnd == FairSpec /\ []GuardsSuffice => OverEnds
<1> DEFINE Inv == ClientInv /\ Relaying
           Closes == Waiting("closeTun")
           Leaves == Waiting("closeRemote")
           Sends == Waiting("returned")
           Default == Cleaning("removeDefault")
           Host == Cleaning("removeHost")
           Tun == Cleaning("closeTun")
           Waits == Closes \/ Leaves \/ Sends \/ Told
           Ending == Default \/ Off
<1> USE DEF NotYet, Waiting, Told, Cleaning, Off
<1>1. Inv /\ (relay = "closeTun" \/ sig = "full")
        => NotYet \/ Waits \/ Default \/ Host \/ Tun \/ Off
  BY DEF Relaying
<1>2. Inv /\ NotYet /\ [Next]_vars => (NotYet \/ Waits \/ Off)'
  <2> SUFFICES ASSUME Inv, NotYet, [Next]_vars PROVE (NotYet \/ Waits \/ Off)'
    OBVIOUS
  <2>1. Inv'
    BY StepInv, RelayingKept
  <2> QED
    BY <2>1, NotYetKept DEF Relaying, ClientInv, TypeOK
<1>3. Inv /\ NotYet /\ <<Next /\ WindUp>>_vars => (Waits \/ Off)'
  <2> SUFFICES ASSUME Inv, NotYet, Next, WindUp PROVE (Waits \/ Off)'
    OBVIOUS
  <2>1. Inv'
    BY StepInv, RelayingKept
  <2> QED
    BY <2>1, WindUpGoesOn DEF Relaying, ClientInv, TypeOK
<1>4. Inv /\ Closes /\ [Next]_vars => (Closes \/ Leaves \/ Ending)'
  BY WaitingKept, ClosingGoesOn
<1>5. Inv /\ Closes /\ <<Next /\ Closing>>_vars => (Leaves \/ Ending)'
  BY WaitingKept, ClosingGoesOn
<1>6. Inv /\ Leaves /\ [Next]_vars => (Leaves \/ Sends \/ Ending)'
  BY WaitingKept, ClosingGoesOn
<1>7. Inv /\ Leaves /\ <<Next /\ Closing>>_vars => (Sends \/ Ending)'
  BY WaitingKept, ClosingGoesOn
<1>8. Inv /\ Sends /\ [Next]_vars => (Sends \/ Told \/ Ending)'
  BY WaitingKept, ClosingGoesOn DEF ClientInv, TypeOK
<1>9. Inv /\ Sends /\ <<Next /\ Closing>>_vars => (Told \/ Ending)'
  BY WaitingKept, ClosingGoesOn DEF ClientInv, TypeOK
<1>10. Inv /\ Told /\ [Next]_vars => (Told \/ Ending)'
  <2> SUFFICES ASSUME Inv, Told, [Next]_vars PROVE (Told \/ Ending)'
    OBVIOUS
  <2>1. CASE relay = "running"
    <3>1. sig = "full" /\ relay # "none" /\ relayDone = 0
      BY <2>1 DEF Relaying
    <3>2. CASE WindUp
      BY <3>2, WindUpGoesOn
    <3> QED
      BY <3>1, <3>2, LateStep
  <2>2. CASE relay # "running"
    <3>1. sig = "full" \/ ~Closing
      BY ClosingGoesOn DEF Relaying
    <3> QED
      BY <2>2, <3>1, WaitingKept
  <2> QED
    BY <2>1, <2>2
<1>11. Inv /\ Told /\ <<Next /\ WindUp>>_vars => Ending'
  BY WindUpGoesOn
<1>12. Inv /\ Default /\ [Next]_vars => (Default \/ Host \/ Off)'
  BY CleaningKept, WindUpGoesOn
<1>13. Inv /\ Default /\ <<Next /\ WindUp>>_vars => (Host \/ Off)'
  BY WindUpGoesOn
<1>14. Inv /\ Host /\ [Next]_vars => (Host \/ Tun \/ Off)'
  BY CleaningKept, WindUpGoesOn
<1>15. Inv /\ Host /\ <<Next /\ WindUp>>_vars => (Tun \/ Off)'
  BY WindUpGoesOn
<1>16. Inv /\ Tun /\ [Next]_vars => (Tun \/ Off)'
  BY CleaningKept, WindUpGoesOn
<1>17. Inv /\ Tun /\ <<Next /\ WindUp>>_vars => Off'
  BY WindUpGoesOn
<1>18. Inv /\ GuardsSuffice /\ (NotYet \/ Told \/ Default \/ Host \/ Tun)
         => ENABLED <<WindUp>>_vars
  BY DEF GuardsSuffice
<1>19. Inv /\ GuardsSuffice /\ (Closes \/ Leaves \/ Sends) => ENABLED <<Closing>>_vars
  BY DEF GuardsSuffice, Relaying
<1>20. Off <=> pc = "off"
  OBVIOUS
<1> HIDE DEF Inv, Closes, Leaves, Sends, Default, Host, Tun, NotYet, Told, Off
<1>21. Spec => []Inv
  BY RelayingHolds DEF Inv
<1> QED
  BY <1>1, <1>2, <1>3, <1>4, <1>5, <1>6, <1>7, <1>8, <1>9, <1>10, <1>11, <1>12, <1>13,
     <1>14, <1>15, <1>16, <1>17, <1>18, <1>19, <1>20, <1>21,
     PTL DEF FairSpec, Fairness, Spec, OverEnds
=============================================================================
