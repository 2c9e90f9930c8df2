------------------------- MODULE TunnelLeaseProofs --------------------------
(***************************************************************************)
(* What TunnelLease, the abstract specification, guarantees to whoever     *)
(* implements it.                                                          *)
(***************************************************************************)
EXTENDS TunnelLease, TLAPS

LeaseTypes ==
  /\ granted \subseteq Conns
  /\ revoked \subseteq granted
  /\ holder \in [Listeners -> Conns \cup {NoConn}]

\* The holder of a listener's lease is exactly the live lease of that listener.
HolderIsLive ==
  \A l \in Listeners, c \in Conns :
    holder[l] = c <=> Home[c] = l /\ c \in granted \ revoked

LEMMA LeaseStepPreserves ==
  ASSUME LeaseAssumption, LeaseTypes, HolderIsLive, [Next]_leaseVars
  PROVE  LeaseTypes' /\ HolderIsLive'
<1> USE DEF LeaseAssumption, LeaseTypes, HolderIsLive
<1>1. CASE UNCHANGED leaseVars
  BY <1>1 DEF leaseVars
<1>2. ASSUME NEW c \in Conns, Ask(c) \/ Withdraw(c)
      PROVE  LeaseTypes' /\ HolderIsLive'
  BY <1>2 DEF Ask, Withdraw
<1>3. ASSUME NEW c \in Conns, Take(c)
      PROVE  LeaseTypes' /\ HolderIsLive'
  <2>1. LeaseTypes'
    BY <1>3 DEF Take
  <2>2. ASSUME NEW l \in Listeners, NEW d \in Conns
        PROVE  holder'[l] = d <=> Home[d] = l /\ d \in granted' \ revoked'
    BY <1>3, <2>2 DEF Take
  <2> QED
    BY <2>1, <2>2
<1>4. ASSUME NEW c \in Conns, GiveBack(c)
      PROVE  LeaseTypes' /\ HolderIsLive'
  BY <1>4 DEF GiveBack
<1> QED
  BY <1>1, <1>2, <1>3, <1>4 DEF Next

\* A lease that was granted and not revoked is held, so that the next taker
\* revokes it: no two connections of a listener have one at the same time.
THEOREM LiveLease == ASSUME LeaseAssumption PROVE Spec => []LiveLeaseIsHeld
<1>1. Init => LeaseTypes /\ HolderIsLive
  BY LeaseAssumption DEF Init, LeaseTypes, HolderIsLive, LeaseAssumption
<1>2. LeaseTypes /\ HolderIsLive /\ [Next]_leaseVars => LeaseTypes' /\ HolderIsLive'
  BY LeaseStepPreserves
<1>3. LeaseTypes /\ HolderIsLive => LiveLeaseIsHeld
  BY LeaseAssumption DEF LeaseTypes, HolderIsLive, LiveLeaseIsHeld, LeaseAssumption
<1> QED
  BY <1>1, <1>2, <1>3, PTL DEF Spec
=============================================================================
