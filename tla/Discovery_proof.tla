--------------------------- MODULE Discovery_proof ---------------------------
(***************************************************************************)
(* Proofs about Discovery, for any set of devices: the frontend shows what *)
(* is listed, a device that is gone is dropped in time, and one that       *)
(* broadcasts is kept.  The argument is arithmetic on clocks: the silence  *)
(* of a device is paid for by its lost datagrams, and bounded by the time  *)
(* to the next cleanup.                                                    *)
(***************************************************************************)
EXTENDS Discovery, TLAPS

\* The initial state: nothing is listed.
LEMMA DInvInit == DInit => DInv
<1> SUFFICES ASSUME DInit PROVE DInv
  OBVIOUS
<1>1. /\ silence \in [Device -> Nat] /\ mute \in [Device -> Nat]
      /\ broadcast_in \in [Device -> 0 .. BroadcastInterval]
      /\ losses \in [Device -> 0 .. MaxLosses]
  BY LossesOK DEF DInit, BroadcastInterval, MaxSilence, Timeout, CleanupInterval
<1>2. DTypeOK
  BY <1>1 DEF DInit, DTypeOK, CleanupInterval
<1>3. ShownIsListed /\ SilenceIsLosses /\ SilenceIsBounded
  BY DEF DInit, ShownIsListed, SilenceIsLosses, SilenceIsBounded
<1> QED BY <1>2, <1>3 DEF DInv

\* A datagram of a peer that arrives.
LEMMA ArrivesKeeps ==
  ASSUME DInv, NEW d \in Device, Broadcast(d), Arrives(d)
  PROVE  DInv'
<1> USE DEF DInv, Broadcast, Arrives
<1>1. DTypeOK'
  <2>1. /\ broadcast_in' \in [Device -> 0 .. BroadcastInterval]
        /\ losses' \in [Device -> 0 .. MaxLosses]
    BY LossesOK DEF DTypeOK, BroadcastInterval
  <2>2. /\ listed' \subseteq Device /\ shown' \subseteq Device
        /\ heard' \subseteq broadcasting /\ silence' \in [Device -> Nat]
    BY DEF DTypeOK, AddDevice
  <2> QED BY <2>1, <2>2 DEF DTypeOK
<1>2. ShownIsListed'
  BY DEF ShownIsListed, AddDevice
<1>3. SilenceIsLosses'
  BY DEF SilenceIsLosses, AddDevice, DTypeOK, BroadcastInterval
<1>4. SilenceIsBounded'
  BY DEF SilenceIsBounded, AddDevice, DTypeOK, CleanupInterval, MaxSilence, Timeout
<1> QED BY <1>1, <1>2, <1>3, <1>4

\* A datagram of a peer that is lost.
LEMMA LostKeeps ==
  ASSUME DInv, NEW d \in Device, Broadcast(d), Lost(d)
  PROVE  DInv'
<1> USE DEF DInv, Broadcast, Lost
<1>1. DTypeOK'
  BY LossesOK DEF DTypeOK, BroadcastInterval
<1>2. ShownIsListed'
  BY DEF ShownIsListed
<1>3. SilenceIsLosses'
  BY DEF SilenceIsLosses, DTypeOK, BroadcastInterval
<1>4. SilenceIsBounded'
  BY DEF SilenceIsBounded
<1> QED BY <1>1, <1>2, <1>3, <1>4

\* A stray datagram, the cleanup and the peers that come, go and fall silent.
LEMMA OthersKeep ==
  ASSUME DInv, StrayDatagram \/ cleanupDevices \/ \E d \in Device : BroadcastFails(d) \/ Appear(d) \/ Disappear(d)
  PROVE  DInv'
<1> USE DEF DInv
<1>1. CASE StrayDatagram
  BY <1>1 DEF StrayDatagram, peers, DTypeOK, ShownIsListed, SilenceIsLosses, SilenceIsBounded
<1>2. CASE cleanupDevices
  \* What is heard of has not been silent beyond the timeout.
  <2> USE <1>2 DEF cleanupDevices, peers
  <2>1. DTypeOK' /\ ShownIsListed'
    BY DEF DTypeOK, ShownIsListed, CleanupInterval
  <2>2. SilenceIsLosses'
    BY LossesOK DEF SilenceIsLosses, DTypeOK, BroadcastInterval, Timeout
  <2>3. SilenceIsBounded'
    BY DEF SilenceIsBounded, DTypeOK, CleanupInterval, MaxSilence, Timeout
  <2> QED BY <2>1, <2>2, <2>3
<1>3. ASSUME NEW d \in Device, Appear(d) PROVE DInv'
  <2> USE <1>3 DEF Appear, manager
  <2>1. DTypeOK' /\ ShownIsListed'
    BY LossesOK DEF DTypeOK, ShownIsListed, BroadcastInterval
  <2>2. SilenceIsLosses'
    BY DEF SilenceIsLosses, DTypeOK
  <2>3. SilenceIsBounded'
    BY DEF SilenceIsBounded, DTypeOK
  <2> QED BY <2>1, <2>2, <2>3
<1>4. ASSUME NEW d \in Device, BroadcastFails(d) \/ Disappear(d) PROVE DInv'
  <2> USE <1>4 DEF BroadcastFails, Disappear, Silenced, manager
  <2>1. DTypeOK' /\ ShownIsListed'
    BY LossesOK DEF DTypeOK, ShownIsListed, BroadcastInterval
  <2>2. SilenceIsLosses' /\ SilenceIsBounded'
    BY DEF SilenceIsLosses, SilenceIsBounded, DTypeOK
  <2> QED BY <2>1, <2>2
<1> QED BY <1>1, <1>2, <1>3, <1>4

\* A second passes: the silence of a device grows as its timer and the cleanup's run down.
LEMMA TickKeeps ==
  ASSUME DInv, Tick
  PROVE  DInv'
<1> USE DEF DInv, Tick
<1>1. DTypeOK'
  BY DEF DTypeOK, CleanupInterval, BroadcastInterval
<1>2. ShownIsListed'
  BY DEF ShownIsListed
<1>3. SilenceIsLosses'
  BY DEF SilenceIsLosses, DTypeOK, BroadcastInterval
<1>4. SilenceIsBounded'
  BY DEF SilenceIsBounded, DTypeOK, CleanupInterval, MaxSilence, Timeout
<1> QED BY <1>1, <1>2, <1>3, <1>4

\* Every step keeps the invariant.
LEMMA DInvNext == DInv /\ [DNext]_dvars => DInv'
<1> SUFFICES ASSUME DInv, [DNext]_dvars PROVE DInv'
  OBVIOUS
<1>1. CASE UNCHANGED dvars
  BY <1>1 DEF dvars, manager, peers, DInv, DTypeOK, ShownIsListed, SilenceIsLosses,
     SilenceIsBounded
<1>2. ASSUME NEW d \in Device, Broadcast(d) PROVE DInv'
  BY <1>2, ArrivesKeeps, LostKeeps DEF Broadcast
<1> QED BY <1>1, <1>2, OthersKeep, TickKeeps DEF DNext

\* Every reachable state satisfies the invariant, for any set of devices.
THEOREM DInvariance == DSpec => []DInv
<1> QED BY DInvInit, DInvNext, PTL DEF DSpec

\* The frontend shows what is listed.
THEOREM FrontendIsCurrent == DSpec => []ShownIsListed
<1>1. DInv => ShownIsListed
  BY DEF DInv
<1> QED BY <1>1, DInvariance, PTL

\* A device is dropped at most one cleanup interval after its timeout.
THEOREM ListIsCurrent == DSpec => []GoneIsDropped
<1>1. DInv => GoneIsDropped
  <2> SUFFICES ASSUME DInv, NEW d \in listed
               PROVE  silence[d] <= MaxSilence /\ mute[d] <= MaxSilence
    BY DEF DInv, GoneIsDropped
  <2> QED BY DEF DInv, DTypeOK, SilenceIsBounded, MaxSilence, Timeout, CleanupInterval
<1> QED BY <1>1, DInvariance, PTL

\* A device that broadcasts is never dropped by a listener that runs.
THEOREM PresentIsNeverDropped == DSpec => PresentIsKept
<1>1. DInv /\ [DNext]_dvars
      => [\A d \in listed \cap heard : listening => d \in listed']_dvars
  <2> SUFFICES ASSUME DInv, DNext, NEW d \in listed \cap heard, listening
               PROVE  d \in listed'
    OBVIOUS
  <2>1. CASE cleanupDevices
    BY <2>1, LossesOK
       DEF cleanupDevices, DInv, DTypeOK, SilenceIsLosses, BroadcastInterval, Timeout
  <2>2. CASE \E e \in Device : Broadcast(e)
    BY <2>2 DEF Broadcast, Arrives, Lost, AddDevice
  <2>3. CASE \E e \in Device : BroadcastFails(e) \/ Appear(e) \/ Disappear(e)
    BY <2>3 DEF BroadcastFails, Silenced, Appear, Disappear, manager
  <2>4. CASE StrayDatagram \/ Tick
    BY <2>4 DEF StrayDatagram, Tick
  <2> QED BY <2>1, <2>2, <2>3, <2>4 DEF DNext
<1> QED BY <1>1, DInvariance, PTL DEF DSpec, PresentIsKept
===============================================================================
