------------------------------- MODULE Discovery -------------------------------
(***************************************************************************)
(* Discovery of devices (src/src/core/network/discovery/                   *)
(* discovery_manager.cc): every device broadcasts a datagram about itself  *)
(* every three seconds, and a manager lists the devices it has heard of    *)
(* and drops those it has not heard of for more than ten seconds, looking  *)
(* every five.  Datagrams are lost, any program can send any datagram, and *)
(* a peer whose send fails never broadcasts again while it runs.           *)
(*                                                                         *)
(* Time passes in seconds, and not beyond a timer that is due.  The wall   *)
(* clock of last_seen is taken to run like the timers.  Clocks are kept as *)
(* the time since or until, so they stay bounded.                          *)
(***************************************************************************)
EXTENDS Integers

CONSTANTS
  Device,       \* peers
  MaxLosses     \* bound on the datagrams in a row that the network loses

VARIABLES
  listed,        \* domain of discovered_devices_
  silence,       \* seconds since the last_seen of a listed device
  cleanup_in,    \* until cleanup_timer_ expires
  listening,     \* the listener coroutine runs
  online,        \* peers that are there
  broadcasting,  \* peers whose broadcaster coroutine runs
  broadcast_in,  \* until a peer's broadcast_timer_ expires
  \* History, read by no guard of the code:
  heard,         \* broadcasting peers heard of since they appeared
  losses,        \* datagrams of each peer lost since one arrived
  mute,          \* seconds since a peer had a broadcaster, at most MaxSilence + 1
  shown          \* devices the callbacks have made the frontend show

manager == <<listed, silence, cleanup_in, listening, shown>>
peers   == <<online, broadcasting, broadcast_in, heard, losses, mute>>
dvars   == <<manager, peers>>

Timeout           == 10
CleanupInterval   == 5
BroadcastInterval == 3

\* A device is dropped when cleanup finds it silent for more than the timeout,
\* so it is listed for at most one interval longer.
MaxSilence == Timeout + CleanupInterval

\* The losses the timeout is made for.
ASSUME LossesOK ==
  MaxLosses \in Nat /\ BroadcastInterval * (MaxLosses + 1) <= Timeout

\* The first wait of cleanup_timer_ and of a peer's broadcast_timer_ ends at
\* once, as they have not been set.
DInit ==
  /\ listed = {}
  /\ silence = [d \in Device |-> 0]
  /\ cleanup_in = 0
  /\ listening = TRUE
  /\ online = {}
  /\ broadcasting = {}
  /\ broadcast_in = [d \in Device |-> 0]
  /\ heard = {}
  /\ losses = [d \in Device |-> 0]
  /\ mute = [d \in Device |-> MaxSilence + 1]
  /\ shown = {}

-----------------------------------------------------------------------------
\* Mutant: a device that is known already is left alone.
AddDevice_KeepsLastSeen(d) ==
  /\ listed' = listed \cup {d}
  /\ silence' = IF d \in listed THEN silence ELSE [silence EXCEPT ![d] = 0]
  /\ shown' = shown \cup {d}

\* AddDevice: a new device is listed and shown, a known one was seen now.
AddDevice(d) ==
  /\ listed' = listed \cup {d}
  /\ silence' = [silence EXCEPT ![d] = 0]
  /\ shown' = IF d \in listed THEN shown ELSE shown \cup {d}

\* What becomes of a datagram.  The local device is one of the peers: the
\* listener skips datagrams that carry device_id_, and LocalDeviceInfo puts
\* another id in them.
Arrives(d) ==
  /\ losses' = [losses EXCEPT ![d] = 0]
  /\ heard' = heard \cup {d}
  /\ IF listening THEN AddDevice(d) ELSE UNCHANGED <<listed, silence, shown>>

Lost(d) ==
  /\ losses[d] < MaxLosses
  /\ losses' = [losses EXCEPT ![d] = @ + 1]
  /\ UNCHANGED <<heard, listed, silence, shown>>

\* A peer broadcasts and sets its timer again.
Broadcast(d) ==
  /\ d \in broadcasting
  /\ broadcast_in[d] = 0
  /\ broadcast_in' = [broadcast_in EXCEPT ![d] = BroadcastInterval]
  /\ Arrives(d) \/ Lost(d)
  /\ UNCHANGED <<cleanup_in, listening, online, broadcasting, mute>>

\* A peer that broadcasts no more: nothing hangs on its timer and its losses.
Silenced(d) ==
  /\ broadcasting' = broadcasting \ {d}
  /\ broadcast_in' = [broadcast_in EXCEPT ![d] = 0]
  /\ heard' = heard \ {d}
  /\ losses' = [losses EXCEPT ![d] = 0]

\* A send that fails ends a peer's broadcaster: its catch is behind the loop.
BroadcastFails(d) ==
  /\ d \in broadcasting
  /\ broadcast_in[d] = 0
  /\ Silenced(d)
  /\ UNCHANGED <<manager, online, mute>>

\* A datagram that is JSON but no device ends the listener; one that is no JSON
\* is ignored.
StrayDatagram ==
  /\ listening
  /\ listening' \in BOOLEAN
  /\ UNCHANGED <<listed, silence, cleanup_in, shown, peers>>

\* Mutants: a device is dropped too early; the frontend is not told; the interval
\* is the timeout.
cleanupDevices_Early ==
  /\ cleanup_in = 0
  /\ cleanup_in' = CleanupInterval
  /\ LET lost == {d \in listed : silence[d] >= Timeout - 1}
     IN /\ listed' = listed \ lost
        /\ shown' = shown \ lost
  /\ UNCHANGED <<silence, listening, peers>>

cleanupDevices_Silent ==
  /\ cleanup_in = 0
  /\ cleanup_in' = CleanupInterval
  /\ listed' = {d \in listed : silence[d] <= Timeout}
  /\ UNCHANGED <<silence, listening, shown, peers>>

cleanupDevices_Slow ==
  /\ cleanup_in = 0
  /\ cleanup_in' = Timeout
  /\ LET lost == {d \in listed : silence[d] > Timeout}
     IN /\ listed' = listed \ lost
        /\ shown' = shown \ lost
  /\ UNCHANGED <<silence, listening, peers>>

\* cleanupDevices, when its timer has expired.
cleanupDevices ==
  /\ cleanup_in = 0
  /\ cleanup_in' = CleanupInterval
  /\ LET lost == {d \in listed : silence[d] > Timeout}
     IN /\ listed' = listed \ lost
        /\ shown' = shown \ lost
  /\ UNCHANGED <<silence, listening, peers>>

\* A peer appears and broadcasts at once; a peer disappears.
Appear(d) ==
  /\ d \notin online
  /\ online' = online \cup {d}
  /\ broadcasting' = broadcasting \cup {d}
  /\ broadcast_in' = [broadcast_in EXCEPT ![d] = 0]
  /\ losses' = [losses EXCEPT ![d] = 0]
  /\ mute' = [mute EXCEPT ![d] = 0]
  /\ UNCHANGED <<manager, heard>>

Disappear(d) ==
  /\ d \in online
  /\ online' = online \ {d}
  /\ Silenced(d)
  /\ UNCHANGED <<manager, mute>>

\* A second passes.  Only the clocks of listed devices and of peers that
\* broadcast matter.
Tick ==
  /\ cleanup_in > 0
  /\ \A d \in broadcasting : broadcast_in[d] > 0
  /\ cleanup_in' = cleanup_in - 1
  /\ silence' = [d \in Device |-> IF d \in listed THEN silence[d] + 1 ELSE 0]
  /\ broadcast_in' = [d \in Device |-> IF d \in broadcasting THEN broadcast_in[d] - 1 ELSE 0]
  /\ mute' = [d \in Device |->
       IF d \in broadcasting THEN 0
       ELSE IF mute[d] > MaxSilence THEN mute[d] ELSE mute[d] + 1]
  /\ UNCHANGED <<listed, listening, online, broadcasting, heard, losses, shown>>

DNext ==
  \/ \E d \in Device : Broadcast(d) \/ BroadcastFails(d) \/ Appear(d) \/ Disappear(d)
  \/ StrayDatagram
  \/ cleanupDevices
  \/ Tick

DSpec == DInit /\ [][DNext]_dvars

-----------------------------------------------------------------------------
\* Properties.

\* The type invariant.
DTypeOK ==
  /\ listed \subseteq Device
  /\ silence \in [Device -> Nat]
  /\ cleanup_in \in 0 .. CleanupInterval
  /\ listening \in BOOLEAN
  /\ online \subseteq Device
  /\ broadcasting \subseteq online
  /\ heard \subseteq broadcasting
  /\ mute \in [Device -> Nat]
  /\ broadcast_in \in [Device -> 0 .. BroadcastInterval]
  /\ losses \in [Device -> 0 .. MaxLosses]
  /\ shown \subseteq Device

\* The frontend, which only sees the found and lost callbacks, shows exactly
\* the devices that operations can address (GetDevice).
ShownIsListed == shown = listed

\* A device is not listed for more than a cleanup interval after its timeout,
\* and so not for more than 15 s after it went away or its broadcaster ended,
\* datagrams in flight apart.
GoneIsDropped ==
  \A d \in listed : silence[d] <= MaxSilence /\ (d \notin broadcasting => mute[d] <= MaxSilence)

\* While the listener runs, a device that broadcasts and was heard of is not
\* dropped: it takes more than MaxLosses lost datagrams in a row, at whatever
\* moments of its silence the cleanup looks.  One that is there but whose
\* broadcaster has ended is dropped, as GoneIsDropped says.
PresentIsKept ==
  [][\A d \in listed \cap heard : listening => d \in listed']_dvars

\* What the properties above rest on: a device that broadcasts has been silent for
\* as long as its datagrams were lost, and a listed one for no longer than
\* since the cleanup that would have found it.
SilenceIsLosses ==
  listening =>
    \A d \in heard :
      /\ d \in listed
      /\ silence[d] + broadcast_in[d] <= BroadcastInterval * (losses[d] + 1)

SilenceIsBounded ==
  /\ \A d \in listed :
       silence[d] + cleanup_in <= MaxSilence /\ mute[d] <= silence[d]
  /\ \A d \in broadcasting : mute[d] = 0

\* The inductive invariant.
DInv == DTypeOK /\ ShownIsListed /\ SilenceIsLosses /\ SilenceIsBounded
===============================================================================
