---------------------------- MODULE ReceiveSession ----------------------------
(***************************************************************************)
(* What the receiver promises, without requests, chunks, counters or       *)
(* temporary files: at most one session is open; it is opened for a set of *)
(* files no session had before, which may be empty; only its own files are *)
(* saved, each at most once; it is completed by the save of its last file  *)
(* and by nothing else; and whatever else ends it leaves the files already *)
(* saved alone.                                                            *)
(***************************************************************************)
EXTENDS Integers

CONSTANTS
  File,         \* files that senders offer
  MaxRequests   \* bound on the sessions

VARIABLES
  open,      \* the open session, 0 if there is none
  accepted,  \* the files of each session
  outcome,   \* how each session ended
  saved      \* the files at their final path

vars == <<open, accepted, outcome, saved>>

Session == 1 .. MaxRequests
Aborts  == {"failed", "cancelled_by_sender", "cancelled_by_receiver", "sender_lost"}

Init ==
  /\ open = 0
  /\ accepted = [n \in Session |-> {}]
  /\ outcome = [n \in Session |-> "none"]
  /\ saved = {}

Open(n, files) ==
  /\ open = 0
  /\ outcome[n] = "none"
  /\ \A m \in Session : files \cap accepted[m] = {}
  /\ open' = n
  /\ accepted' = [accepted EXCEPT ![n] = files]
  /\ outcome' = [outcome EXCEPT ![n] = "open"]
  /\ UNCHANGED saved

\* f is not the last file of the session.
Save(f) ==
  /\ open # 0
  /\ f \in accepted[open] \ saved
  /\ saved' = saved \cup {f}
  /\ ~(accepted[open] \subseteq saved')
  /\ UNCHANGED <<open, accepted, outcome>>

Complete(f) ==
  /\ open # 0
  /\ f \in accepted[open] \ saved
  /\ saved' = saved \cup {f}
  /\ accepted[open] \subseteq saved'
  /\ open' = 0
  /\ outcome' = [outcome EXCEPT ![open] = "completed"]
  /\ UNCHANGED accepted

Abort(how) ==
  /\ open # 0
  /\ open' = 0
  /\ outcome' = [outcome EXCEPT ![open] = how]
  /\ UNCHANGED <<accepted, saved>>

Next ==
  \/ \E n \in Session, files \in SUBSET File : Open(n, files)
  \/ \E f \in File : Save(f) \/ Complete(f)
  \/ \E how \in Aborts : Abort(how)

Spec == Init /\ [][Next]_vars
=============================================================================
