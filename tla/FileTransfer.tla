----------------------------- MODULE FileTransfer -----------------------------
(***************************************************************************)
(* What the users at both ends of LanSend are promised, without messages,  *)
(* connections, chunks or coroutines: a sender's files are received in the *)
(* order of their sizes, by one session at most and one session at a time; *)
(* the sender's user sees a file as sent only when it is saved; and the    *)
(* sender reaches one verdict, which agrees with what the receiver did,    *)
(* except that a sender that failed may not know how far it came.          *)
(***************************************************************************)
EXTENDS Integers, Sequences

CONSTANTS
  Sender,
  File,
  FilesOf   \* the files of each sender, in increasing size

VARIABLES
  saved,    \* files at their final path
  fate,     \* what became of each sender's session at the receiver
  shown,    \* files each sender's user sees as sent
  verdict   \* how each sender ended, "none" before

vars == <<saved, fate, shown, verdict>>

Aborts == {"failed", "cancelled_by_sender", "cancelled_by_receiver", "sender_lost"}

Names(s) == {FilesOf[s][i] : i \in DOMAIN FilesOf[s]}

Init ==
  /\ saved = {}
  /\ fate = [s \in Sender |-> "none"]
  /\ shown = [s \in Sender |-> {}]
  /\ verdict = [s \in Sender |-> "none"]

\* The request of s may be accepted after s has given up.
Open(s) ==
  /\ fate[s] = "none"
  /\ \A t \in Sender : fate[t] # "open"
  /\ fate' = [fate EXCEPT ![s] = "open"]
  /\ UNCHANGED <<saved, shown, verdict>>

\* The next file of s; the last one completes the session.
Save(s) ==
  /\ fate[s] = "open"
  /\ \E i \in DOMAIN FilesOf[s] :
       /\ \A j \in 1 .. i - 1 : FilesOf[s][j] \in saved
       /\ FilesOf[s][i] \notin saved
       /\ saved' = saved \cup {FilesOf[s][i]}
       /\ fate' = [fate EXCEPT ![s] = IF i = Len(FilesOf[s]) THEN "completed" ELSE @]
  /\ UNCHANGED <<shown, verdict>>

Abort(s) ==
  /\ fate[s] = "open"
  /\ \E how \in Aborts : fate' = [fate EXCEPT ![s] = how]
  /\ UNCHANGED <<saved, shown, verdict>>

\* The user of s sees a file as sent, before the transfer ends or as it ends.
Show(s) ==
  \E f \in Names(s) \cap saved : shown' = [shown EXCEPT ![s] = @ \cup {f}]

Report(s) ==
  /\ verdict[s] = "none"
  /\ Show(s)
  /\ UNCHANGED <<saved, fate, verdict>>

Verdicts == {"kDeclined", "kCompleted", "kFailed", "kCancelledBySender",
             "kCancelledByReceiver"}

\* A sender that completed has shown all its files, and what it says of the
\* receiver is true.
Conclude(s) ==
  /\ verdict[s] = "none"
  /\ shown' = shown \/ Show(s)
  /\ \E status \in Verdicts :
       /\ verdict' = [verdict EXCEPT ![s] = status]
       /\ status = "kCompleted" => fate[s] = "completed" /\ shown'[s] = Names(s)
       /\ status = "kCancelledByReceiver" => fate[s] = "cancelled_by_receiver"
       /\ status = "kCancelledBySender" => fate[s] \in Aborts
  /\ UNCHANGED <<saved, fate>>

Next == \E s \in Sender : Open(s) \/ Save(s) \/ Abort(s) \/ Report(s) \/ Conclude(s)

Spec == Init /\ [][Next]_vars
===============================================================================
