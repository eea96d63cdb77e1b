------------------------------- MODULE LanSend -------------------------------
(***************************************************************************)
(* The parameters the two sides of a transfer share.                       *)
(***************************************************************************)
EXTENDS Integers

CONSTANTS
  Sender,       \* endpoints (ip and port) that connect to the receiver
  File,         \* file ids; a sender draws a fresh uuid for every file
  TotalChunks,  \* number of chunks of each file
  MaxRequests   \* bound on the requests that are not refused as busy

ASSUME ChunksOK ==
  /\ TotalChunks \in [File -> Nat]
  /\ MaxRequests \in Nat
=============================================================================
