------------------------------- MODULE Transfer -------------------------------
(***************************************************************************)
(* Whole transfers: SendSession objects of several senders, the HTTPS      *)
(* connections between them and one receiver (handleConnection in          *)
(* src/src/core/network/server/http_server.cc), and the ReceiveController  *)
(* behind the server.                                                      *)
(*                                                                         *)
(* A connection is served by one coroutine, which takes the next request   *)
(* once it has written the answer to the last.                             *)
(*                                                                         *)
(* The receiver accepts every request: with a wait condition set no        *)
(* request is ever accepted (see WaitPoll), and no transfer gets beyond    *)
(* request-send.                                                           *)
(***************************************************************************)
EXTENDS ReceiveController, SendSession

\* prepareFiles draws a uuid for every file, so that no two files have the same
\* id, of one sender or of two.
ASSUME FileIdsAreUnique ==
  /\ \A s \in Sender : \A i, j \in DOMAIN FilesOf[s] :
       FilesOf[s][i] = FilesOf[s][j] => i = j
  /\ \A s, t \in Sender : s # t => FilesIn(s) \cap FilesIn(t) = {}

tvars == <<vars, send_vars>>

TInit == Init /\ ~wait_condition /\ SendInit

-----------------------------------------------------------------------------
\* What a well behaved sender and the receiver's disk can make of a body, and
\* what becomes of one with the record of a cancel in it: it does not parse, or
\* its data do not match their checksum.
SentRequestBodies(s) ==
  IF writing[s] = "torn" THEN {"malformed"} ELSE {"good", "throws"}

SentChunkBodies(s) ==
  IF writing[s] = "torn" THEN {"malformed", "corrupt"}
  ELSE {"good", "open_fails", "write_fails"}

SentVerifyBodies == {"good", "differs", "rename_fails"}

\* handleRequest: the route of the request.
Handle(s, req, resp) ==
  \/ /\ req.type = "request-send"
     /\ \E body \in SentRequestBodies(s) :
          onRequestSend(s, FilesIn(s), body, resp)
  \/ /\ req.type = "send-chunk"
     /\ \E body \in SentChunkBodies(s) :
          onSendChunk(req.sid, req.token, req.file, req.index, body, resp)
  \/ /\ req.type = "verify-integrity"
     /\ \E body \in SentVerifyBodies :
          onVerifyIntegrity(req.sid, req.token, req.file, body, resp)
  \/ /\ req.type = "cancel-send"
     /\ onCancelSend(req.sid, "good", resp)

\* The answer that onRequestSend builds when it has opened a session, and any
\* other answer.
AnswerTo(req, resp) ==
  IF req.type = "request-send" /\ resp = "200"
  THEN Answer(req.type, resp, session_id', received_files')
  ELSE Answer(req.type, resp, 0, {})

\* The coroutine of connection s reads a request, has it handled and writes the
\* answer.  On a connection that is down the write may still seem to succeed;
\* after a request without keep-alive it is the last operation, and then nobody
\* is told that the connection was lost.
Serve(s) ==
  /\ conn[s] \in {"up", "down"}
  /\ to_server[s] # <<>>
  /\ UNCHANGED <<main_vars, cancel, readers>>
  /\ LET req == Head(to_server[s])
     IN \E resp \in Responses :
          /\ Handle(s, req, resp)
          /\ \/ /\ conn[s] = "up"
                /\ Reply(s, AnswerTo(req, resp))
             \/ /\ conn[s] = "down"
                /\ KeepAlive(req)
                /\ to_server' = [to_server EXCEPT ![s] = Tail(@)]
                /\ UNCHANGED <<conn, writing, to_client>>
             \/ /\ conn[s] = "down"
                /\ ~KeepAlive(req)
                /\ to_server' = [to_server EXCEPT ![s] = <<>>]
                /\ conn' \in {conn, [conn EXCEPT ![s] = "gone"]}
                /\ UNCHANGED <<writing, to_client>>

\* The connection's coroutine ends.  A connection that is up is closed.
ServerEnds(s) ==
  /\ conn[s] \in {"down", "astray"}
  /\ conn' = [conn EXCEPT ![s] = IF @ = "down" THEN "gone" ELSE "half"]
  /\ to_server' = [to_server EXCEPT ![s] = <<>>]
  /\ UNCHANGED <<main_vars, cancel, writing, to_client, readers>>

\* Mutant: the controller is not told.
ServerNoticesLoss_Silent(s) ==
  /\ ServerEnds(s)
  /\ UNCHANGED vars

\* A read or a write on connection s fails, or what is read is no request: the
\* catch block of handleConnection, which tells the controller if its sender is
\* at the other end.
ServerNoticesLoss(s) ==
  /\ ServerEnds(s)
  /\ IF session_status = "kWorking" /\ sender = s
     THEN NotifySenderLost(s)
     ELSE UNCHANGED vars

ServerStep(s) == Serve(s) \/ ServerNoticesLoss(s)

\* The user of the receiver.
User == CancelReceive /\ UNCHANGED send_vars

Side(s) == (SenderStep(s) \/ Cancel(s) \/ Break(s)) /\ UNCHANGED vars

\* The system may rest once every sender has finished.
TNext ==
  \/ \E s \in Sender : Side(s) \/ ServerStep(s)
  \/ User
  \/ AllDone /\ UNCHANGED vars

TSpec == TInit /\ [][TNext]_tvars

\* The executors of both sides run every coroutine that is ready, the timers
\* expire, and the server notices within 30 s that a connection is down.  The
\* client has no timer once it is connected at the level of TCP (expires_never):
\* a handshake or a read of its may take for ever when nothing is left at the
\* other end, so that only a sender whose receiver is there has to go on.
\* Nobody has to cancel or to answer, and the network need not fail.
Connected(s) == conn[s] \in {"up", "astray", "half"}

TFairSpec ==
  TSpec /\ \A s \in Sender :
             /\ WF_tvars(Connected(s) /\ SenderStep(s) /\ UNCHANGED vars)
             /\ WF_tvars(ServerStep(s))

-----------------------------------------------------------------------------
\* Properties.

\* What the users at both ends see: see FileTransfer.  A sender's session is the
\* one that was opened for its files, and its verdict counts once Start is over.
Fate(s) ==
  LET opened == {n \in DOMAIN accepted : Head(FilesOf[s]) \in accepted[n]}
  IN IF opened = {} THEN "none" ELSE outcome[CHOOSE n \in opened : TRUE]

Completed(s) == {feedback \in reported[s] : feedback.type = "FileSendingCompleted"}

Users == INSTANCE FileTransfer WITH
  fate    <- [s \in Sender |-> Fate(s)],
  shown   <- [s \in Sender |-> {feedback.file : feedback \in Completed(s)}],
  verdict <- [s \in Sender |-> IF pc[s] = "done" THEN send_status[s] ELSE "none"]

\* Coroutines, connections that break and cancels from both sides implement what
\* the users are promised: one session per sender, files saved in order, none
\* shown as sent that is not saved, and a verdict that agrees with the receiver.
ImplementsTransfer == Users!Spec

\* Both ends of a session agree on how it ended, whatever cancels crossed its
\* last answers: what a sender reports as completed the receiver completed, what
\* it reports as cancelled by the receiver the receiver cancelled, and what it
\* reports as cancelled by itself was neither completed nor left open.
VerdictsAgree ==
  \A s \in Sender :
    pc[s] = "done" /\ send_session_id[s] # 0 =>
      LET how == outcome[send_session_id[s]]
      IN /\ send_status[s] = "kCompleted" => how = "completed"
         /\ send_status[s] = "kCancelledByReceiver" => how = "cancelled_by_receiver"
         /\ send_status[s] = "kCancelledBySender" => how \notin {"completed", "open"}

\* doCleanup stops after the first .part file it removes.  That is enough for
\* senders that send file by file: no temporary file outlives its session.
NoPartOutlivesItsSession ==
  Cardinality(parts) <= 1 /\ (session_id = 0 => parts = {})

\* A session is ended by its own sender's connection, by the user or by the
\* poll of its own coroutine: no request of another sender, early, late or
\* repeated, ends it (onSendChunk and onVerifyIntegrity reset the session in
\* progress whoever they were called by).
OthersCannotEndIt ==
  [][session_status = "kWorking" /\ session_status' = "kIdle" =>
       \A s \in Sender \ {sender} : to_server'[s] = to_server[s]]_tvars

\* Every sender that has connected comes to an end as long as its receiver is
\* there: one that finds it busy is served after the sessions before it, and one
\* whose requests the server has stopped to read gives up.  (A sender whose
\* receiver vanishes silently may wait for ever.)
EverySenderFinishes ==
  \A s \in Sender : Connected(s) ~> pc[s] = "done" \/ conn[s] \in {"down", "gone"}

\* http_server.cc:242: the controller is notified if the sender is lost.  The
\* receiver does not stay busy when its senders are gone.
ReceiverIsFreed == session_status = "kWorking" ~> session_status = "kIdle"
===============================================================================
