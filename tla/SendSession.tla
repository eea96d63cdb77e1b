----------------------------- MODULE SendSession -----------------------------
(***************************************************************************)
(* The sending side of LanSend (src/src/core/network/client/               *)
(* send_session.cc): per sender one SendSession object, whose coroutine    *)
(* Start connects, asks the receiver to accept the files, sends them chunk *)
(* by chunk in the order of their sizes and has each verified, while a     *)
(* second coroutine, cancelSend, may send a request on the same connection *)
(* and overwrite the session status under it.                              *)
(*                                                                         *)
(* A coroutine runs without interruption from one answer to the next       *)
(* request it sends, so each action below handles one answer and begins    *)
(* the next request.  SendRequest suspends twice, for its write and for    *)
(* its read.  Records of the ssl stream are written one at a time, and     *)
(* pending reads are served in the order they were started: a request of   *)
(* one record is written and read for in the order of the records, which   *)
(* makes it one step.  A request of several records is not: cancelSend may *)
(* put its own record between two of them and start its read first.        *)
(*                                                                         *)
(* Here the receiver is unconstrained: it gives any request any answer     *)
(* that its handlers can give it.  Transfer puts ReceiveController in its  *)
(* place.                                                                  *)
(***************************************************************************)
EXTENDS LanSend, Sequences

CONSTANTS
  FilesOf,             \* the files of each sender, in increasing size
  LongChunks,          \* files whose chunks take several records
  LongRequests,        \* senders whose list of files takes several records
  CancelWhileWaiting   \* Cancel is called before a session id is known, too

ASSUME SendersOK ==
  /\ FilesOf \in [Sender -> Seq(File) \ {<<>>}]
  /\ LongChunks \subseteq File
  /\ LongRequests \subseteq Sender
  /\ CancelWhileWaiting \in BOOLEAN

VARIABLES
  send_status,      \* session_status_
  pc,               \* what Start waits for
  send_session_id,  \* session_id_, 0 if empty
  tokens,           \* files whose file_token is set
  todo,             \* files still to send, the current one first
  chunk,            \* chunk_idx of the request in flight
  cancel,           \* what cancelSend waits for
  conn,             \* the connection
  writing,          \* how far the request of several records has come
  to_server,        \* requests in flight
  to_client,        \* answers in flight
  readers,          \* coroutines waiting for an answer, in order
  reported          \* feedbacks posted to the user interface

main_vars == <<send_status, pc, send_session_id, tokens, todo, chunk, reported>>
net_vars  == <<conn, writing, to_server, to_client, readers>>
send_vars == <<main_vars, cancel, net_vars>>

SessionStatus == {"kIdle", "kWaiting", "kDeclined", "kSending", "kCompleted",
                  "kFailed", "kCancelledBySender", "kCancelledByReceiver"}
Cancelled     == {"kCancelledBySender", "kCancelledByReceiver"}

\* "up"; "astray" once the server has answered a torn request and is about to
\* read the rest of its bytes as the next one; "half" once the server has closed
\* it, after that or after the answer to a request without keep-alive; "down"
\* when it broke or the client closed it; "gone" when the server has finished
\* with it, too.
ConnStatus == {"none", "up", "astray", "half", "down", "gone"}

\* Nothing is half written; the first records of a request of Start are, and
\* then the request of cancelSend; the request of Start is written, but torn.
Writing == {"no", "part", "both", "torn"}

\* Feedbacks without their payload, and per file where it matters.
Feedbacks == [type : {"NetworkError", "RecipientAccepted", "RecipientDeclined",
                      "SendSessionEnded", "SendFailed", "CancelledByReceiver"}]
             \cup [type : {"FileSendingCompleted"}, file : File]

RequestSend(s)   == [type |-> "request-send", from |-> s]
SendChunk(sid, token, f, i) ==
  [type |-> "send-chunk", sid |-> sid, token |-> token, file |-> f, index |-> i]
VerifyIntegrity(sid, token, f) ==
  [type |-> "verify-integrity", sid |-> sid, token |-> token, file |-> f]
CancelSend(sid)  == [type |-> "cancel-send", sid |-> sid]

KeepAlive(req)   == req.type # "cancel-send"

\* An answer: the request it answers, its status line and text, and the session
\* id and the files with a token that a 200 answer to request-send carries.
Answer(to, code, sid, files) ==
  [to |-> to, code |-> code, sid |-> sid, tokens |-> files]

Error == Answer("none", "error", 0, {})   \* the exception of a failed read

FilesIn(s) == {FilesOf[s][i] : i \in DOMAIN FilesOf[s]}

SendInit ==
  /\ send_status = [s \in Sender |-> "kIdle"]
  /\ pc = [s \in Sender |-> "connect"]
  /\ send_session_id = [s \in Sender |-> 0]
  /\ tokens = [s \in Sender |-> {}]
  /\ todo = FilesOf
  /\ chunk = [s \in Sender |-> 0]
  /\ cancel = [s \in Sender |-> "none"]
  /\ conn = [s \in Sender |-> "none"]
  /\ writing = [s \in Sender |-> "no"]
  /\ to_server = [s \in Sender |-> <<>>]
  /\ to_client = [s \in Sender |-> <<>>]
  /\ readers = [s \in Sender |-> <<>>]
  /\ reported = [s \in Sender |-> {}]

-----------------------------------------------------------------------------
\* Mutants: the request's route is queued for its reader; the last reader is
\* served first.
Issue_QueuesRoute(s, who, req, rest) ==
  /\ readers' = [readers EXCEPT ![s] = Append(rest, req.type)]
  /\ to_server' = [to_server EXCEPT ![s] =
                     IF conn[s] = "up" THEN Append(@, req) ELSE @]

Issue_JumpsQueue(s, who, req, rest) ==
  /\ readers' = [readers EXCEPT ![s] = <<who>> \o rest]
  /\ to_server' = [to_server EXCEPT ![s] =
                     IF conn[s] = "up" THEN Append(@, req) ELSE @]

\* The write of HttpsClient::SendRequest ends for the coroutine who, and its read
\* starts.  rest is what is left of readers[s].  On a connection that is not up
\* the request goes nowhere and the read fails, or the write does.
Issue(s, who, req, rest) ==
  /\ readers' = [readers EXCEPT ![s] = Append(rest, who)]
  /\ to_server' = [to_server EXCEPT ![s] =
                     IF conn[s] = "up" THEN Append(@, req) ELSE @]

\* The request takes several records.  A list of files that does matters only
\* when a cancel can come before its answer.
Long(s, req) ==
  \/ req.type = "send-chunk" /\ req.file \in LongChunks
  \/ req.type = "request-send" /\ s \in LongRequests /\ CancelWhileWaiting

\* Start calls SendRequest.
Begin(s, req, rest) ==
  \/ /\ ~Long(s, req)
     /\ Issue(s, "start", req, rest)
     /\ UNCHANGED writing
  \/ /\ Long(s, req)
     /\ writing' = [writing EXCEPT ![s] = "part"]
     /\ readers' = [readers EXCEPT ![s] = rest]
     /\ UNCHANGED to_server

\* HttpsClient::Disconnect, or the end of the client: the server still has to
\* notice, unless it has closed the connection itself.
Disconnect(c) ==
  CASE c \in {"up", "astray"} -> "down" [] c = "half" -> "gone" [] OTHER -> c

\* Start returns: the SendSession and its connection are destroyed, and a
\* cancelSend that still waits is resumed with an error.
Finish(s, status, feedbacks) ==
  /\ send_status' = [send_status EXCEPT ![s] = status]
  /\ reported' = [reported EXCEPT ![s] = @ \cup feedbacks]
  /\ pc' = [pc EXCEPT ![s] = "done"]
  /\ cancel' = [cancel EXCEPT ![s] = IF @ = "none" THEN @ ELSE "done"]
  /\ readers' = [readers EXCEPT ![s] = <<>>]
  /\ conn' = [conn EXCEPT ![s] = Disconnect(@)]
  /\ UNCHANGED <<chunk, writing, to_server>>

Token(f, sid, with) == IF f \in with THEN sid ELSE 0

\* sendFile from chunk i of file f on: the next chunk, or verify-integrity
\* after the last one, or before it when the file has shrunk meanwhile.
Continue(s, f, i, sid, with, rest) ==
  /\ chunk' = [chunk EXCEPT ![s] = i]
  /\ \/ /\ i < TotalChunks[f]
        /\ pc' = [pc EXCEPT ![s] = "chunk"]
        /\ Begin(s, SendChunk(sid, Token(f, sid, with), f, i), rest)
     \/ /\ pc' = [pc EXCEPT ![s] = "verify"]
        /\ Begin(s, VerifyIntegrity(sid, Token(f, sid, with), f), rest)

\* The next file is opened, which may throw.  feedbacks are those that precede.
StartFile(s, f, sid, with, rest, feedbacks) ==
  \/ /\ send_status' = [send_status EXCEPT ![s] = "kSending"]
     /\ reported' = [reported EXCEPT ![s] = @ \cup feedbacks]
     /\ Continue(s, f, 0, sid, with, rest)
     /\ UNCHANGED <<cancel, conn>>
  \/ Finish(s, "kFailed", feedbacks \cup {[type |-> "SendFailed"]})

\* What Start does once its loop around requestSend ends, whatever ended it:
\* all the files are sent as accepted, those without a token included.
Accepted(s, sid, with, rest) ==
  /\ StartFile(s, Head(todo[s]), sid, with, rest, {[type |-> "RecipientAccepted"]})
  /\ UNCHANGED todo

\* What can reach a reader next.
Incoming(s) ==
  {Error} \cup {to_client[s][i] : i \in DOMAIN to_client[s]}

\* The coroutine that started to read first gets the next answer, or the
\* exception of a connection that has no more.
Resume(s, who, ans) ==
  /\ readers[s] # <<>>
  /\ Head(readers[s]) = who
  /\ IF to_client[s] # <<>>
     THEN /\ ans = Head(to_client[s])
          /\ to_client' = [to_client EXCEPT ![s] = Tail(@)]
     ELSE /\ conn[s] \in {"half", "down", "gone"}
          /\ ans = Error
          /\ UNCHANGED to_client

-----------------------------------------------------------------------------
\* The coroutine Start.

\* HttpsClient::Connect, when it succeeds.
ClientConnects(s) == conn' = [conn EXCEPT ![s] = "up"]

Connect(s) ==
  /\ pc[s] = "connect"
  /\ UNCHANGED <<send_session_id, tokens, todo, to_client>>
  /\ \/ /\ ClientConnects(s)
        /\ send_status' = [send_status EXCEPT ![s] = "kWaiting"]
        /\ pc' = [pc EXCEPT ![s] = "request"]
        /\ IF Long(s, RequestSend(s))
           THEN /\ writing' = [writing EXCEPT ![s] = "part"]
                /\ UNCHANGED <<to_server, readers>>
           ELSE /\ to_server' = [to_server EXCEPT ![s] = <<RequestSend(s)>>]
                /\ readers' = [readers EXCEPT ![s] = <<"start">>]
                /\ UNCHANGED writing
        /\ UNCHANGED <<chunk, cancel, reported>>
     \/ Finish(s, "kFailed", {[type |-> "NetworkError"]})

Decline(s) == Finish(s, "kDeclined", {[type |-> "RecipientDeclined"]})

\* requestSend returns.  An exception or an error answer makes the status
\* kFailed, which Start reports as a refusal like any other.
RequestAnswer(s, ans) ==
  /\ pc[s] = "request"
  /\ Resume(s, "start", ans)
  /\ \/ /\ ans # Error
        /\ send_status[s] = "kCancelledBySender"
        /\ Finish(s, "kCancelledBySender", {})
        /\ UNCHANGED <<send_session_id, tokens, todo>>
     \/ /\ ans = Error \/ send_status[s] # "kCancelledBySender"
        /\ \/ ans.code \in {"error", "400", "500", "403 declined"}
           \/ ans.code = "200" /\ ans.tokens = {}   \* nothing is wanted
        /\ Decline(s)
        /\ UNCHANGED <<send_session_id, tokens, todo>>
     \/ /\ send_status[s] # "kCancelledBySender"
        /\ ans.code \in {"403 receiver busy", "403 sender cancelled"}
        /\ pc' = [pc EXCEPT ![s] = "retry"]
        /\ readers' = [readers EXCEPT ![s] = Tail(@)]
        /\ UNCHANGED <<send_status, send_session_id, tokens, todo, chunk,
                       reported, cancel, conn, writing, to_server>>
     \/ /\ send_status[s] # "kCancelledBySender"
        /\ ans.code = "200" /\ ans.tokens # {}
        /\ send_session_id' = [send_session_id EXCEPT ![s] = ans.sid]
        /\ tokens' = [tokens EXCEPT ![s] = ans.tokens]
        /\ Accepted(s, ans.sid, ans.tokens, Tail(readers[s]))

\* The timer of one second expires, and the loop goes round as long as the
\* status is kWaiting.
RetryTimer(s) ==
  /\ pc[s] = "retry"
  /\ UNCHANGED <<send_session_id, tokens, to_client>>
  /\ IF send_status[s] = "kWaiting"
     THEN /\ pc' = [pc EXCEPT ![s] = "request"]
          /\ Begin(s, RequestSend(s), readers[s])
          /\ UNCHANGED <<send_status, todo, chunk, reported, cancel, conn>>
     ELSE Accepted(s, send_session_id[s], tokens[s], readers[s])

\* Mutant: the status is not looked at after the co_await.
EndingAnswer_StatusIgnored(s, ans) ==
  /\ UNCHANGED todo
  /\ \/ /\ ans.code = "403 receiver cancelled"
        /\ Finish(s, "kCancelledByReceiver", {[type |-> "CancelledByReceiver"]})
     \/ /\ ans.code \notin {"200", "403 receiver cancelled"}
        /\ Finish(s, "kFailed", {[type |-> "SendFailed"]})

\* Mutant: the file is reported as sent before the answer is looked at.
EndingAnswer_ReportsFirst(s, ans) ==
  /\ UNCHANGED todo
  /\ \/ /\ send_status[s] = "kCancelledBySender"
        /\ Finish(s, "kCancelledBySender", {})
     \/ /\ send_status[s] # "kCancelledBySender"
        /\ ans.code # "200"
        /\ Finish(s, "kFailed",
                  {[type |-> "FileSendingCompleted", file |-> Head(todo[s])],
                   [type |-> "SendFailed"]})

\* What sendChunk and verifyIntegrity share: an answer that ends the session.
EndingAnswer(s, ans) ==
  /\ UNCHANGED todo
  /\ \/ /\ send_status[s] = "kCancelledBySender"
        /\ Finish(s, "kCancelledBySender", {})
     \/ /\ send_status[s] # "kCancelledBySender"
        /\ ans.code = "403 receiver cancelled"
        /\ Finish(s, "kCancelledByReceiver", {[type |-> "CancelledByReceiver"]})
     \/ /\ send_status[s] # "kCancelledBySender"
        /\ ans.code \notin {"200", "403 receiver cancelled"}
        /\ Finish(s, "kFailed", {[type |-> "SendFailed"]})

ChunkAnswer(s, ans) ==
  /\ pc[s] = "chunk"
  /\ Resume(s, "start", ans)
  /\ UNCHANGED <<send_session_id, tokens>>
  /\ \/ EndingAnswer(s, ans)
     \/ /\ send_status[s] # "kCancelledBySender"
        /\ ans.code = "200"
        /\ Continue(s, Head(todo[s]), chunk[s] + 1, send_session_id[s],
                    tokens[s], Tail(readers[s]))
        /\ UNCHANGED <<send_status, todo, reported, cancel, conn>>

VerifyAnswer(s, ans) ==
  /\ pc[s] = "verify"
  /\ Resume(s, "start", ans)
  /\ UNCHANGED <<send_session_id, tokens>>
  /\ LET completed == [type |-> "FileSendingCompleted", file |-> Head(todo[s])]
     IN \/ EndingAnswer(s, ans)
        \/ /\ send_status[s] # "kCancelledBySender"
           /\ ans.code = "200"
           /\ Tail(todo[s]) # <<>>
           /\ todo' = [todo EXCEPT ![s] = Tail(@)]
           /\ StartFile(s, Head(Tail(todo[s])), send_session_id[s], tokens[s],
                        Tail(readers[s]), {completed})
        \/ /\ send_status[s] # "kCancelledBySender"
           /\ ans.code = "200"
           /\ Tail(todo[s]) = <<>>
           /\ todo' = [todo EXCEPT ![s] = <<>>]
           /\ Finish(s, "kCompleted", {completed, [type |-> "SendSessionEnded"]})

\* The request that Start is writing.
Current(s) ==
  IF pc[s] = "request" THEN RequestSend(s)
  ELSE LET f == Head(todo[s]) sid == send_session_id[s]
       IN SendChunk(sid, Token(f, sid, tokens[s]), f, chunk[s])

\* The last record of a request is written.
WriteEnds(s) ==
  /\ pc[s] \in {"request", "chunk"}
  /\ writing[s] \in {"part", "both"}
  /\ Issue(s, "start", Current(s), readers[s])
  /\ writing' = [writing EXCEPT ![s] = IF @ = "both" THEN "torn" ELSE "no"]
  /\ UNCHANGED <<main_vars, cancel, conn, to_client>>

-----------------------------------------------------------------------------
\* The coroutine cancelSend.

\* Its request is one record.  Among the records of a request of Start it is
\* never read as a request: it tears that one.
Cancel(s) ==
  /\ cancel[s] = "none"
  /\ pc[s] \in {"request", "retry", "chunk", "verify"}
  /\ send_session_id[s] # 0 \/ CancelWhileWaiting
  /\ cancel' = [cancel EXCEPT ![s] = "await"]
  /\ IF writing[s] = "part"
     THEN /\ writing' = [writing EXCEPT ![s] = "both"]
          /\ readers' = [readers EXCEPT ![s] = Append(@, "cancel")]
          /\ UNCHANGED to_server
     ELSE /\ Issue(s, "cancel", CancelSend(send_session_id[s]), readers[s])
          /\ UNCHANGED writing
  /\ UNCHANGED <<main_vars, conn, to_client>>

\* Mutant: the result of the cancel request is not looked at.
CancelAnswer_AnyAnswer(s, ans) ==
  /\ cancel[s] = "await"
  /\ Resume(s, "cancel", ans)
  /\ cancel' = [cancel EXCEPT ![s] = "done"]
  /\ readers' = [readers EXCEPT ![s] = Tail(@)]
  /\ send_status' = [send_status EXCEPT ![s] = "kCancelledBySender"]
  /\ UNCHANGED <<pc, send_session_id, tokens, todo, chunk, reported, conn,
                 writing, to_server>>

CancelAnswer(s, ans) ==
  /\ cancel[s] = "await"
  /\ Resume(s, "cancel", ans)
  /\ cancel' = [cancel EXCEPT ![s] = "done"]
  /\ readers' = [readers EXCEPT ![s] = Tail(@)]
  /\ send_status' = [send_status EXCEPT ![s] =
                       IF ans.code = "200" THEN "kCancelledBySender" ELSE @]
  /\ UNCHANGED <<pc, send_session_id, tokens, todo, chunk, reported, conn,
                 writing, to_server>>

\* The network fails; what was in flight arrives or is lost.
Break(s) ==
  /\ conn[s] \in {"up", "astray", "half"}
  /\ conn' = [conn EXCEPT ![s] = Disconnect(@)]
  /\ \E requests_arrive, answers_arrive \in BOOLEAN :
       /\ to_server' = [to_server EXCEPT ![s] =
                          IF requests_arrive THEN @ ELSE <<>>]
       /\ to_client' = [to_client EXCEPT ![s] =
                          IF answers_arrive THEN @ ELSE <<>>]
  /\ UNCHANGED <<main_vars, cancel, writing, readers>>

-----------------------------------------------------------------------------
\* The receiver's end of the connection.

Codes(req) ==
  IF req.type = "request-send"
  THEN {"200", "500", "403 receiver busy", "403 declined",
        "403 sender cancelled"}
  ELSE IF req.type = "cancel-send" THEN {"200", "500"}
  ELSE {"200", "500", "403 sender cancelled", "403 receiver cancelled"}

\* The record of a cancel took the place of data in the body of a torn request,
\* which does not parse or does not match its checksum.
TornCodes == {"400", "500", "403 sender cancelled", "403 receiver cancelled"}

\* handleConnection writes the answer to the request at the head and closes the
\* connection after a request without keep-alive; what follows it is not read.
\* What follows a torn request is the end of its own bytes.
Reply(s, ans) ==
  LET req == Head(to_server[s])
  IN /\ to_client' = [to_client EXCEPT ![s] = Append(@, ans)]
     /\ UNCHANGED writing
     /\ IF writing[s] = "torn"
        THEN /\ to_server' = [to_server EXCEPT ![s] = <<>>]
             /\ conn' = [conn EXCEPT ![s] = "astray"]
        ELSE IF KeepAlive(req)
        THEN /\ to_server' = [to_server EXCEPT ![s] = Tail(@)]
             /\ UNCHANGED conn
        ELSE /\ to_server' = [to_server EXCEPT ![s] = <<>>]
             /\ conn' = [conn EXCEPT ![s] = "half"]

\* Any receiver: it accepts some of the files, none included.
ServerAnswers(s) ==
  /\ conn[s] = "up"
  /\ to_server[s] # <<>>
  /\ LET req == Head(to_server[s])
     IN \E code \in IF writing[s] = "torn" THEN TornCodes ELSE Codes(req) :
          IF req.type = "request-send" /\ code = "200"
          THEN \E sid \in 1 .. MaxRequests, files \in SUBSET FilesIn(s) :
                 Reply(s, Answer(req.type, code, sid, files))
          ELSE Reply(s, Answer(req.type, code, 0, {}))
  /\ UNCHANGED <<main_vars, cancel, readers>>

\* The next request cannot be parsed, and handleConnection ends.
ServerCloses(s) ==
  /\ conn[s] = "astray"
  /\ conn' = [conn EXCEPT ![s] = "half"]
  /\ UNCHANGED <<main_vars, cancel, writing, to_server, to_client, readers>>

-----------------------------------------------------------------------------
SenderStep(s) ==
  \/ Connect(s)
  \/ RetryTimer(s)
  \/ WriteEnds(s)
  \/ \E ans \in Incoming(s) :
       \/ RequestAnswer(s, ans)
       \/ ChunkAnswer(s, ans)
       \/ VerifyAnswer(s, ans)
       \/ CancelAnswer(s, ans)

SendNext ==
  \E s \in Sender : \/ SenderStep(s) \/ Cancel(s) \/ Break(s)
                     \/ ServerAnswers(s) \/ ServerCloses(s)

\* The system stops when every sender has finished.
AllDone == (\A s \in Sender : pc[s] = "done") /\ UNCHANGED send_vars

SendSpec == SendInit /\ [][SendNext \/ AllDone]_send_vars

-----------------------------------------------------------------------------
\* Properties.

Request ==
  [type : {"request-send"}, from : Sender]
  \cup [type : {"send-chunk"}, sid : 0 .. MaxRequests, token : 0 .. MaxRequests,
        file : File, index : Nat]
  \cup [type : {"verify-integrity"}, sid : 0 .. MaxRequests,
        token : 0 .. MaxRequests, file : File]
  \cup [type : {"cancel-send"}, sid : 0 .. MaxRequests]

Response ==
  [to : {"request-send", "send-chunk", "verify-integrity", "cancel-send"},
   code : {"200", "400", "500", "403 receiver busy", "403 declined",
           "403 sender cancelled", "403 receiver cancelled"},
   sid : 0 .. MaxRequests, tokens : SUBSET File]

\* The type invariant.
SendTypeOK ==
  /\ send_status \in [Sender -> SessionStatus]
  /\ pc \in [Sender -> {"connect", "request", "retry", "chunk", "verify", "done"}]
  /\ send_session_id \in [Sender -> 0 .. MaxRequests]
  /\ tokens \in [Sender -> SUBSET File]
  /\ todo \in [Sender -> Seq(File)]
  /\ chunk \in [Sender -> Nat]
  /\ cancel \in [Sender -> {"none", "await", "done"}]
  /\ conn \in [Sender -> ConnStatus]
  /\ writing \in [Sender -> Writing]
  /\ to_server \in [Sender -> Seq(Request)]
  /\ to_client \in [Sender -> Seq(Response)]
  /\ readers \in [Sender -> Seq({"start", "cancel"})]
  /\ reported \in [Sender -> SUBSET Feedbacks]

\* Start and cancelSend read from one connection.  Each gets the answer to the
\* request it sent, with one exception: the refusal of a request that a cancel
\* has torn goes to cancelSend, whose read was started first.  So neither takes
\* for its own an agreement that the other was given, and no read is left
\* without an answer to come while the connection is up (SendRequest, used by
\* two coroutines at once).
AnswersReachTheirReader ==
  \A s \in Sender :
    /\ conn[s] = "up" /\ writing[s] \notin {"both", "torn"} =>
         Len(readers[s]) = Len(to_client[s]) + Len(to_server[s])
    /\ \A i \in DOMAIN readers[s] \cap DOMAIN to_client[s] :
         to_client[s][i].code = "200" \/ writing[s] \notin {"both", "torn"} =>
           (readers[s][i] = "cancel" <=> to_client[s][i].to = "cancel-send")

\* A cancel the receiver has confirmed decides how the session ends: neither
\* the answer Start was waiting for nor the loss of the connection that the
\* cancel itself causes turns it into another status (sendChunk,
\* verifyIntegrity and requestSend look at the status after their co_await).
CancelDecides ==
  [][\A s \in Sender :
       send_status[s] = "kCancelledBySender" => send_status'[s] = send_status[s]]_send_vars
=============================================================================
