---------------------------- MODULE Transfer_proof ----------------------------
(***************************************************************************)
(* Machine-checked proofs about whole transfers, for any senders, files,   *)
(* chunks and number of requests, wherever connections break and whenever  *)
(* either user cancels: both ends agree on how a session ended, no request *)
(* of another sender ends it, no temporary file outlives it, and together  *)
(* they implement what FileTransfer promises to the users; the receiver    *)
(* among them is a ReceiveController.  Before that, about a sender with    *)
(* any receiver: its types, which of its coroutines gets an answer, and    *)
(* that a confirmed cancel is final.                                       *)
(***************************************************************************)
EXTENDS Transfer, ReceiveController_proof, SequenceTheorems

-----------------------------------------------------------------------------
\* A sender, with any receiver: the specification is SendSpec.

Reader == {"start", "cancel"}

\* Start has a current file until it returns.
HasFile == \A s \in Sender : pc[s] # "done" => todo[s] # <<>>

TypeInv == SendTypeOK /\ HasFile

LEMMA TypeInit == SendInit => TypeInv
<1> SUFFICES ASSUME SendInit PROVE TypeInv
  OBVIOUS
<1>1. /\ todo \in [Sender -> Seq(File)]
      /\ \A s \in Sender : todo[s] # <<>>
  BY SendersOK DEF SendInit
<1>2. /\ send_status \in [Sender -> SessionStatus]
      /\ pc \in [Sender -> {"connect", "request", "retry", "chunk", "verify", "done"}]
      /\ send_session_id \in [Sender -> 0 .. MaxRequests]
      /\ tokens \in [Sender -> SUBSET File]
      /\ chunk \in [Sender -> Nat]
      /\ cancel \in [Sender -> {"none", "await", "done"}]
      /\ conn \in [Sender -> ConnStatus]
      /\ writing \in [Sender -> Writing]
  BY ChunksOK DEF SendInit, SessionStatus, ConnStatus, Writing
<1>3. /\ to_server \in [Sender -> Seq(Request)]
      /\ to_client \in [Sender -> Seq(Response)]
      /\ readers \in [Sender -> Seq({"start", "cancel"})]
      /\ reported \in [Sender -> SUBSET Feedbacks]
  BY DEF SendInit
<1> QED BY <1>1, <1>2, <1>3 DEF TypeInv, SendTypeOK, HasFile

-----------------------------------------------------------------------------
\* What the operations make of the variables they write.

LEMMA RequestTypes ==
  ASSUME NEW sid \in 0 .. MaxRequests, NEW token \in 0 .. MaxRequests,
         NEW f \in File, NEW i \in Nat, NEW s \in Sender
  PROVE  /\ RequestSend(s) \in Request
         /\ SendChunk(sid, token, f, i) \in Request
         /\ VerifyIntegrity(sid, token, f) \in Request
         /\ CancelSend(sid) \in Request
BY DEF Request, RequestSend, SendChunk, VerifyIntegrity, CancelSend

LEMMA IssueTypes ==
  ASSUME SendTypeOK, NEW s \in Sender, NEW who \in Reader, NEW req \in Request,
         NEW rest \in Seq(Reader), Issue(s, who, req, rest)
  PROVE  /\ readers' \in [Sender -> Seq(Reader)]
         /\ to_server' \in [Sender -> Seq(Request)]
BY DEF SendTypeOK, Issue, Reader

LEMMA BeginTypes ==
  ASSUME SendTypeOK, NEW s \in Sender, NEW req \in Request, NEW rest \in Seq(Reader),
         Begin(s, req, rest)
  PROVE  /\ readers' \in [Sender -> Seq(Reader)]
         /\ to_server' \in [Sender -> Seq(Request)]
         /\ writing' \in [Sender -> Writing]
<1>1. "start" \in Reader /\ "part" \in Writing
  BY DEF Reader, Writing
<1>2. CASE Issue(s, "start", req, rest) /\ UNCHANGED writing
  <2>1. /\ readers' \in [Sender -> Seq(Reader)]
        /\ to_server' \in [Sender -> Seq(Request)]
    BY <1>1, <1>2, IssueTypes
  <2> QED BY <1>2, <2>1 DEF SendTypeOK
<1>3. CASE /\ writing' = [writing EXCEPT ![s] = "part"]
           /\ readers' = [readers EXCEPT ![s] = rest]
           /\ UNCHANGED to_server
  BY <1>1, <1>3 DEF SendTypeOK, Reader
<1> QED BY <1>2, <1>3 DEF Begin

LEMMA FinishTypes ==
  ASSUME SendTypeOK, NEW s \in Sender, NEW status \in SessionStatus,
         NEW feedbacks \in SUBSET Feedbacks, Finish(s, status, feedbacks)
  PROVE  /\ send_status' \in [Sender -> SessionStatus]
         /\ reported' \in [Sender -> SUBSET Feedbacks]
         /\ pc' \in [Sender -> {"connect", "request", "retry", "chunk", "verify", "done"}]
         /\ pc'[s] = "done" /\ \A t \in Sender \ {s} : pc'[t] = pc[t]
         /\ cancel' \in [Sender -> {"none", "await", "done"}]
         /\ readers' \in [Sender -> Seq(Reader)]
         /\ conn' \in [Sender -> ConnStatus]
         /\ chunk' \in [Sender -> Nat]
         /\ to_server' \in [Sender -> Seq(Request)]
         /\ writing' \in [Sender -> Writing]
BY DEF SendTypeOK, Finish, Reader, Disconnect, ConnStatus

LEMMA ContinueTypes ==
  ASSUME SendTypeOK, NEW s \in Sender, NEW f \in File, NEW i \in Nat,
         NEW sid \in 0 .. MaxRequests, NEW with, NEW rest \in Seq(Reader),
         Continue(s, f, i, sid, with, rest)
  PROVE  /\ chunk' \in [Sender -> Nat]
         /\ pc' \in [Sender -> {"connect", "request", "retry", "chunk", "verify", "done"}]
         /\ \A t \in Sender \ {s} : pc'[t] = pc[t]
         /\ readers' \in [Sender -> Seq(Reader)]
         /\ to_server' \in [Sender -> Seq(Request)]
         /\ writing' \in [Sender -> Writing]
<1>1. Token(f, sid, with) \in 0 .. MaxRequests
  BY ChunksOK DEF Token
<1>2. /\ SendChunk(sid, Token(f, sid, with), f, i) \in Request
      /\ VerifyIntegrity(sid, Token(f, sid, with), f) \in Request
  BY <1>1, RequestTypes
<1>3. /\ readers' \in [Sender -> Seq(Reader)]
      /\ to_server' \in [Sender -> Seq(Request)]
      /\ writing' \in [Sender -> Writing]
  BY <1>2, BeginTypes DEF Continue
<1> QED BY <1>3 DEF Continue, SendTypeOK

LEMMA StartFileTypes ==
  ASSUME SendTypeOK, NEW s \in Sender, NEW f \in File,
         NEW sid \in 0 .. MaxRequests, NEW with, NEW rest \in Seq(Reader),
         NEW feedbacks \in SUBSET Feedbacks,
         StartFile(s, f, sid, with, rest, feedbacks)
  PROVE  /\ send_status' \in [Sender -> SessionStatus]
         /\ reported' \in [Sender -> SUBSET Feedbacks]
         /\ pc' \in [Sender -> {"connect", "request", "retry", "chunk", "verify", "done"}]
         /\ \A t \in Sender \ {s} : pc'[t] = pc[t]
         /\ cancel' \in [Sender -> {"none", "await", "done"}]
         /\ readers' \in [Sender -> Seq(Reader)]
         /\ conn' \in [Sender -> ConnStatus]
         /\ chunk' \in [Sender -> Nat]
         /\ to_server' \in [Sender -> Seq(Request)]
         /\ writing' \in [Sender -> Writing]
<1>1. CASE /\ send_status' = [send_status EXCEPT ![s] = "kSending"]
           /\ reported' = [reported EXCEPT ![s] = @ \cup feedbacks]
           /\ Continue(s, f, 0, sid, with, rest)
           /\ UNCHANGED <<cancel, conn>>
  <2>1. "kSending" \in SessionStatus /\ 0 \in Nat
    BY DEF SessionStatus
  <2> QED BY <1>1, <2>1, ContinueTypes DEF SendTypeOK
<1>2. CASE Finish(s, "kFailed", feedbacks \cup {[type |-> "SendFailed"]})
  <2>1. /\ "kFailed" \in SessionStatus
        /\ feedbacks \cup {[type |-> "SendFailed"]} \in SUBSET Feedbacks
    BY DEF SessionStatus, Feedbacks
  <2> QED BY <1>2, <2>1, FinishTypes
<1> QED BY <1>1, <1>2 DEF StartFile

LEMMA ResumeTypes ==
  ASSUME SendTypeOK, NEW s \in Sender, NEW who, NEW ans, Resume(s, who, ans)
  PROVE  /\ readers[s] # <<>> /\ Tail(readers[s]) \in Seq(Reader)
         /\ to_client' \in [Sender -> Seq(Response)]
         /\ ans.sid \in 0 .. MaxRequests
         /\ ans.tokens \in SUBSET File
<1>1. readers[s] \in Seq(Reader) /\ to_client[s] \in Seq(Response)
  BY DEF SendTypeOK, Reader
<1>2. readers[s] # <<>> /\ Tail(readers[s]) \in Seq(Reader)
  BY <1>1 DEF Resume
<1>3. CASE to_client[s] # <<>>
  <2>1. ans = Head(to_client[s]) /\ to_client' = [to_client EXCEPT ![s] = Tail(@)]
    BY <1>3 DEF Resume
  <2>2. ans \in Response /\ Tail(to_client[s]) \in Seq(Response)
    BY <1>1, <1>3, <2>1
  <2> QED BY <1>2, <2>1, <2>2 DEF Response, SendTypeOK
<1>4. CASE to_client[s] = <<>>
  BY <1>2, <1>4, ChunksOK DEF Resume, Error, Answer, SendTypeOK
<1> QED BY <1>3, <1>4

-----------------------------------------------------------------------------
\* Types, one action at a time.

CurrentFile(s) == Head(todo[s])

LEMMA CurrentFileType ==
  ASSUME TypeInv, NEW s \in Sender, pc[s] # "done"
  PROVE  todo[s] \in Seq(File) /\ CurrentFile(s) \in File
BY DEF TypeInv, SendTypeOK, HasFile, CurrentFile

LEMMA ConnectTypes ==
  ASSUME TypeInv, NEW s \in Sender, Connect(s)
  PROVE  TypeInv'
<1>1. CASE /\ ClientConnects(s)
           /\ send_status' = [send_status EXCEPT ![s] = "kWaiting"]
           /\ pc' = [pc EXCEPT ![s] = "request"]
           /\ \/ /\ to_server' = [to_server EXCEPT ![s] = <<RequestSend(s)>>]
                 /\ readers' = [readers EXCEPT ![s] = <<"start">>]
                 /\ UNCHANGED writing
              \/ /\ writing' = [writing EXCEPT ![s] = "part"]
                 /\ UNCHANGED <<to_server, readers>>
           /\ UNCHANGED <<chunk, cancel, reported>>
  <2>1. UNCHANGED <<send_session_id, tokens, todo, to_client>> /\ pc[s] = "connect"
    BY DEF Connect
  <2>2. RequestSend(s) \in Request
    BY DEF Request, RequestSend
  <2>3. /\ <<RequestSend(s)>> \in Seq(Request) /\ <<"start">> \in Seq({"start", "cancel"})
        /\ "kWaiting" \in SessionStatus /\ "up" \in ConnStatus /\ "part" \in Writing
    BY <2>2 DEF SessionStatus, ConnStatus, Writing
  <2>4. /\ to_server' \in [Sender -> Seq(Request)]
        /\ readers' \in [Sender -> Seq({"start", "cancel"})]
        /\ writing' \in [Sender -> Writing]
    BY <1>1, <2>3 DEF TypeInv, SendTypeOK
  <2> QED BY <1>1, <2>1, <2>3, <2>4 DEF TypeInv, SendTypeOK, HasFile, ClientConnects
<1>2. CASE Finish(s, "kFailed", {[type |-> "NetworkError"]})
  <2>1. "kFailed" \in SessionStatus /\ {[type |-> "NetworkError"]} \in SUBSET Feedbacks
    BY DEF SessionStatus, Feedbacks
  <2> QED BY <1>2, <2>1, FinishTypes DEF Connect, TypeInv, SendTypeOK, HasFile, Reader
<1> QED BY <1>1, <1>2 DEF Connect

LEMMA FinishKeeps ==
  ASSUME TypeInv, NEW s \in Sender, NEW status \in SessionStatus,
         NEW feedbacks \in SUBSET Feedbacks, Finish(s, status, feedbacks),
         send_session_id' \in [Sender -> 0 .. MaxRequests],
         tokens' \in [Sender -> SUBSET File],
         todo' \in [Sender -> Seq(File)],
         \A t \in Sender \ {s} : todo'[t] = todo[t],
         to_client' \in [Sender -> Seq(Response)]
  PROVE  TypeInv'
BY FinishTypes DEF TypeInv, SendTypeOK, HasFile, Reader

LEMMA StartFileKeeps ==
  ASSUME TypeInv, NEW s \in Sender, NEW f \in File,
         NEW sid \in 0 .. MaxRequests, NEW with, NEW rest \in Seq(Reader),
         NEW feedbacks \in SUBSET Feedbacks,
         StartFile(s, f, sid, with, rest, feedbacks),
         send_session_id' \in [Sender -> 0 .. MaxRequests],
         tokens' \in [Sender -> SUBSET File],
         todo' \in [Sender -> Seq(File)], todo'[s] # <<>>,
         \A t \in Sender \ {s} : todo'[t] = todo[t],
         to_client' \in [Sender -> Seq(Response)]
  PROVE  TypeInv'
BY StartFileTypes DEF TypeInv, SendTypeOK, HasFile, Reader

LEMMA FeedbackTypes ==
  /\ {} \in SUBSET Feedbacks
  /\ \A t \in {"NetworkError", "RecipientAccepted", "RecipientDeclined",
               "SendSessionEnded", "SendFailed", "CancelledByReceiver"} :
       {[type |-> t]} \in SUBSET Feedbacks
  /\ \A f \in File :
       LET completed == [type |-> "FileSendingCompleted", file |-> f]
       IN /\ {completed} \in SUBSET Feedbacks
          /\ {completed, [type |-> "SendSessionEnded"]} \in SUBSET Feedbacks
BY DEF Feedbacks

LEMMA AcceptedTypes ==
  ASSUME TypeInv, NEW s \in Sender, pc[s] # "done",
         NEW sid \in 0 .. MaxRequests, NEW with, NEW rest \in Seq(Reader),
         Accepted(s, sid, with, rest),
         send_session_id' \in [Sender -> 0 .. MaxRequests],
         tokens' \in [Sender -> SUBSET File],
         to_client' \in [Sender -> Seq(Response)]
  PROVE  TypeInv'
<1>1. /\ StartFile(s, CurrentFile(s), sid, with, rest, {[type |-> "RecipientAccepted"]})
      /\ UNCHANGED todo
  BY DEF Accepted, CurrentFile
<1>2. CurrentFile(s) \in File /\ {[type |-> "RecipientAccepted"]} \in SUBSET Feedbacks
  BY CurrentFileType, FeedbackTypes
<1>3. /\ todo' \in [Sender -> Seq(File)] /\ todo'[s] # <<>>
      /\ \A t \in Sender \ {s} : todo'[t] = todo[t]
  BY <1>1 DEF TypeInv, SendTypeOK, HasFile
<1> QED BY <1>1, <1>2, <1>3, StartFileKeeps

LEMMA RequestAnswerTypes ==
  ASSUME TypeInv, NEW s \in Sender, NEW ans, RequestAnswer(s, ans)
  PROVE  TypeInv'
<1>1. /\ Tail(readers[s]) \in Seq(Reader) /\ to_client' \in [Sender -> Seq(Response)]
      /\ ans.sid \in 0 .. MaxRequests /\ ans.tokens \in SUBSET File
      /\ pc[s] = "request"
  BY ResumeTypes DEF RequestAnswer, TypeInv
<1>2. CASE /\ \/ Finish(s, "kCancelledBySender", {}) \/ Decline(s)
           /\ UNCHANGED <<send_session_id, tokens, todo>>
  <2>1. /\ "kCancelledBySender" \in SessionStatus /\ "kDeclined" \in SessionStatus
        /\ {} \in SUBSET Feedbacks /\ {[type |-> "RecipientDeclined"]} \in SUBSET Feedbacks
    BY FeedbackTypes DEF SessionStatus
  <2>2. /\ send_session_id' \in [Sender -> 0 .. MaxRequests]
        /\ tokens' \in [Sender -> SUBSET File]
        /\ todo' \in [Sender -> Seq(File)]
        /\ \A t \in Sender \ {s} : todo'[t] = todo[t]
    BY <1>2 DEF TypeInv, SendTypeOK
  <2> QED BY <1>1, <1>2, <2>1, <2>2, FinishKeeps DEF Decline
<1>3. CASE /\ pc' = [pc EXCEPT ![s] = "retry"]
           /\ readers' = [readers EXCEPT ![s] = Tail(@)]
           /\ UNCHANGED <<send_status, send_session_id, tokens, todo, chunk,
                          reported, cancel, conn, writing, to_server>>
  BY <1>1, <1>3 DEF TypeInv, SendTypeOK, HasFile, Reader
<1>4. CASE /\ send_session_id' = [send_session_id EXCEPT ![s] = ans.sid]
           /\ tokens' = [tokens EXCEPT ![s] = ans.tokens]
           /\ Accepted(s, ans.sid, ans.tokens, Tail(readers[s]))
  <2>1. /\ send_session_id' \in [Sender -> 0 .. MaxRequests]
        /\ tokens' \in [Sender -> SUBSET File]
    BY <1>1, <1>4 DEF TypeInv, SendTypeOK
  <2> QED BY <1>1, <1>4, <2>1, AcceptedTypes
<1> QED BY <1>2, <1>3, <1>4 DEF RequestAnswer

LEMMA RetryTimerTypes ==
  ASSUME TypeInv, NEW s \in Sender, RetryTimer(s)
  PROVE  TypeInv'
<1>1. /\ readers[s] \in Seq(Reader) /\ pc[s] = "retry"
      /\ send_session_id' \in [Sender -> 0 .. MaxRequests]
      /\ tokens' \in [Sender -> SUBSET File]
      /\ to_client' \in [Sender -> Seq(Response)]
      /\ send_session_id[s] \in 0 .. MaxRequests
  BY DEF RetryTimer, TypeInv, SendTypeOK, Reader
<1>2. CASE send_status[s] = "kWaiting"
  <2>1. RequestSend(s) \in Request
    BY DEF Request, RequestSend
  <2>2. /\ readers' \in [Sender -> Seq(Reader)] /\ to_server' \in [Sender -> Seq(Request)]
        /\ writing' \in [Sender -> Writing]
        /\ pc' = [pc EXCEPT ![s] = "request"]
        /\ UNCHANGED <<send_status, todo, chunk, reported, cancel, conn>>
    BY <1>1, <1>2, <2>1, BeginTypes DEF RetryTimer, TypeInv
  <2> QED BY <1>1, <2>2 DEF TypeInv, SendTypeOK, HasFile, Reader
<1>3. CASE send_status[s] # "kWaiting"
  BY <1>1, <1>3, AcceptedTypes DEF RetryTimer
<1> QED BY <1>2, <1>3

LEMMA EndingAnswerTypes ==
  ASSUME TypeInv, NEW s \in Sender, NEW ans, EndingAnswer(s, ans),
         UNCHANGED <<send_session_id, tokens>>, to_client' \in [Sender -> Seq(Response)]
  PROVE  TypeInv'
<1>1. /\ {"kCancelledBySender", "kCancelledByReceiver", "kFailed"} \subseteq SessionStatus
      /\ {} \in SUBSET Feedbacks /\ {[type |-> "SendFailed"]} \in SUBSET Feedbacks
      /\ {[type |-> "CancelledByReceiver"]} \in SUBSET Feedbacks
  BY FeedbackTypes DEF SessionStatus
<1>2. /\ send_session_id' \in [Sender -> 0 .. MaxRequests]
      /\ tokens' \in [Sender -> SUBSET File]
      /\ todo' \in [Sender -> Seq(File)]
      /\ \A t \in Sender \ {s} : todo'[t] = todo[t]
  BY DEF EndingAnswer, TypeInv, SendTypeOK
<1> QED BY <1>1, <1>2, FinishKeeps DEF EndingAnswer

LEMMA ChunkAnswerTypes ==
  ASSUME TypeInv, NEW s \in Sender, NEW ans, ChunkAnswer(s, ans)
  PROVE  TypeInv'
<1>1. /\ Tail(readers[s]) \in Seq(Reader) /\ to_client' \in [Sender -> Seq(Response)]
      /\ pc[s] = "chunk" /\ UNCHANGED <<send_session_id, tokens>>
  BY ResumeTypes DEF ChunkAnswer, TypeInv
<1>2. CASE EndingAnswer(s, ans)
  BY <1>1, <1>2, EndingAnswerTypes
<1>3. CASE /\ Continue(s, CurrentFile(s), chunk[s] + 1, send_session_id[s],
                       tokens[s], Tail(readers[s]))
           /\ UNCHANGED <<send_status, todo, reported, cancel, conn>>
  <2>1. /\ CurrentFile(s) \in File /\ chunk[s] + 1 \in Nat
        /\ send_session_id[s] \in 0 .. MaxRequests
    BY <1>1, CurrentFileType DEF TypeInv, SendTypeOK
  <2>2. /\ chunk' \in [Sender -> Nat]
        /\ pc' \in [Sender -> {"connect", "request", "retry", "chunk", "verify", "done"}]
        /\ \A t \in Sender \ {s} : pc'[t] = pc[t]
        /\ readers' \in [Sender -> Seq(Reader)]
        /\ to_server' \in [Sender -> Seq(Request)]
        /\ writing' \in [Sender -> Writing]
    BY <1>1, <1>3, <2>1, ContinueTypes DEF TypeInv
  <2> QED BY <1>1, <1>3, <2>2 DEF TypeInv, SendTypeOK, HasFile, Reader
<1> QED BY <1>2, <1>3 DEF ChunkAnswer, CurrentFile

LEMMA VerifyAnswerTypes ==
  ASSUME TypeInv, NEW s \in Sender, NEW ans, VerifyAnswer(s, ans)
  PROVE  TypeInv'
<1> DEFINE completed == [type |-> "FileSendingCompleted", file |-> CurrentFile(s)]
<1>1. /\ Tail(readers[s]) \in Seq(Reader) /\ to_client' \in [Sender -> Seq(Response)]
      /\ pc[s] = "verify" /\ UNCHANGED <<send_session_id, tokens>>
  BY ResumeTypes DEF VerifyAnswer, TypeInv
<1>2. /\ todo[s] \in Seq(File) /\ todo[s] # <<>> /\ CurrentFile(s) \in File
      /\ {completed} \in SUBSET Feedbacks
      /\ {completed, [type |-> "SendSessionEnded"]} \in SUBSET Feedbacks
      /\ send_session_id[s] \in 0 .. MaxRequests
  BY <1>1, CurrentFileType, FeedbackTypes DEF TypeInv, SendTypeOK, HasFile
<1>3. /\ send_session_id' \in [Sender -> 0 .. MaxRequests]
      /\ tokens' \in [Sender -> SUBSET File]
  BY <1>1 DEF TypeInv, SendTypeOK
<1>4. CASE EndingAnswer(s, ans)
  BY <1>1, <1>4, EndingAnswerTypes
<1>5. CASE /\ Tail(todo[s]) # <<>>
           /\ todo' = [todo EXCEPT ![s] = Tail(@)]
           /\ StartFile(s, Head(Tail(todo[s])), send_session_id[s], tokens[s],
                        Tail(readers[s]), {completed})
  <2>1. Tail(todo[s]) \in Seq(File) /\ Head(Tail(todo[s])) \in File
    BY <1>2, <1>5
  <2>2. /\ todo' \in [Sender -> Seq(File)] /\ todo'[s] # <<>>
        /\ \A t \in Sender \ {s} : todo'[t] = todo[t]
    BY <1>5, <2>1 DEF TypeInv, SendTypeOK
  <2> HIDE DEF completed
  <2> QED BY <1>1, <1>2, <1>3, <1>5, <2>1, <2>2, StartFileKeeps
<1>6. CASE /\ todo' = [todo EXCEPT ![s] = <<>>]
           /\ Finish(s, "kCompleted", {completed, [type |-> "SendSessionEnded"]})
  <2>1. /\ todo' \in [Sender -> Seq(File)]
        /\ \A t \in Sender \ {s} : todo'[t] = todo[t]
        /\ "kCompleted" \in SessionStatus
    BY <1>6 DEF TypeInv, SendTypeOK, SessionStatus
  <2> HIDE DEF completed
  <2> QED BY <1>1, <1>2, <1>3, <1>6, <2>1, FinishKeeps
<1> QED BY <1>4, <1>5, <1>6 DEF VerifyAnswer, CurrentFile

LEMMA CancelTypes ==
  ASSUME TypeInv, NEW s \in Sender, Cancel(s)
  PROVE  TypeInv'
<1>1. /\ send_session_id[s] \in 0 .. MaxRequests /\ readers[s] \in Seq(Reader)
      /\ "cancel" \in Reader
  BY DEF TypeInv, SendTypeOK, Reader
<1>2. CancelSend(send_session_id[s]) \in Request
  BY <1>1 DEF Request, CancelSend
<1>3. CASE /\ Issue(s, "cancel", CancelSend(send_session_id[s]), readers[s])
           /\ UNCHANGED writing
  <2>1. readers' \in [Sender -> Seq(Reader)] /\ to_server' \in [Sender -> Seq(Request)]
    BY <1>1, <1>2, <1>3, IssueTypes DEF TypeInv
  <2> QED BY <1>3, <2>1 DEF Cancel, main_vars, TypeInv, SendTypeOK, HasFile, Reader
<1>4. CASE /\ writing' = [writing EXCEPT ![s] = "both"]
           /\ readers' = [readers EXCEPT ![s] = Append(@, "cancel")]
           /\ UNCHANGED to_server
  <2>1. "both" \in Writing /\ Append(readers[s], "cancel") \in Seq(Reader)
    BY <1>1 DEF Writing
  <2> QED BY <1>4, <2>1 DEF Cancel, main_vars, TypeInv, SendTypeOK, HasFile, Reader
<1> QED BY <1>3, <1>4 DEF Cancel

LEMMA CurrentType ==
  ASSUME TypeInv, NEW s \in Sender, pc[s] # "done"
  PROVE  Current(s) \in Request
<1>1. /\ Head(todo[s]) \in File /\ chunk[s] \in Nat
      /\ send_session_id[s] \in 0 .. MaxRequests
  BY CurrentFileType DEF CurrentFile, TypeInv, SendTypeOK
<1>2. Token(Head(todo[s]), send_session_id[s], tokens[s]) \in 0 .. MaxRequests
  BY <1>1, ChunksOK DEF Token
<1> QED BY <1>1, <1>2, RequestTypes DEF Current

LEMMA WriteEndsTypes ==
  ASSUME TypeInv, NEW s \in Sender, WriteEnds(s)
  PROVE  TypeInv'
<1>1. /\ Issue(s, "start", Current(s), readers[s])
      /\ Current(s) \in Request /\ "start" \in Reader /\ readers[s] \in Seq(Reader)
  BY CurrentType DEF WriteEnds, Reader, TypeInv, SendTypeOK
<1>2. readers' \in [Sender -> Seq(Reader)] /\ to_server' \in [Sender -> Seq(Request)]
  BY <1>1, IssueTypes DEF TypeInv
<1>3. writing' \in [Sender -> Writing]
  BY DEF WriteEnds, Writing, TypeInv, SendTypeOK
<1> QED BY <1>2, <1>3 DEF WriteEnds, main_vars, TypeInv, SendTypeOK, HasFile, Reader

LEMMA CancelAnswerTypes ==
  ASSUME TypeInv, NEW s \in Sender, NEW ans, CancelAnswer(s, ans)
  PROVE  TypeInv'
<1>1. Tail(readers[s]) \in Seq(Reader) /\ to_client' \in [Sender -> Seq(Response)]
  BY ResumeTypes DEF CancelAnswer, TypeInv
<1>2. send_status' \in [Sender -> SessionStatus]
  BY DEF CancelAnswer, TypeInv, SendTypeOK, SessionStatus
<1> QED BY <1>1, <1>2 DEF CancelAnswer, TypeInv, SendTypeOK, HasFile, Reader

LEMMA BreakTypes ==
  ASSUME TypeInv, NEW s \in Sender, Break(s)
  PROVE  TypeInv'
<1>1. conn' \in [Sender -> ConnStatus]
  BY DEF Break, TypeInv, SendTypeOK, ConnStatus, Disconnect
<1>2. to_server' \in [Sender -> Seq(Request)] /\ to_client' \in [Sender -> Seq(Response)]
  BY DEF Break, TypeInv, SendTypeOK
<1> QED BY <1>1, <1>2 DEF Break, main_vars, TypeInv, SendTypeOK, HasFile

\* What the connection holds after an answer.
LEMMA ReplyTypes ==
  ASSUME TypeInv, NEW s \in Sender, NEW ans \in Response, to_server[s] # <<>>,
         Reply(s, ans)
  PROVE  /\ to_client' \in [Sender -> Seq(Response)]
         /\ to_server' \in [Sender -> Seq(Request)]
         /\ conn' \in [Sender -> ConnStatus]
         /\ UNCHANGED writing
<1>1. /\ to_client[s] \in Seq(Response) /\ to_server[s] \in Seq(Request)
      /\ Append(to_client[s], ans) \in Seq(Response)
      /\ Tail(to_server[s]) \in Seq(Request)
  BY DEF TypeInv, SendTypeOK
<1>2. conn' \in [Sender -> ConnStatus]
  BY DEF Reply, TypeInv, SendTypeOK, ConnStatus
<1>3. to_client' \in [Sender -> Seq(Response)]
  BY <1>1 DEF Reply, TypeInv, SendTypeOK
<1>4. to_server' \in [Sender -> Seq(Request)]
  <2>1. \/ to_server' = [to_server EXCEPT ![s] = Tail(@)]
        \/ to_server' = [to_server EXCEPT ![s] = <<>>]
    BY Zenon DEF Reply
  <2>2. to_server \in [Sender -> Seq(Request)]
    BY DEF TypeInv, SendTypeOK
  <2>3. CASE to_server' = [to_server EXCEPT ![s] = Tail(@)]
    BY <1>1, <2>2, <2>3
  <2>4. CASE to_server' = [to_server EXCEPT ![s] = <<>>]
    <3>1. <<>> \in Seq(Request)
      OBVIOUS
    <3> QED BY <2>2, <2>4, <3>1
  <2> QED BY <2>1, <2>3, <2>4
<1>5. UNCHANGED writing
  BY DEF Reply
<1> QED BY <1>2, <1>3, <1>4, <1>5

\* The answer of a receiver that may give any.
LEMMA AnyAnswer ==
  ASSUME TypeInv, NEW s \in Sender, ServerAnswers(s)
  PROVE  \E ans \in Response :
           /\ ans.to = Head(to_server[s]).type /\ Reply(s, ans)
           /\ writing[s] = "torn" => ans.code \in TornCodes
<1> DEFINE req == Head(to_server[s])
<1>1. req \in Request
  BY DEF ServerAnswers, TypeInv, SendTypeOK
<1>2. req.type \in {"request-send", "send-chunk", "verify-integrity", "cancel-send"}
  BY <1>1 DEF Request
<1>3. PICK code \in IF writing[s] = "torn" THEN TornCodes ELSE Codes(req) :
        IF req.type = "request-send" /\ code = "200"
        THEN \E sid \in 1 .. MaxRequests, files \in SUBSET FilesIn(s) :
               Reply(s, Answer(req.type, code, sid, files))
        ELSE Reply(s, Answer(req.type, code, 0, {}))
  BY DEF ServerAnswers
<1>4. code \in {"200", "400", "500", "403 receiver busy", "403 declined",
                "403 sender cancelled", "403 receiver cancelled"}
  BY DEF Codes, TornCodes
<1>5. FilesIn(s) \subseteq File
  <2>1. FilesOf[s] \in Seq(File)
    BY SendersOK
  <2> QED BY <2>1 DEF FilesIn
<1> HIDE DEF req
<1>6. ASSUME NEW sid \in 0 .. MaxRequests, NEW files \in SUBSET File
      PROVE  /\ Answer(req.type, code, sid, files) \in Response
             /\ Answer(req.type, code, sid, files).to = req.type
             /\ Answer(req.type, code, sid, files).code = code
  BY <1>2, <1>4 DEF Answer, Response
<1>7. CASE req.type = "request-send" /\ code = "200"
  <2>1. PICK sid \in 1 .. MaxRequests, files \in SUBSET FilesIn(s) :
          Reply(s, Answer(req.type, code, sid, files))
    BY <1>3, <1>7
  <2>2. sid \in 0 .. MaxRequests /\ files \in SUBSET File
    BY <1>5, ChunksOK
  <2> QED BY <1>6, <2>1, <2>2 DEF req
<1>8. CASE ~(req.type = "request-send" /\ code = "200")
  <2>1. 0 \in 0 .. MaxRequests
    BY ChunksOK
  <2> QED BY <1>3, <1>6, <1>8, <2>1 DEF req
<1> QED BY <1>7, <1>8

LEMMA ServerAnswersTypes ==
  ASSUME TypeInv, NEW s \in Sender, ServerAnswers(s)
  PROVE  TypeInv'
<1>1. PICK ans \in Response : Reply(s, ans)
  BY AnyAnswer
<1>2. to_server[s] # <<>>
  BY DEF ServerAnswers
<1>3. /\ to_client' \in [Sender -> Seq(Response)]
      /\ to_server' \in [Sender -> Seq(Request)]
      /\ conn' \in [Sender -> ConnStatus]
      /\ UNCHANGED writing
  BY <1>1, <1>2, ReplyTypes
<1> QED BY <1>3 DEF ServerAnswers, main_vars, TypeInv, SendTypeOK, HasFile

LEMMA TypeStep == TypeInv /\ [SendNext \/ AllDone]_send_vars => TypeInv'
<1> SUFFICES ASSUME TypeInv, [SendNext \/ AllDone]_send_vars PROVE TypeInv'
  OBVIOUS
<1>1. ASSUME NEW s \in Sender, SenderStep(s) PROVE TypeInv'
  BY <1>1, ConnectTypes, RetryTimerTypes, WriteEndsTypes, RequestAnswerTypes,
     ChunkAnswerTypes, VerifyAnswerTypes, CancelAnswerTypes DEF SenderStep
<1>3. ASSUME NEW s \in Sender, ServerCloses(s) PROVE TypeInv'
  BY <1>3 DEF ServerCloses, main_vars, TypeInv, SendTypeOK, HasFile, ConnStatus
<1>2. CASE UNCHANGED send_vars
  BY <1>2 DEF send_vars, main_vars, net_vars, TypeInv, SendTypeOK, HasFile
<1> QED
  BY <1>1, <1>2, <1>3, CancelTypes, BreakTypes, ServerAnswersTypes DEF SendNext, AllDone

\* Every variable of the senders keeps its type, whatever the receiver answers.
THEOREM SendTypes == SendSpec => []SendTypeOK
<1>1. TypeInv => SendTypeOK
  BY DEF TypeInv
<1> QED BY <1>1, TypeInit, TypeStep, PTL DEF SendSpec

-----------------------------------------------------------------------------
\* A confirmed cancel decides.

\* Before a session id is known nobody cancels.
NotYet(s) ==
  cancel[s] = "none" /\ send_session_id[s] = 0 /\ send_status[s] # "kCancelledBySender"

CancelInv == \A s \in Sender : pc[s] \in {"connect", "request", "retry"} => NotYet(s)

\* What a step of sender s leaves alone, and what it may do to s.
OthersKeep(s) ==
  \A t \in Sender \ {s} :
    /\ pc'[t] = pc[t] /\ cancel'[t] = cancel[t]
    /\ send_session_id'[t] = send_session_id[t] /\ send_status'[t] = send_status[t]

Decides(s) ==
  /\ pc'[s] \in {"connect", "request", "retry"} => NotYet(s)'
  /\ send_status[s] = "kCancelledBySender" => send_status'[s] = "kCancelledBySender"

LEMMA FinishEffect ==
  ASSUME TypeInv, NEW s \in Sender, NEW status, NEW feedbacks, Finish(s, status, feedbacks)
  PROVE  /\ pc'[s] = "done" /\ send_status'[s] = status
         /\ \A t \in Sender \ {s} : /\ pc'[t] = pc[t] /\ cancel'[t] = cancel[t]
                                    /\ send_status'[t] = send_status[t]
BY DEF Finish, TypeInv, SendTypeOK

LEMMA StartFileEffect ==
  ASSUME TypeInv, NEW s \in Sender, NEW f, NEW sid, NEW with, NEW rest, NEW feedbacks,
         StartFile(s, f, sid, with, rest, feedbacks)
  PROVE  /\ pc'[s] \in {"chunk", "verify", "done"}
         /\ \A t \in Sender \ {s} : /\ pc'[t] = pc[t] /\ cancel'[t] = cancel[t]
                                    /\ send_status'[t] = send_status[t]
<1>1. CASE Finish(s, "kFailed", feedbacks \cup {[type |-> "SendFailed"]})
  BY <1>1, FinishEffect
<1>2. CASE /\ send_status' = [send_status EXCEPT ![s] = "kSending"]
           /\ Continue(s, f, 0, sid, with, rest)
           /\ UNCHANGED cancel
  BY <1>2 DEF Continue, TypeInv, SendTypeOK
<1> QED BY <1>1, <1>2 DEF StartFile

LEMMA ConnectDecides ==
  ASSUME TypeInv, CancelInv, NEW s \in Sender, Connect(s)
  PROVE  OthersKeep(s) /\ Decides(s)
<1>1. NotYet(s) /\ UNCHANGED send_session_id
  BY DEF Connect, CancelInv
<1>2. CASE /\ send_status' = [send_status EXCEPT ![s] = "kWaiting"]
           /\ pc' = [pc EXCEPT ![s] = "request"]
           /\ UNCHANGED cancel
  BY <1>1, <1>2 DEF OthersKeep, Decides, NotYet, TypeInv, SendTypeOK
<1>3. CASE Finish(s, "kFailed", {[type |-> "NetworkError"]})
  BY <1>1, <1>3, FinishEffect DEF OthersKeep, Decides, NotYet
<1> QED BY <1>2, <1>3 DEF Connect

LEMMA RequestDecides ==
  ASSUME TypeInv, CancelInv, NEW s \in Sender, NEW ans, RequestAnswer(s, ans)
  PROVE  OthersKeep(s) /\ Decides(s)
<1>1. NotYet(s)
  BY DEF RequestAnswer, CancelInv
<1>2. CASE Decline(s) /\ UNCHANGED send_session_id
  BY <1>1, <1>2, FinishEffect DEF Decline, OthersKeep, Decides, NotYet
<1>3. CASE /\ pc' = [pc EXCEPT ![s] = "retry"]
           /\ UNCHANGED <<send_status, send_session_id, cancel>>
  BY <1>1, <1>3 DEF OthersKeep, Decides, NotYet, TypeInv, SendTypeOK
<1>4. CASE /\ send_session_id' = [send_session_id EXCEPT ![s] = ans.sid]
           /\ Accepted(s, ans.sid, ans.tokens, Tail(readers[s]))
  <2>1. StartFile(s, Head(todo[s]), ans.sid, ans.tokens, Tail(readers[s]),
                  {[type |-> "RecipientAccepted"]})
    BY <1>4 DEF Accepted
  <2> QED BY <1>1, <1>4, <2>1, StartFileEffect
          DEF OthersKeep, Decides, NotYet, TypeInv, SendTypeOK
<1> QED BY <1>1, <1>2, <1>3, <1>4 DEF RequestAnswer, NotYet

LEMMA RetryDecides ==
  ASSUME TypeInv, CancelInv, NEW s \in Sender, RetryTimer(s)
  PROVE  OthersKeep(s) /\ Decides(s)
<1>1. NotYet(s) /\ UNCHANGED send_session_id
  BY DEF RetryTimer, CancelInv
<1>2. CASE send_status[s] = "kWaiting"
  <2>1. /\ pc' = [pc EXCEPT ![s] = "request"]
        /\ UNCHANGED <<send_status, cancel>>
    BY <1>2 DEF RetryTimer
  <2> QED BY <1>1, <2>1 DEF OthersKeep, Decides, NotYet, TypeInv, SendTypeOK
<1>3. CASE send_status[s] # "kWaiting"
  <2>1. StartFile(s, Head(todo[s]), send_session_id[s], tokens[s], readers[s],
                  {[type |-> "RecipientAccepted"]})
    BY <1>3 DEF RetryTimer, Accepted
  <2> QED BY <1>1, <2>1, StartFileEffect DEF OthersKeep, Decides, NotYet
<1> QED BY <1>2, <1>3

LEMMA EndingDecides ==
  ASSUME TypeInv, NEW s \in Sender, NEW ans, EndingAnswer(s, ans),
         UNCHANGED send_session_id
  PROVE  OthersKeep(s) /\ Decides(s)
<1>1. PICK status, feedbacks :
        /\ Finish(s, status, feedbacks)
        /\ send_status[s] = "kCancelledBySender" => status = "kCancelledBySender"
  BY DEF EndingAnswer
<1> QED BY <1>1, FinishEffect DEF OthersKeep, Decides

LEMMA ChunkDecides ==
  ASSUME TypeInv, CancelInv, NEW s \in Sender, NEW ans, ChunkAnswer(s, ans)
  PROVE  OthersKeep(s) /\ Decides(s)
<1>1. UNCHANGED send_session_id
  BY DEF ChunkAnswer
<1>2. CASE EndingAnswer(s, ans)
  BY <1>1, <1>2, EndingDecides
<1>3. CASE /\ Continue(s, Head(todo[s]), chunk[s] + 1, send_session_id[s],
                       tokens[s], Tail(readers[s]))
           /\ UNCHANGED <<send_status, cancel>>
  BY <1>1, <1>3 DEF Continue, OthersKeep, Decides, TypeInv, SendTypeOK
<1> QED BY <1>2, <1>3 DEF ChunkAnswer

LEMMA VerifyDecides ==
  ASSUME TypeInv, CancelInv, NEW s \in Sender, NEW ans, VerifyAnswer(s, ans)
  PROVE  OthersKeep(s) /\ Decides(s)
<1>1. UNCHANGED send_session_id
  BY DEF VerifyAnswer
<1>2. CASE EndingAnswer(s, ans)
  BY <1>1, <1>2, EndingDecides
<1>3. ASSUME NEW f, NEW sid, NEW with, NEW rest, NEW feedbacks,
             StartFile(s, f, sid, with, rest, feedbacks),
             send_status[s] # "kCancelledBySender"
      PROVE  OthersKeep(s) /\ Decides(s)
  BY <1>1, <1>3, StartFileEffect DEF OthersKeep, Decides
<1>4. ASSUME NEW status, NEW feedbacks, Finish(s, status, feedbacks),
             send_status[s] # "kCancelledBySender"
      PROVE  OthersKeep(s) /\ Decides(s)
  BY <1>1, <1>4, FinishEffect DEF OthersKeep, Decides
<1> QED BY <1>2, <1>3, <1>4 DEF VerifyAnswer

LEMMA CancelAnswerDecides ==
  ASSUME TypeInv, CancelInv, NEW s \in Sender, NEW ans, CancelAnswer(s, ans)
  PROVE  OthersKeep(s) /\ Decides(s)
<1>1. pc[s] \notin {"connect", "request", "retry"} /\ UNCHANGED <<pc, send_session_id>>
  BY DEF CancelAnswer, CancelInv, NotYet
<1> QED BY <1>1 DEF CancelAnswer, OthersKeep, Decides, TypeInv, SendTypeOK

LEMMA CancelStartDecides ==
  ASSUME TypeInv, CancelInv, ~CancelWhileWaiting, NEW s \in Sender, Cancel(s)
  PROVE  OthersKeep(s) /\ Decides(s)
<1>1. pc[s] \notin {"connect", "request", "retry"}
  BY DEF Cancel, CancelInv, NotYet
<1> QED BY <1>1 DEF Cancel, main_vars, OthersKeep, Decides, TypeInv, SendTypeOK

LEMMA CancelStep ==
  ASSUME ~CancelWhileWaiting, TypeInv, CancelInv, [SendNext \/ AllDone]_send_vars
  PROVE  /\ CancelInv'
         /\ \A s \in Sender : send_status[s] = "kCancelledBySender" =>
              send_status'[s] = "kCancelledBySender"
<1>1. ASSUME NEW s \in Sender, OthersKeep(s), Decides(s)
      PROVE  /\ CancelInv'
             /\ \A t \in Sender : send_status[t] = "kCancelledBySender" =>
                  send_status'[t] = "kCancelledBySender"
  BY <1>1 DEF OthersKeep, Decides, CancelInv, NotYet
<1>2. ASSUME NEW s \in Sender, SenderStep(s) \/ Cancel(s), ~WriteEnds(s)
      PROVE  OthersKeep(s) /\ Decides(s)
  BY <1>2, ConnectDecides, RequestDecides, RetryDecides, ChunkDecides, VerifyDecides,
     CancelAnswerDecides, CancelStartDecides DEF SenderStep
<1>3. CASE UNCHANGED <<pc, cancel, send_session_id, send_status>>
  BY <1>3 DEF CancelInv, NotYet
<1>4. ASSUME NEW s \in Sender,
             WriteEnds(s) \/ Break(s) \/ ServerAnswers(s) \/ ServerCloses(s)
      PROVE  UNCHANGED <<pc, cancel, send_session_id, send_status>>
  BY <1>4 DEF WriteEnds, Break, ServerAnswers, ServerCloses, main_vars
<1>5. AllDone \/ UNCHANGED send_vars => UNCHANGED <<pc, cancel, send_session_id, send_status>>
  BY DEF AllDone, send_vars, main_vars
<1> QED BY <1>1, <1>2, <1>3, <1>4, <1>5 DEF SendNext

\* Once the receiver has confirmed a cancel, no answer to the other coroutine and
\* no loss of the connection gives the session another status, as long as Cancel
\* comes after the session id is known.
THEOREM CancelIsFinal ==
  ASSUME ~CancelWhileWaiting
  PROVE  SendSpec => CancelDecides
<1>1. SendInit => CancelInv
  BY DEF SendInit, CancelInv, NotYet
<1>2. TypeInv /\ CancelInv /\ [SendNext \/ AllDone]_send_vars => CancelInv'
  BY CancelStep
<1>3. TypeInv /\ CancelInv /\ [SendNext \/ AllDone]_send_vars =>
        [\A s \in Sender : send_status[s] = "kCancelledBySender" =>
           send_status'[s] = send_status[s]]_send_vars
  BY CancelStep
<1> QED BY <1>1, <1>2, <1>3, TypeInit, TypeStep, PTL DEF SendSpec, CancelDecides

-----------------------------------------------------------------------------
\* Each coroutine gets the answer to its own request.

IsCancel(who, type) == who = "cancel" <=> type = "cancel-send"

\* The answers in flight belong to the first readers, and on a connection that is
\* up the requests in flight belong to the others.
Answered(r, a) ==
  Len(a) <= Len(r) /\ \A i \in 1 .. Len(a) : IsCancel(r[i], a[i].to)

Due(r, a, q) ==
  /\ Len(r) = Len(a) + Len(q)
  /\ \A j \in 1 .. Len(q) : IsCancel(r[Len(a) + j], q[j].type)

LEMMA AlignedIssue ==
  ASSUME NEW r \in Seq(Reader), NEW a \in Seq(Response), NEW q \in Seq(Request),
         Answered(r, a), NEW who \in Reader, NEW req \in Request,
         IsCancel(who, req.type)
  PROVE  /\ Answered(Append(r, who), a)
         /\ Due(r, a, q) => Due(Append(r, who), a, Append(q, req))
<1>1. Answered(Append(r, who), a)
  BY DEF Answered
<1>2. ASSUME Due(r, a, q) PROVE Due(Append(r, who), a, Append(q, req))
  <2> DEFINE n == Len(q)
  <2>1. /\ n \in Nat /\ Len(a) \in Nat /\ Len(r) = Len(a) + n
        /\ Len(Append(q, req)) = n + 1 /\ Len(Append(r, who)) = Len(a) + (n + 1)
        /\ Append(q, req)[n + 1] = req /\ Append(r, who)[Len(a) + (n + 1)] = who
        /\ \A j \in 1 .. n : Append(q, req)[j] = q[j]
        /\ \A j \in 1 .. n : Append(r, who)[Len(a) + j] = r[Len(a) + j]
    BY <1>2 DEF Due
  <2>2. \A j \in 1 .. n : IsCancel(r[Len(a) + j], q[j].type)
    BY <1>2 DEF Due
  <2> HIDE DEF n
  <2>3. \A j \in 1 .. n + 1 : j \in 1 .. n \/ j = n + 1
    BY <2>1
  <2> QED BY <2>1, <2>2, <2>3 DEF Due
<1> QED BY <1>1, <1>2

LEMMA AlignedResume ==
  ASSUME NEW r \in Seq(Reader), NEW a \in Seq(Response), NEW q \in Seq(Request),
         Answered(r, a), a # <<>>
  PROVE  /\ Answered(Tail(r), Tail(a))
         /\ Due(r, a, q) => Due(Tail(r), Tail(a), q)
<1> DEFINE n == Len(a)
           m == Len(r)
<1>1. /\ n \in Nat \ {0} /\ m \in Nat /\ n <= m
      /\ Len(Tail(a)) = n - 1 /\ Len(Tail(r)) = m - 1
      /\ \A i \in 1 .. n - 1 : Tail(a)[i] = a[i + 1]
      /\ \A i \in 1 .. m - 1 : Tail(r)[i] = r[i + 1]
  BY DEF Answered
<1>2. \A i \in 1 .. n : IsCancel(r[i], a[i].to)
  BY DEF Answered
<1>3. Due(r, a, q) => /\ Len(q) \in Nat /\ m = n + Len(q)
                      /\ \A j \in 1 .. Len(q) : IsCancel(r[n + j], q[j].type)
  BY DEF Due
<1> HIDE DEF n, m
<1>4. Answered(Tail(r), Tail(a))
  <2>1. \A i \in 1 .. n - 1 : i + 1 \in 1 .. n /\ i \in 1 .. m - 1
    BY <1>1
  <2>2. n - 1 <= m - 1
    BY <1>1
  <2> QED BY <1>1, <1>2, <2>1, <2>2 DEF Answered
<1>5. ASSUME Due(r, a, q) PROVE Due(Tail(r), Tail(a), q)
  <2>1. \A j \in 1 .. Len(q) : (n - 1) + j \in 1 .. m - 1 /\ ((n - 1) + j) + 1 = n + j
    BY <1>1, <1>3, <1>5
  <2>2. m - 1 = (n - 1) + Len(q)
    BY <1>1, <1>3, <1>5
  <2>3. \A j \in 1 .. Len(q) : Tail(r)[(n - 1) + j] = r[n + j]
    <3> TAKE j \in 1 .. Len(q)
    <3> QED BY <1>1, <2>1
  <2>4. \A j \in 1 .. Len(q) : IsCancel(Tail(r)[(n - 1) + j], q[j].type)
    BY <1>3, <1>5, <2>3
  <2> QED BY <1>1, <2>2, <2>4 DEF Due
<1> QED BY <1>4, <1>5

LEMMA AlignedReply ==
  ASSUME NEW r \in Seq(Reader), NEW a \in Seq(Response), NEW q \in Seq(Request),
         Answered(r, a), Due(r, a, q), q # <<>>, NEW ans \in Response,
         ans.to = Head(q).type
  PROVE  Answered(r, Append(a, ans)) /\ Due(r, Append(a, ans), Tail(q))
<1> DEFINE n == Len(a)
<1>1. /\ n \in Nat /\ Len(q) \in Nat \ {0} /\ Len(r) = n + Len(q)
      /\ Len(Append(a, ans)) = n + 1 /\ Append(a, ans)[n + 1] = ans
      /\ Len(Tail(q)) = Len(q) - 1
      /\ \A i \in 1 .. n : Append(a, ans)[i] = a[i]
      /\ \A j \in 1 .. Len(q) - 1 : Tail(q)[j] = q[j + 1]
  BY DEF Due
<1>2. IsCancel(r[n + 1], ans.to)
  BY <1>1 DEF Due
<1>3. \A i \in 1 .. n : IsCancel(r[i], a[i].to)
  BY DEF Answered
<1>4. \A j \in 1 .. Len(q) : IsCancel(r[n + j], q[j].type)
  BY DEF Due
<1> HIDE DEF n
<1>5. Answered(r, Append(a, ans))
  <2>1. \A i \in 1 .. n + 1 : i \in 1 .. n \/ i = n + 1
    BY <1>1
  <2> QED BY <1>1, <1>2, <1>3, <2>1 DEF Answered
<1>6. Due(r, Append(a, ans), Tail(q))
  <2>1. \A j \in 1 .. Len(q) - 1 : j + 1 \in 1 .. Len(q) /\ (n + 1) + j = n + (j + 1)
    BY <1>1
  <2>2. Len(r) = (n + 1) + (Len(q) - 1)
    BY <1>1
  <2>3. \A j \in 1 .. Len(q) - 1 : IsCancel(r[(n + 1) + j], Tail(q)[j].type)
    <3> TAKE j \in 1 .. Len(q) - 1
    <3>1. IsCancel(r[n + (j + 1)], q[j + 1].type)
      BY <1>4, <2>1
    <3> QED BY <1>1, <2>1, <3>1
  <2> QED BY <1>1, <2>2, <2>3 DEF Due
<1> QED BY <1>5, <1>6

\* Who reads, by whether Start and cancelSend do: the first is served first.
Reads(start, cancels) ==
  IF start
  THEN IF cancels THEN {<<"start", "cancel">>, <<"cancel", "start">>}
       ELSE {<<"start">>}
  ELSE IF cancels THEN {<<"cancel">>} ELSE {<<>>}

LEMMA AppendEmpty ==
  ASSUME NEW S, NEW e \in S
  PROVE  Append(<<>>, e) = <<e>> /\ Len(Append(<<>>, e)) = 1 /\ Append(<<>>, e)[1] = e
<1> DEFINE r == Append(<<>>, e)
           q == <<e>>
<1>1. r \in Seq(S) /\ Len(r) = 1 /\ r[1] = e
  OBVIOUS
<1>2. q \in Seq(S) /\ Len(q) = 1 /\ q[1] = e
  OBVIOUS
<1> HIDE DEF r, q
<1>3. r = q
  BY <1>1, <1>2, SeqEqual
<1> QED BY <1>1, <1>3 DEF r, q

LEMMA AppendOne ==
  ASSUME NEW d \in Reader, NEW e \in Reader
  PROVE  Append(<<d>>, e) = <<d, e>>
<1> DEFINE r == Append(<<d>>, e)
           q == <<d, e>>
<1>1. <<d>> \in Seq(Reader) /\ Len(<<d>>) = 1 /\ <<d>>[1] = d
  OBVIOUS
<1>2. r \in Seq(Reader) /\ Len(r) = 2 /\ r[1] = d /\ r[2] = e
  BY <1>1
<1>3. q \in Seq(Reader) /\ Len(q) = 2 /\ q[1] = d /\ q[2] = e
  OBVIOUS
<1> HIDE DEF r, q
<1>4. \A i \in 1 .. 2 : r[i] = q[i]
  BY <1>2, <1>3
<1>5. r = q
  BY <1>2, <1>3, <1>4, SeqEqual
<1> QED BY <1>5 DEF r, q

LEMMA ReadsTail ==
  ASSUME NEW st \in BOOLEAN, NEW ca \in BOOLEAN, NEW r \in Reads(st, ca), r # <<>>
  PROVE  /\ Head(r) = "start" => st /\ Tail(r) \in Reads(FALSE, ca)
         /\ Head(r) = "cancel" => ca /\ Tail(r) \in Reads(st, FALSE)
<1>1. CASE r = <<"start", "cancel">>
  BY <1>1 DEF Reads
<1>2. CASE r = <<"cancel", "start">>
  BY <1>2 DEF Reads
<1>3. CASE r = <<"start">>
  BY <1>3 DEF Reads
<1>4. CASE r = <<"cancel">>
  BY <1>4 DEF Reads
<1> QED BY <1>1, <1>2, <1>3, <1>4 DEF Reads

LEMMA ReadsAppend ==
  ASSUME NEW b \in BOOLEAN
  PROVE  /\ \A r \in Reads(FALSE, b) : Append(r, "start") \in Reads(TRUE, b)
         /\ \A r \in Reads(b, FALSE) : Append(r, "cancel") \in Reads(b, TRUE)
<1> QED BY AppendEmpty, AppendOne DEF Reads, Reader

\* Start waits for an answer.
StartReads(s) ==
  pc[s] \in {"request", "chunk", "verify"} /\ writing[s] \notin {"part", "both"}

Cancelling(s) == cancel[s] = "await"

\* The cancel has been written among the records of a request, which is not yet
\* written to its end, or is: then one answer comes, a refusal for cancelSend.
Both(s) ==
  /\ to_client[s] = <<>>
  /\ conn[s] = "up" => Cancelling(s) /\ to_server[s] = <<>>

Torn(s) ==
  /\ Cancelling(s) => readers[s] = <<"cancel", "start">>
  /\ conn[s] = "up" => /\ to_client[s] = <<>> /\ Cancelling(s)
                       /\ Len(to_server[s]) = 1
                       /\ to_server[s][1].type # "cancel-send"
  /\ to_client[s] # <<>> =>
       /\ conn[s] # "up" /\ Cancelling(s)
       /\ Len(to_client[s]) = 1 /\ to_client[s][1].code \in TornCodes

\* What holds of sender s: before it connects there is nothing in flight, until it
\* returns its readers are in order, and then nobody reads.
Aligned(s) ==
  /\ pc[s] = "connect" => /\ conn[s] = "none" /\ to_client[s] = <<>>
                          /\ to_server[s] = <<>>
                          /\ cancel[s] = "none" /\ writing[s] = "no"
  /\ pc[s] = "done" => conn[s] # "up" /\ readers[s] = <<>>
  /\ pc[s] # "done" =>
       /\ readers[s] \in Reads(StartReads(s), Cancelling(s))
       /\ writing[s] \in {"no", "part"} =>
            /\ Answered(readers[s], to_client[s])
            /\ conn[s] = "up" => Due(readers[s], to_client[s], to_server[s])
       /\ writing[s] # "no" => pc[s] \in {"request", "chunk"}
       /\ writing[s] \in {"both", "torn"} => cancel[s] # "none"
       /\ writing[s] = "both" => Both(s)
       /\ writing[s] = "torn" => Torn(s)

ReadersInv == \A s \in Sender : Aligned(s)

\* A sender that takes no part in a step.
Apart(t) ==
  /\ pc'[t] = pc[t] /\ conn'[t] = conn[t] /\ to_server'[t] = to_server[t]
  /\ to_client'[t] = to_client[t] /\ readers'[t] = readers[t]
  /\ cancel'[t] = cancel[t] /\ writing'[t] = writing[t]

\* What a step of sender s has to leave behind.
LinkInOrder(s) == Aligned(s)' /\ \A t \in Sender \ {s} : Apart(t)

LEMMA FinishInOrder ==
  ASSUME TypeInv, NEW s \in Sender, NEW status, NEW feedbacks,
         Finish(s, status, feedbacks),
         \A t \in Sender \ {s} : to_client'[t] = to_client[t]
  PROVE  LinkInOrder(s)
<1>1. /\ pc'[s] = "done" /\ readers'[s] = <<>> /\ conn'[s] = Disconnect(conn[s])
      /\ \A t \in Sender \ {s} : Apart(t)
  BY DEF Finish, TypeInv, SendTypeOK, Apart
<1>2. conn'[s] # "up"
  BY <1>1 DEF Disconnect, TypeInv, SendTypeOK, ConnStatus
<1> QED BY <1>1, <1>2 DEF Aligned, LinkInOrder

\* rest is in order with the answers that are left, and Start does not read.
RestInOrder(s, rest) ==
  /\ rest \in Seq(Reader) /\ to_client'[s] \in Seq(Response)
  /\ rest \in Reads(FALSE, Cancelling(s)) /\ writing[s] = "no"
  /\ Answered(rest, to_client'[s])
  /\ conn[s] = "up" => Due(rest, to_client'[s], to_server[s])
  /\ \A t \in Sender \ {s} : to_client'[t] = to_client[t]

\* Start has been resumed.  Behind a torn request that is by an exception.
LEMMA ResumedInOrder ==
  ASSUME TypeInv, ReadersInv, NEW s \in Sender, NEW ans, Resume(s, "start", ans),
         pc[s] # "done"
  PROVE  /\ \A t \in Sender \ {s} : to_client'[t] = to_client[t]
         /\ ans.sid \in 0 .. MaxRequests
         /\ ans.code # "error" => RestInOrder(s, Tail(readers[s]))
<1>1. /\ readers[s] \in Seq(Reader) /\ to_client[s] \in Seq(Response)
      /\ to_server[s] \in Seq(Request) /\ writing[s] \in Writing
  BY DEF TypeInv, SendTypeOK, Reader
<1>2. /\ readers[s] # <<>> /\ Head(readers[s]) = "start"
      /\ Tail(readers[s]) \in Seq(Reader)
      /\ readers[s] \in Reads(StartReads(s), Cancelling(s))
      /\ StartReads(s) \in BOOLEAN /\ Cancelling(s) \in BOOLEAN
  BY <1>1 DEF Resume, ReadersInv, Aligned, StartReads, Cancelling
<1>3. StartReads(s) /\ Tail(readers[s]) \in Reads(FALSE, Cancelling(s))
  BY <1>2, ReadsTail
<1>4. /\ \A t \in Sender \ {s} : to_client'[t] = to_client[t]
      /\ ans.sid \in 0 .. MaxRequests
      /\ to_client'[s] \in Seq(Response)
  BY ResumeTypes DEF Resume, TypeInv, SendTypeOK
<1>5. ASSUME ans.code # "error" PROVE RestInOrder(s, Tail(readers[s]))
  <2>1. to_client[s] # <<>>
    BY <1>5 DEF Resume, Error, Answer
  <2>2. to_client'[s] = Tail(to_client[s])
    BY <2>1 DEF Resume, TypeInv, SendTypeOK
  <2>3. writing[s] = "no"
    <3>1. writing[s] # "torn"
      <4> SUFFICES ASSUME writing[s] = "torn" PROVE FALSE
        OBVIOUS
      <4>1. Cancelling(s) /\ Len(to_client[s]) = 1 /\ conn[s] # "up"
        BY <2>1 DEF ReadersInv, Aligned, Torn
      <4>2. readers[s] = <<"cancel", "start">>
        BY <4>1 DEF ReadersInv, Aligned, Torn
      <4> QED BY <1>2, <4>2
    <3> QED BY <1>1, <1>3, <3>1 DEF StartReads, Writing
  <2>4. /\ Answered(readers[s], to_client[s])
        /\ conn[s] = "up" => Due(readers[s], to_client[s], to_server[s])
    BY <2>3 DEF ReadersInv, Aligned
  <2>5. /\ Answered(Tail(readers[s]), Tail(to_client[s]))
        /\ conn[s] = "up" => Due(Tail(readers[s]), Tail(to_client[s]), to_server[s])
    BY <1>1, <2>1, <2>4, AlignedResume
  <2> QED BY <1>2, <1>3, <1>4, <2>2, <2>3, <2>5 DEF RestInOrder
<1> QED BY <1>4, <1>5

\* A request is issued with what is left of the readers and answers in order.
LEMMA IssueAligned ==
  ASSUME TypeInv, NEW s \in Sender, NEW who \in Reader, NEW req \in Request,
         NEW rest \in Seq(Reader), Issue(s, who, req, rest),
         IsCancel(who, req.type), to_client'[s] \in Seq(Response),
         Answered(rest, to_client'[s]),
         conn[s] = "up" => Due(rest, to_client'[s], to_server[s])
  PROVE  /\ Answered(readers'[s], to_client'[s])
         /\ conn[s] = "up" => Due(readers'[s], to_client'[s], to_server'[s])
         /\ readers'[s] = Append(rest, who)
         /\ \A t \in Sender \ {s} : /\ to_server'[t] = to_server[t]
                                    /\ readers'[t] = readers[t]
<1>1. /\ readers'[s] = Append(rest, who)
      /\ conn[s] = "up" => to_server'[s] = Append(to_server[s], req)
      /\ \A t \in Sender \ {s} : /\ to_server'[t] = to_server[t]
                                 /\ readers'[t] = readers[t]
      /\ to_server[s] \in Seq(Request)
  BY DEF Issue, TypeInv, SendTypeOK
<1>2. /\ Answered(Append(rest, who), to_client'[s])
      /\ Due(rest, to_client'[s], to_server[s]) =>
           Due(Append(rest, who), to_client'[s], Append(to_server[s], req))
  BY <1>1, AlignedIssue
<1> QED BY <1>1, <1>2

\* Start calls SendRequest, and leaves its request written or begun.
LEMMA BeginAligned ==
  ASSUME TypeInv, NEW s \in Sender, NEW req \in Request, NEW rest,
         Begin(s, req, rest), RestInOrder(s, rest), req.type # "cancel-send",
         UNCHANGED <<conn, cancel>>, pc'[s] \in {"request", "chunk", "verify"},
         Long(s, req) => pc'[s] # "verify",
         \A t \in Sender \ {s} : pc'[t] = pc[t]
  PROVE  LinkInOrder(s)
<1>1. /\ rest \in Seq(Reader) /\ rest \in Reads(FALSE, Cancelling(s))
      /\ Cancelling(s) \in BOOLEAN /\ Cancelling(s)' = Cancelling(s)
      /\ writing[s] = "no" /\ writing \in [Sender -> Writing]
      /\ to_server \in [Sender -> Seq(Request)] /\ readers \in [Sender -> Seq(Reader)]
  BY DEF RestInOrder, Cancelling, TypeInv, SendTypeOK, Reader
<1>2. CASE Issue(s, "start", req, rest) /\ UNCHANGED writing
  <2>1. "start" \in Reader /\ IsCancel("start", req.type)
    BY DEF Reader, IsCancel
  <2>2. /\ Answered(readers'[s], to_client'[s])
        /\ conn[s] = "up" => Due(readers'[s], to_client'[s], to_server'[s])
        /\ readers'[s] = Append(rest, "start")
        /\ \A t \in Sender \ {s} : /\ to_server'[t] = to_server[t]
                                   /\ readers'[t] = readers[t]
    BY <1>1, <1>2, <2>1, IssueAligned DEF RestInOrder
  <2>3. readers'[s] \in Reads(TRUE, Cancelling(s))
    BY <1>1, <2>2, ReadsAppend
  <2>4. StartReads(s)' = TRUE /\ writing'[s] = "no"
    BY <1>1, <1>2 DEF StartReads
  <2> QED BY <1>1, <1>2, <2>2, <2>3, <2>4 DEF LinkInOrder, Apart, Aligned, RestInOrder
<1>3. CASE /\ Long(s, req)
           /\ writing' = [writing EXCEPT ![s] = "part"]
           /\ readers' = [readers EXCEPT ![s] = rest]
           /\ UNCHANGED to_server
  <2>1. /\ writing'[s] = "part" /\ readers'[s] = rest
        /\ \A t \in Sender \ {s} : /\ writing'[t] = writing[t]
                                   /\ readers'[t] = readers[t]
    BY <1>1, <1>3
  <2>2. StartReads(s)' = FALSE /\ pc'[s] \in {"request", "chunk"}
    BY <1>3, <2>1 DEF StartReads
  <2> QED BY <1>1, <1>3, <2>1, <2>2 DEF LinkInOrder, Apart, Aligned, RestInOrder
<1> QED BY <1>2, <1>3 DEF Begin

LEMMA ContinueAligned ==
  ASSUME TypeInv, NEW s \in Sender, NEW f \in File, NEW i \in Nat,
         NEW sid \in 0 .. MaxRequests, NEW with, NEW rest, RestInOrder(s, rest),
         Continue(s, f, i, sid, with, rest), UNCHANGED <<conn, cancel>>
  PROVE  LinkInOrder(s)
<1>1. Token(f, sid, with) \in 0 .. MaxRequests
  BY ChunksOK DEF Token
<1> DEFINE send == SendChunk(sid, Token(f, sid, with), f, i)
           verify == VerifyIntegrity(sid, Token(f, sid, with), f)
<1>2. send \in Request /\ verify \in Request
  BY <1>1, RequestTypes
<1>3. send.type = "send-chunk" /\ verify.type = "verify-integrity" /\ ~Long(s, verify)
  BY DEF SendChunk, VerifyIntegrity, Long
<1>4. \A t \in Sender \ {s} : pc'[t] = pc[t]
  BY DEF Continue, TypeInv, SendTypeOK
<1> HIDE DEF send, verify
<1>5. CASE pc' = [pc EXCEPT ![s] = "chunk"] /\ Begin(s, send, rest)
  <2>1. pc'[s] = "chunk"
    BY <1>5 DEF TypeInv, SendTypeOK
  <2> QED BY <1>2, <1>3, <1>4, <1>5, <2>1, BeginAligned
<1>6. CASE pc' = [pc EXCEPT ![s] = "verify"] /\ Begin(s, verify, rest)
  <2>1. pc'[s] = "verify"
    BY <1>6 DEF TypeInv, SendTypeOK
  <2> QED BY <1>2, <1>3, <1>4, <1>6, <2>1, BeginAligned
<1> QED BY <1>5, <1>6 DEF Continue, send, verify

LEMMA StartFileAligned ==
  ASSUME TypeInv, NEW s \in Sender, NEW f \in File, NEW sid \in 0 .. MaxRequests,
         NEW with, NEW rest, RestInOrder(s, rest), NEW feedbacks,
         StartFile(s, f, sid, with, rest, feedbacks)
  PROVE  LinkInOrder(s)
<1>1. 0 \in Nat /\ \A t \in Sender \ {s} : to_client'[t] = to_client[t]
  BY DEF RestInOrder
<1> QED BY <1>1, FinishInOrder, ContinueAligned DEF StartFile

LEMMA ConnectAligned ==
  ASSUME TypeInv, ReadersInv, NEW s \in Sender, Connect(s)
  PROVE  LinkInOrder(s)
<1>1. /\ pc[s] = "connect" /\ UNCHANGED to_client
      /\ conn[s] = "none" /\ to_client[s] = <<>> /\ to_server[s] = <<>>
      /\ cancel[s] = "none" /\ writing[s] = "no"
  BY DEF Connect, ReadersInv, Aligned
<1>2. readers[s] = <<>>
  BY <1>1 DEF ReadersInv, Aligned, Reads, StartReads, Cancelling
<1>3. ASSUME ClientConnects(s), pc' = [pc EXCEPT ![s] = "request"], UNCHANGED cancel
      PROVE  /\ pc'[s] = "request" /\ conn'[s] = "up" /\ to_client'[s] = <<>>
             /\ Cancelling(s)' = FALSE /\ cancel'[s] = "none"
             /\ \A t \in Sender \ {s} : /\ pc'[t] = pc[t] /\ conn'[t] = conn[t]
                                        /\ to_client'[t] = to_client[t]
                                        /\ cancel'[t] = cancel[t]
  BY <1>1, <1>3 DEF ClientConnects, Cancelling, TypeInv, SendTypeOK
<1>4. CASE /\ ClientConnects(s)
           /\ pc' = [pc EXCEPT ![s] = "request"]
           /\ to_server' = [to_server EXCEPT ![s] = <<RequestSend(s)>>]
           /\ readers' = [readers EXCEPT ![s] = <<"start">>]
           /\ UNCHANGED <<cancel, writing>>
  <2>1. /\ to_server'[s] = <<RequestSend(s)>> /\ readers'[s] = <<"start">>
        /\ writing'[s] = "no"
        /\ \A t \in Sender \ {s} : /\ to_server'[t] = to_server[t]
                                   /\ readers'[t] = readers[t]
                                   /\ writing'[t] = writing[t]
    BY <1>1, <1>4 DEF TypeInv, SendTypeOK
  <2>2. Answered(<<"start">>, <<>>)
    BY DEF Answered
  <2>3. Due(<<"start">>, <<>>, <<RequestSend(s)>>)
    <3>1. IsCancel("start", RequestSend(s).type)
      BY DEF IsCancel, RequestSend
    <3> QED BY <3>1 DEF Due
  <2>4. StartReads(s)' = TRUE /\ readers'[s] \in Reads(TRUE, FALSE)
    BY <1>3, <1>4, <2>1 DEF StartReads, Reads
  <2> QED BY <1>3, <1>4, <2>1, <2>2, <2>3, <2>4 DEF LinkInOrder, Apart, Aligned
<1>5. CASE /\ ClientConnects(s)
           /\ pc' = [pc EXCEPT ![s] = "request"]
           /\ writing' = [writing EXCEPT ![s] = "part"]
           /\ UNCHANGED <<cancel, to_server, readers>>
  <2>1. /\ writing'[s] = "part" /\ readers'[s] = <<>>
        /\ \A t \in Sender \ {s} : writing'[t] = writing[t]
    BY <1>2, <1>5 DEF TypeInv, SendTypeOK
  <2>2. StartReads(s)' = FALSE /\ readers'[s] \in Reads(FALSE, FALSE)
    BY <2>1 DEF StartReads, Reads
  <2>3. Answered(<<>>, <<>>) /\ Due(<<>>, <<>>, <<>>)
    BY DEF Answered, Due
  <2>4. to_server'[s] = <<>> /\ \A t \in Sender \ {s} : to_server'[t] = to_server[t]
    BY <1>1, <1>5
  <2> QED BY <1>3, <1>5, <2>1, <2>2, <2>3, <2>4 DEF LinkInOrder, Apart, Aligned
<1>6. CASE Finish(s, "kFailed", {[type |-> "NetworkError"]})
  BY <1>1, <1>6, FinishInOrder
<1> QED BY <1>4, <1>5, <1>6 DEF Connect

LEMMA RequestAligned ==
  ASSUME TypeInv, ReadersInv, NEW s \in Sender, NEW ans, RequestAnswer(s, ans)
  PROVE  LinkInOrder(s)
<1>1. pc[s] = "request" /\ Resume(s, "start", ans)
  BY DEF RequestAnswer
<1>2. /\ \A t \in Sender \ {s} : to_client'[t] = to_client[t]
      /\ ans.sid \in 0 .. MaxRequests
      /\ ans.code # "error" => RestInOrder(s, Tail(readers[s]))
  BY <1>1, ResumedInOrder
<1>3. CASE Finish(s, "kCancelledBySender", {}) \/ Decline(s)
  BY <1>2, <1>3, FinishInOrder DEF Decline
<1>4. CASE /\ ans.code \in {"403 receiver busy", "403 sender cancelled"}
           /\ pc' = [pc EXCEPT ![s] = "retry"]
           /\ readers' = [readers EXCEPT ![s] = Tail(@)]
           /\ UNCHANGED <<cancel, conn, writing, to_server>>
  <2>1. /\ pc'[s] = "retry" /\ readers'[s] = Tail(readers[s])
        /\ \A t \in Sender \ {s} : pc'[t] = pc[t] /\ readers'[t] = readers[t]
    BY <1>4 DEF TypeInv, SendTypeOK
  <2>2. StartReads(s)' = FALSE /\ Cancelling(s)' = Cancelling(s)
    BY <1>4, <2>1 DEF StartReads, Cancelling
  <2>3. RestInOrder(s, Tail(readers[s]))
    BY <1>2, <1>4
  <2> QED BY <1>4, <2>1, <2>2, <2>3 DEF RestInOrder, LinkInOrder, Apart, Aligned
<1>5. CASE ans.code = "200" /\ Accepted(s, ans.sid, ans.tokens, Tail(readers[s]))
  <2>1. Head(todo[s]) \in File
    BY <1>1, CurrentFileType DEF CurrentFile
  <2> QED BY <1>2, <1>5, <2>1, StartFileAligned DEF Accepted
<1> QED BY <1>3, <1>4, <1>5 DEF RequestAnswer

\* A coroutine that has not read anything finds the readers as they are.
LEMMA NothingRead ==
  ASSUME TypeInv, ReadersInv, NEW s \in Sender, pc[s] = "retry", UNCHANGED to_client
  PROVE  RestInOrder(s, readers[s])
<1>1. writing[s] = "no" /\ StartReads(s) = FALSE
  BY DEF ReadersInv, Aligned, StartReads
<1> QED BY <1>1 DEF TypeInv, SendTypeOK, ReadersInv, Aligned, RestInOrder, Reader

LEMMA RetryAligned ==
  ASSUME TypeInv, ReadersInv, NEW s \in Sender, RetryTimer(s)
  PROVE  LinkInOrder(s)
<1>1. /\ RestInOrder(s, readers[s]) /\ pc[s] = "retry"
      /\ send_session_id[s] \in 0 .. MaxRequests
  BY NothingRead DEF RetryTimer, TypeInv, SendTypeOK
<1>2. CASE send_status[s] = "kWaiting"
  <2>1. /\ Begin(s, RequestSend(s), readers[s])
        /\ pc' = [pc EXCEPT ![s] = "request"] /\ UNCHANGED <<conn, cancel>>
    BY <1>2 DEF RetryTimer
  <2>2. RequestSend(s) \in Request /\ RequestSend(s).type # "cancel-send"
    BY DEF Request, RequestSend
  <2>3. pc'[s] = "request" /\ \A t \in Sender \ {s} : pc'[t] = pc[t]
    BY <2>1 DEF TypeInv, SendTypeOK
  <2> QED BY <1>1, <2>1, <2>2, <2>3, BeginAligned
<1>3. CASE send_status[s] # "kWaiting"
  <2>1. Head(todo[s]) \in File
    BY <1>1, CurrentFileType DEF CurrentFile
  <2> QED BY <1>1, <1>3, <2>1, StartFileAligned DEF RetryTimer, Accepted
<1> QED BY <1>2, <1>3

LEMMA EndingAligned ==
  ASSUME TypeInv, NEW s \in Sender, NEW ans, EndingAnswer(s, ans),
         \A t \in Sender \ {s} : to_client'[t] = to_client[t]
  PROVE  LinkInOrder(s)
BY FinishInOrder DEF EndingAnswer

LEMMA ChunkAligned ==
  ASSUME TypeInv, ReadersInv, NEW s \in Sender, NEW ans, ChunkAnswer(s, ans)
  PROVE  LinkInOrder(s)
<1>1. pc[s] = "chunk" /\ Resume(s, "start", ans)
  BY DEF ChunkAnswer
<1>2. /\ \A t \in Sender \ {s} : to_client'[t] = to_client[t]
      /\ ans.code # "error" => RestInOrder(s, Tail(readers[s]))
  BY <1>1, ResumedInOrder
<1>3. CASE EndingAnswer(s, ans)
  BY <1>2, <1>3, EndingAligned
<1>4. CASE /\ ans.code = "200"
           /\ Continue(s, Head(todo[s]), chunk[s] + 1, send_session_id[s],
                       tokens[s], Tail(readers[s]))
           /\ UNCHANGED <<conn, cancel>>
  <2>1. /\ Head(todo[s]) \in File /\ chunk[s] + 1 \in Nat
        /\ send_session_id[s] \in 0 .. MaxRequests
    BY <1>1, CurrentFileType DEF CurrentFile, TypeInv, SendTypeOK
  <2> QED BY <1>2, <1>4, <2>1, ContinueAligned
<1> QED BY <1>3, <1>4 DEF ChunkAnswer

LEMMA VerifyAligned ==
  ASSUME TypeInv, ReadersInv, NEW s \in Sender, NEW ans, VerifyAnswer(s, ans)
  PROVE  LinkInOrder(s)
<1>1. pc[s] = "verify" /\ Resume(s, "start", ans)
  BY DEF VerifyAnswer
<1>2. /\ \A t \in Sender \ {s} : to_client'[t] = to_client[t]
      /\ ans.code # "error" => RestInOrder(s, Tail(readers[s]))
  BY <1>1, ResumedInOrder
<1>3. CASE EndingAnswer(s, ans)
  BY <1>2, <1>3, EndingAligned
<1>4. ASSUME NEW feedbacks, Tail(todo[s]) # <<>>, ans.code = "200",
             StartFile(s, Head(Tail(todo[s])), send_session_id[s], tokens[s],
                       Tail(readers[s]), feedbacks)
      PROVE  LinkInOrder(s)
  <2>1. todo[s] \in Seq(File) /\ todo[s] # <<>> /\ send_session_id[s] \in 0 .. MaxRequests
    BY <1>1 DEF TypeInv, SendTypeOK, HasFile
  <2>2. Tail(todo[s]) \in Seq(File)
    BY <2>1
  <2>3. Head(Tail(todo[s])) \in File
    BY <1>4, <2>2
  <2> QED BY <1>2, <1>4, <2>1, <2>3, StartFileAligned
<1>5. ASSUME NEW status, NEW feedbacks, Finish(s, status, feedbacks)
      PROVE  LinkInOrder(s)
  BY <1>2, <1>5, FinishInOrder
<1> QED BY <1>3, <1>4, <1>5 DEF VerifyAnswer

LEMMA WriteEndsAligned ==
  ASSUME TypeInv, ReadersInv, NEW s \in Sender, WriteEnds(s)
  PROVE  LinkInOrder(s)
<1>1. /\ pc[s] \in {"request", "chunk"} /\ writing[s] \in {"part", "both"}
      /\ Issue(s, "start", Current(s), readers[s])
      /\ Current(s) \in Request /\ Current(s).type # "cancel-send"
      /\ UNCHANGED <<pc, cancel, conn, to_client>>
  BY CurrentType DEF WriteEnds, main_vars, Current, RequestSend, SendChunk
<1>2. /\ readers'[s] = Append(readers[s], "start")
      /\ conn[s] = "up" => to_server'[s] = Append(to_server[s], Current(s))
      /\ writing'[s] = IF writing[s] = "both" THEN "torn" ELSE "no"
      /\ \A t \in Sender \ {s} : Apart(t)
      /\ Cancelling(s)' = Cancelling(s) /\ Cancelling(s) \in BOOLEAN
  BY <1>1 DEF WriteEnds, Issue, Apart, Cancelling, TypeInv, SendTypeOK
<1>3. StartReads(s)' = TRUE /\ StartReads(s) = FALSE
  BY <1>1, <1>2 DEF StartReads
<1>4. readers'[s] \in Reads(TRUE, Cancelling(s))
  BY <1>1, <1>2, <1>3, ReadsAppend DEF ReadersInv, Aligned
<1>5. CASE writing[s] = "part"
  <2>1. /\ Answered(readers[s], to_client[s])
        /\ conn[s] = "up" => Due(readers[s], to_client[s], to_server[s])
        /\ readers[s] \in Seq(Reader) /\ to_client[s] \in Seq(Response)
        /\ to_client'[s] = to_client[s]
    BY <1>1, <1>5 DEF ReadersInv, Aligned, TypeInv, SendTypeOK, Reader
  <2>2. "start" \in Reader /\ IsCancel("start", Current(s).type)
    BY <1>1 DEF Reader, IsCancel
  <2>3. /\ Answered(readers'[s], to_client'[s])
        /\ conn[s] = "up" => Due(readers'[s], to_client'[s], to_server'[s])
    BY <1>1, <2>1, <2>2, IssueAligned
  <2> QED BY <1>1, <1>2, <1>3, <1>4, <1>5, <2>3 DEF LinkInOrder, Aligned
<1>6. CASE writing[s] = "both"
  <2>1. Both(s) /\ cancel[s] # "none"
    BY <1>1, <1>6 DEF ReadersInv, Aligned
  <2>2. conn[s] = "up" => /\ Len(to_server'[s]) = 1
                          /\ to_server'[s][1].type # "cancel-send"
    <3>1. Len(Append(<<>>, Current(s))) = 1 /\ Append(<<>>, Current(s))[1] = Current(s)
      BY <1>1, AppendEmpty
    <3>2. conn[s] = "up" => to_server[s] = <<>>
      BY <2>1 DEF Both
    <3> QED BY <1>1, <1>2, <3>1, <3>2
  <2>3. Cancelling(s) => readers'[s] = <<"cancel", "start">>
    <3>1. Cancelling(s) => readers[s] = <<"cancel">>
      BY <1>1, <1>3 DEF ReadersInv, Aligned, Reads
    <3> QED BY <1>2, <3>1, AppendOne DEF Reader
  <2>4. Torn(s)'
    BY <1>1, <1>2, <2>1, <2>2, <2>3 DEF Both, Torn
  <2> QED BY <1>1, <1>2, <1>3, <1>4, <1>6, <2>1, <2>4 DEF LinkInOrder, Aligned
<1> QED BY <1>1, <1>5, <1>6

LEMMA CancelAnswerAligned ==
  ASSUME TypeInv, ReadersInv, NEW s \in Sender, NEW ans, CancelAnswer(s, ans)
  PROVE  LinkInOrder(s)
<1>1. /\ Resume(s, "cancel", ans) /\ UNCHANGED <<pc, conn, writing, to_server>>
      /\ readers' = [readers EXCEPT ![s] = Tail(@)]
      /\ cancel[s] = "await" /\ cancel' = [cancel EXCEPT ![s] = "done"]
      /\ readers[s] # <<>> /\ Head(readers[s]) = "cancel"
  BY DEF CancelAnswer, Resume
<1>2. pc[s] # "done" /\ pc[s] # "connect"
  BY <1>1 DEF ReadersInv, Aligned
<1>3. /\ readers'[s] = Tail(readers[s]) /\ cancel'[s] = "done"
      /\ Cancelling(s) = TRUE /\ Cancelling(s)' = FALSE
      /\ StartReads(s)' = StartReads(s) /\ StartReads(s) \in BOOLEAN
      /\ readers[s] \in Reads(StartReads(s), TRUE)
      /\ \A t \in Sender \ {s} : Apart(t)
  <2>1. \A t \in Sender \ {s} : to_client'[t] = to_client[t]
    BY <1>1 DEF Resume, TypeInv, SendTypeOK
  <2>2. /\ readers'[s] = Tail(readers[s]) /\ cancel'[s] = "done"
        /\ \A t \in Sender \ {s} : readers'[t] = readers[t] /\ cancel'[t] = cancel[t]
    BY <1>1 DEF TypeInv, SendTypeOK
  <2> QED BY <1>1, <1>2, <2>1, <2>2 DEF Cancelling, StartReads, ReadersInv, Aligned, Apart
<1>4. readers'[s] \in Reads(StartReads(s), FALSE)
  BY <1>1, <1>3, ReadsTail
<1>5. /\ readers[s] \in Seq(Reader) /\ to_client[s] \in Seq(Response)
      /\ to_server[s] \in Seq(Request) /\ writing[s] \in Writing
  BY DEF TypeInv, SendTypeOK, Reader
<1>6. \/ to_client[s] # <<>> /\ to_client'[s] = Tail(to_client[s])
      \/ to_client[s] = <<>> /\ to_client'[s] = <<>> /\ conn[s] # "up"
  BY <1>1 DEF Resume, TypeInv, SendTypeOK
<1>7. CASE writing[s] \in {"no", "part"}
  <2>1. /\ Answered(readers[s], to_client[s])
        /\ conn[s] = "up" => Due(readers[s], to_client[s], to_server[s])
    BY <1>2, <1>7 DEF ReadersInv, Aligned
  <2>2. /\ Answered(Tail(readers[s]), to_client'[s])
        /\ conn[s] = "up" => Due(Tail(readers[s]), to_client'[s], to_server[s])
    <3>1. CASE to_client[s] # <<>>
      BY <1>5, <1>6, <2>1, <3>1, AlignedResume
    <3>2. CASE to_client[s] = <<>>
      BY <1>1, <1>5, <1>6, <3>2 DEF Answered
    <3> QED BY <3>1, <3>2
  <2>3. writing[s] # "no" => pc[s] \in {"request", "chunk"}
    BY <1>2 DEF ReadersInv, Aligned
  <2> QED BY <1>1, <1>2, <1>3, <1>4, <1>7, <2>2, <2>3 DEF LinkInOrder, Aligned
<1>8. CASE writing[s] = "both"
  <2>1. to_client[s] = <<>> /\ pc[s] \in {"request", "chunk"}
    BY <1>2, <1>8 DEF ReadersInv, Aligned, Both
  <2>2. Both(s)'
    BY <1>1, <1>6, <2>1, Zenon DEF Both
  <2> QED BY <1>1, <1>2, <1>3, <1>4, <1>8, <2>1, <2>2 DEF LinkInOrder, Aligned
<1>9. CASE writing[s] = "torn"
  <2>1. Torn(s) /\ pc[s] \in {"request", "chunk"}
    BY <1>2, <1>9 DEF ReadersInv, Aligned
  <2>2. to_client'[s] = <<>> /\ conn[s] # "up"
    <3>1. CASE to_client[s] # <<>>
      <4>1. Len(to_client[s]) = 1 /\ conn[s] # "up"
        BY <2>1, <3>1 DEF Torn
      <4>2. Tail(to_client[s]) = <<>>
        <5>1. Tail(to_client[s]) \in Seq(Response) /\ Len(Tail(to_client[s])) = 0
          BY <1>5, <3>1, <4>1
        <5> QED BY <5>1, EmptySeq
      <4> QED BY <1>6, <3>1, <4>1, <4>2
    <3> QED BY <1>6, <3>1
  <2>3. Torn(s)'
    BY <1>1, <1>3, <2>2 DEF Torn
  <2> QED BY <1>1, <1>2, <1>3, <1>4, <1>9, <2>1, <2>3 DEF LinkInOrder, Aligned
<1> QED BY <1>5, <1>7, <1>8, <1>9 DEF Writing

LEMMA CancelAligned ==
  ASSUME TypeInv, ReadersInv, NEW s \in Sender, Cancel(s)
  PROVE  LinkInOrder(s)
<1> DEFINE req == CancelSend(send_session_id[s])
<1>1. /\ pc[s] \in {"request", "retry", "chunk", "verify"}
      /\ cancel[s] = "none" /\ cancel' = [cancel EXCEPT ![s] = "await"]
      /\ UNCHANGED <<pc, conn, to_client>>
  BY DEF Cancel, main_vars
<1>2. /\ "cancel" \in Reader /\ req \in Request /\ IsCancel("cancel", req.type)
  BY DEF Reader, Request, CancelSend, IsCancel, TypeInv, SendTypeOK
<1>3. /\ cancel'[s] = "await" /\ \A t \in Sender \ {s} : cancel'[t] = cancel[t]
      /\ Cancelling(s) = FALSE /\ Cancelling(s)' = TRUE
  BY <1>1 DEF Cancelling, TypeInv, SendTypeOK
<1>4. /\ readers[s] \in Reads(StartReads(s), FALSE) /\ writing[s] \in {"no", "part"}
      /\ Answered(readers[s], to_client[s])
      /\ conn[s] = "up" => Due(readers[s], to_client[s], to_server[s])
      /\ StartReads(s) \in BOOLEAN
  BY <1>1, <1>3 DEF ReadersInv, Aligned, StartReads, Writing, TypeInv, SendTypeOK
<1>5. /\ readers[s] \in Seq(Reader) /\ to_client[s] \in Seq(Response)
      /\ to_server[s] \in Seq(Request)
  BY DEF TypeInv, SendTypeOK, Reader
<1>6. CASE Issue(s, "cancel", req, readers[s]) /\ UNCHANGED writing /\ writing[s] = "no"
  <2> HIDE DEF req
  <2>1. /\ Answered(readers'[s], to_client'[s])
        /\ conn[s] = "up" => Due(readers'[s], to_client'[s], to_server'[s])
        /\ readers'[s] = Append(readers[s], "cancel")
        /\ \A t \in Sender \ {s} : /\ to_server'[t] = to_server[t]
                                   /\ readers'[t] = readers[t]
    <3>1. /\ to_client'[s] \in Seq(Response) /\ Answered(readers[s], to_client'[s])
          /\ conn[s] = "up" => Due(readers[s], to_client'[s], to_server[s])
      BY <1>1, <1>4, <1>5
    <3> QED BY <1>2, <1>5, <1>6, <3>1, IssueAligned
  <2>2. readers'[s] \in Reads(StartReads(s), TRUE) /\ StartReads(s)' = StartReads(s)
    BY <1>1, <1>4, <1>6, <2>1, ReadsAppend DEF StartReads
  <2> QED BY <1>1, <1>3, <1>6, <2>1, <2>2 DEF LinkInOrder, Apart, Aligned
<1>7. CASE /\ writing[s] = "part"
           /\ writing' = [writing EXCEPT ![s] = "both"]
           /\ readers' = [readers EXCEPT ![s] = Append(@, "cancel")]
           /\ UNCHANGED to_server
  <2>1. /\ writing'[s] = "both" /\ readers'[s] = Append(readers[s], "cancel")
        /\ \A t \in Sender \ {s} : writing'[t] = writing[t] /\ readers'[t] = readers[t]
    BY <1>7 DEF TypeInv, SendTypeOK
  <2>2. /\ StartReads(s) = FALSE /\ StartReads(s)' = FALSE
        /\ pc[s] \in {"request", "chunk"}
    BY <1>1, <1>7, <2>1 DEF StartReads, ReadersInv, Aligned
  <2>3. readers[s] = <<>> /\ readers'[s] \in Reads(FALSE, TRUE)
    BY <1>4, <2>1, <2>2, ReadsAppend DEF Reads
  <2>4. to_client[s] = <<>> /\ (conn[s] = "up" => to_server[s] = <<>>)
    <3>1. Len(readers[s]) = 0
      BY <2>3
    <3>2. Len(to_client[s]) = 0
      BY <1>4, <1>5, <3>1 DEF Answered
    <3>3. conn[s] = "up" => Len(to_server[s]) = 0
      BY <1>4, <1>5, <3>1, <3>2 DEF Due
    <3> QED BY <1>5, <3>2, <3>3
  <2>5. Both(s)'
    BY <1>1, <1>3, <1>7, <2>4 DEF Both
  <2> QED BY <1>1, <1>3, <1>7, <2>1, <2>2, <2>3, <2>5 DEF LinkInOrder, Apart, Aligned
<1> QED BY <1>4, <1>6, <1>7 DEF Cancel

LEMMA BreakAligned ==
  ASSUME TypeInv, ReadersInv, NEW s \in Sender, Break(s)
  PROVE  LinkInOrder(s)
<1>1. /\ conn[s] \in {"up", "astray", "half"}
      /\ UNCHANGED <<pc, cancel, writing, readers>>
      /\ conn' = [conn EXCEPT ![s] = Disconnect(@)]
  BY DEF Break, main_vars
<1>2. conn'[s] # "up"
  BY <1>1 DEF Disconnect, TypeInv, SendTypeOK
<1>3. /\ to_client'[s] \in {to_client[s], <<>>}
      /\ \A t \in Sender \ {s} : Apart(t)
  BY <1>1 DEF Break, TypeInv, SendTypeOK, Apart
<1>4. /\ Answered(readers[s], to_client[s]) => Answered(readers[s], to_client'[s])
      /\ Both(s) => Both(s)'
      /\ Torn(s) => Torn(s)'
  <2>1. readers[s] \in Seq({"start", "cancel"})
    BY DEF TypeInv, SendTypeOK
  <2>2. Answered(readers[s], <<>>)
    BY <2>1 DEF Answered
  <2> QED BY <1>1, <1>2, <1>3, <2>2 DEF Both, Torn, Cancelling
<1>5. pc[s] # "connect"
  BY <1>1 DEF ReadersInv, Aligned
<1>6. StartReads(s)' = StartReads(s) /\ Cancelling(s)' = Cancelling(s)
  BY <1>1 DEF StartReads, Cancelling
<1>7. Aligned(s)
  BY DEF ReadersInv
<1> QED BY <1>1, <1>2, <1>3, <1>4, <1>5, <1>6, <1>7 DEF LinkInOrder, Aligned

LEMMA ServerAligned ==
  ASSUME TypeInv, ReadersInv, NEW s \in Sender, ServerAnswers(s)
  PROVE  LinkInOrder(s)
<1>1. PICK ans \in Response :
        /\ ans.to = Head(to_server[s]).type /\ Reply(s, ans)
        /\ writing[s] = "torn" => ans.code \in TornCodes
  BY AnyAnswer
<1>2. /\ conn[s] = "up" /\ to_server[s] # <<>>
      /\ UNCHANGED <<pc, cancel, writing, readers>>
  BY <1>1 DEF ServerAnswers, main_vars, Reply
<1>3. /\ pc[s] \notin {"connect", "done"}
      /\ readers[s] \in Seq(Reader) /\ to_client[s] \in Seq(Response)
      /\ to_server[s] \in Seq(Request) /\ writing[s] \in Writing
      /\ StartReads(s)' = StartReads(s) /\ Cancelling(s)' = Cancelling(s)
  BY <1>2 DEF ReadersInv, Aligned, TypeInv, SendTypeOK, Reader, StartReads, Cancelling
<1>4. /\ to_client'[s] = Append(to_client[s], ans)
      /\ \/ to_server'[s] = Tail(to_server[s]) /\ conn'[s] = "up"
         \/ conn'[s] # "up"
      /\ writing[s] = "torn" => conn'[s] # "up"
      /\ \A t \in Sender \ {s} : Apart(t)
  BY <1>1, <1>2 DEF Reply, TypeInv, SendTypeOK, Apart
<1>5. Aligned(s)
  BY DEF ReadersInv
<1>6. CASE writing[s] \in {"no", "part"}
  <2>1. /\ Answered(readers[s], Append(to_client[s], ans))
        /\ Due(readers[s], Append(to_client[s], ans), Tail(to_server[s]))
    BY <1>1, <1>2, <1>3, <1>5, <1>6, AlignedReply DEF Aligned
  <2> QED BY <1>2, <1>3, <1>4, <1>5, <1>6, <2>1 DEF LinkInOrder, Aligned
<1>7. CASE writing[s] = "both"
  BY <1>2, <1>3, <1>5, <1>7 DEF Aligned, Both
<1>8. CASE writing[s] = "torn"
  <2>1. to_client[s] = <<>> /\ Cancelling(s)
    BY <1>2, <1>3, <1>5, <1>8 DEF Aligned, Torn
  <2>2. Len(to_client'[s]) = 1 /\ to_client'[s][1] = ans
    BY <1>4, <2>1, AppendEmpty
  <2>3. readers'[s] = <<"cancel", "start">>
    BY <1>2, <1>3, <1>5, <1>8, <2>1 DEF Aligned, Torn
  <2>4. Torn(s)'
    BY <1>1, <1>3, <1>4, <1>8, <2>1, <2>2, <2>3 DEF Torn
  <2> QED BY <1>2, <1>3, <1>4, <1>5, <1>8, <2>4 DEF LinkInOrder, Aligned
<1> QED BY <1>3, <1>6, <1>7, <1>8 DEF Writing

LEMMA ClosesAligned ==
  ASSUME TypeInv, ReadersInv, NEW s \in Sender, ServerCloses(s)
  PROVE  LinkInOrder(s)
<1>1. /\ conn[s] # "up" /\ conn'[s] # "up" /\ conn[s] # "none"
      /\ UNCHANGED <<pc, cancel, writing, to_server, to_client, readers>>
      /\ \A t \in Sender \ {s} : Apart(t)
  BY DEF ServerCloses, main_vars, Apart, TypeInv, SendTypeOK
<1>2. Aligned(s)
  BY DEF ReadersInv
<1>3. StartReads(s)' = StartReads(s) /\ Cancelling(s)' = Cancelling(s)
  BY <1>1 DEF StartReads, Cancelling
<1> QED BY <1>1, <1>2, <1>3 DEF LinkInOrder, Aligned, Both, Torn

LEMMA ReadersStep == TypeInv /\ ReadersInv /\ [SendNext \/ AllDone]_send_vars => ReadersInv'
<1> SUFFICES ASSUME TypeInv, ReadersInv, [SendNext \/ AllDone]_send_vars PROVE ReadersInv'
  OBVIOUS
<1>1. ASSUME NEW s \in Sender, LinkInOrder(s) PROVE ReadersInv'
  <2> SUFFICES ASSUME NEW t \in Sender \ {s} PROVE Aligned(t)'
    BY <1>1 DEF LinkInOrder, ReadersInv
  <2>1. Apart(t) /\ Aligned(t)
    BY <1>1 DEF LinkInOrder, ReadersInv
  <2> QED BY <2>1 DEF Apart, Aligned, StartReads, Cancelling, Both, Torn
<1>2. ASSUME NEW s \in Sender, SenderStep(s) PROVE LinkInOrder(s)
  BY <1>2, ConnectAligned, RetryAligned, WriteEndsAligned, RequestAligned, ChunkAligned,
     VerifyAligned, CancelAnswerAligned DEF SenderStep
<1>3. CASE UNCHANGED send_vars
  BY <1>3 DEF send_vars, main_vars, net_vars, ReadersInv, Aligned, StartReads, Cancelling,
              Both, Torn
<1> QED
  BY <1>1, <1>2, <1>3, CancelAligned, BreakAligned, ServerAligned, ClosesAligned
     DEF SendNext, AllDone

LEMMA ReadersGetTheirs == TypeInv /\ ReadersInv => AnswersReachTheirReader
<1> SUFFICES ASSUME TypeInv, ReadersInv, NEW s \in Sender
             PROVE  /\ conn[s] = "up" /\ writing[s] \notin {"both", "torn"} =>
                         Len(readers[s]) = Len(to_client[s]) + Len(to_server[s])
                    /\ \A i \in DOMAIN readers[s] \cap DOMAIN to_client[s] :
                         to_client[s][i].code = "200"
                             \/ writing[s] \notin {"both", "torn"} =>
                           (readers[s][i] = "cancel" <=>
                              to_client[s][i].to = "cancel-send")
  BY DEF AnswersReachTheirReader
<1>1. /\ readers[s] \in Seq(Reader) /\ to_client[s] \in Seq(Response)
      /\ writing[s] \in Writing
  BY DEF TypeInv, SendTypeOK, Reader
<1>2. CASE pc[s] = "done"
  <2>1. conn[s] # "up" /\ readers[s] = <<>>
    BY <1>2 DEF ReadersInv, Aligned
  <2>2. DOMAIN readers[s] = {}
    BY <2>1
  <2> QED BY <2>1, <2>2
<1>3. CASE pc[s] # "done" /\ writing[s] \in {"no", "part"}
  <2>1. /\ Answered(readers[s], to_client[s])
        /\ conn[s] = "up" => Due(readers[s], to_client[s], to_server[s])
    BY <1>3 DEF ReadersInv, Aligned
  <2>2. conn[s] = "up" => Len(readers[s]) = Len(to_client[s]) + Len(to_server[s])
    BY <2>1 DEF Due
  <2>3. ASSUME NEW i \in DOMAIN readers[s] \cap DOMAIN to_client[s]
        PROVE  readers[s][i] = "cancel" <=> to_client[s][i].to = "cancel-send"
    <3>1. i \in 1 .. Len(to_client[s])
      BY <1>1
    <3> QED BY <2>1, <3>1 DEF Answered, IsCancel
  <2> QED BY <2>2, <2>3
<1>4. CASE pc[s] # "done" /\ writing[s] \in {"both", "torn"}
  <2>1. \A i \in DOMAIN to_client[s] : to_client[s][i].code \in TornCodes
    BY <1>1, <1>4 DEF ReadersInv, Aligned, Both, Torn
  <2> QED BY <1>4, <2>1 DEF TornCodes
<1> QED BY <1>1, <1>2, <1>3, <1>4 DEF Writing

LEMMA ReadersInit == SendInit => ReadersInv
<1> SUFFICES ASSUME SendInit, NEW s \in Sender PROVE Aligned(s)
  BY DEF ReadersInv
<1>1. /\ pc[s] = "connect" /\ conn[s] = "none" /\ to_client[s] = <<>>
      /\ to_server[s] = <<>>
      /\ readers[s] = <<>> /\ cancel[s] = "none" /\ writing[s] = "no"
  BY DEF SendInit
<1>2. Answered(<<>>, <<>>) /\ <<>> \in Reads(FALSE, FALSE)
  BY DEF Answered, Reads
<1>3. StartReads(s) = FALSE /\ Cancelling(s) = FALSE
  BY <1>1 DEF StartReads, Cancelling
<1> QED BY <1>1, <1>2, <1>3 DEF Aligned

\* Start and cancelSend read the answers to their own requests, but for the one
\* refusal of a request that a cancel has torn: whatever the receiver answers,
\* wherever the connection breaks and whenever the user cancels, between two
\* records of a request included.
THEOREM ReadersAgree == SendSpec => []AnswersReachTheirReader
BY ReadersInit, TypeInit, TypeStep, ReadersStep, ReadersGetTheirs, PTL DEF SendSpec

-----------------------------------------------------------------------------
\* Messages in flight on one side of a connection.

Items(q) == {q[i] : i \in DOMAIN q}

LEMMA ItemsTail ==
  ASSUME NEW S, NEW q \in Seq(S), q # <<>>
  PROVE  Head(q) \in Items(q) /\ Items(Tail(q)) \subseteq Items(q)
<1>1. 1 \in DOMAIN q /\ Head(q) = q[1]
  OBVIOUS
<1>2. \A i \in DOMAIN Tail(q) : i + 1 \in DOMAIN q /\ Tail(q)[i] = q[i + 1]
  OBVIOUS
<1> QED BY <1>1, <1>2 DEF Items

LEMMA ItemsAppend ==
  ASSUME NEW S, NEW q \in Seq(S), NEW x \in S
  PROVE  Items(Append(q, x)) = Items(q) \cup {x}
<1> DEFINE a == Append(q, x)
           n == Len(q)
<1>1. /\ n \in Nat /\ DOMAIN q = 1 .. n /\ DOMAIN a = 1 .. n + 1 /\ a[n + 1] = x
      /\ \A i \in 1 .. n : a[i] = q[i]
  OBVIOUS
<1> HIDE DEF a, n
<1>2. \A i \in 1 .. n + 1 : i \in 1 .. n \/ i = n + 1
  BY <1>1
<1>3. n + 1 \in 1 .. n + 1 /\ \A i \in 1 .. n : i \in 1 .. n + 1
  BY <1>1
<1>4. Items(a) = Items(q) \cup {x}
  BY <1>1, <1>2, <1>3 DEF Items
<1> QED BY <1>4 DEF a

LEMMA ItemsNone == Items(<<>>) = {}
BY DEF Items

\* The requests of Start, and the answers to them.
NoneAsked(q) == \A r \in Items(q) : r.type = "cancel-send"
OneAsked(q)  == \A i, j \in DOMAIN q :
                  q[i].type # "cancel-send" /\ q[j].type # "cancel-send" => i = j

NoneAnswered(q) == \A a \in Items(q) : a.to = "cancel-send"
OneAnswered(q)  == \A i, j \in DOMAIN q :
                     q[i].to # "cancel-send" /\ q[j].to # "cancel-send" => i = j

LEMMA AskedTail ==
  ASSUME NEW q \in Seq(Request), q # <<>>, OneAsked(q)
  PROVE  /\ OneAsked(Tail(q))
         /\ Head(q).type # "cancel-send" => NoneAsked(Tail(q))
<1>1. 1 \in DOMAIN q /\ Head(q) = q[1]
  OBVIOUS
<1>2. \A i \in DOMAIN Tail(q) : i + 1 \in DOMAIN q /\ Tail(q)[i] = q[i + 1] /\ i + 1 # 1 /\ i \in Nat
  OBVIOUS
<1>3. \A i, j \in DOMAIN Tail(q) : i + 1 = j + 1 => i = j
  BY <1>2
<1>4. OneAsked(Tail(q))
  BY <1>2, <1>3 DEF OneAsked
<1>5. ASSUME q[1].type # "cancel-send" PROVE NoneAsked(Tail(q))
  BY <1>1, <1>2, <1>5 DEF OneAsked, NoneAsked, Items
<1> QED BY <1>1, <1>4, <1>5

LEMMA AnsweredTail ==
  ASSUME NEW q \in Seq(Response), q # <<>>, OneAnswered(q)
  PROVE  /\ OneAnswered(Tail(q))
         /\ Head(q).to # "cancel-send" => NoneAnswered(Tail(q))
<1>1. 1 \in DOMAIN q /\ Head(q) = q[1]
  OBVIOUS
<1>2. \A i \in DOMAIN Tail(q) : i + 1 \in DOMAIN q /\ Tail(q)[i] = q[i + 1] /\ i + 1 # 1 /\ i \in Nat
  OBVIOUS
<1>3. \A i, j \in DOMAIN Tail(q) : i + 1 = j + 1 => i = j
  BY <1>2
<1>4. OneAnswered(Tail(q))
  BY <1>2, <1>3 DEF OneAnswered
<1>5. ASSUME q[1].to # "cancel-send" PROVE NoneAnswered(Tail(q))
  BY <1>1, <1>2, <1>5 DEF OneAnswered, NoneAnswered, Items
<1> QED BY <1>1, <1>4, <1>5

LEMMA AskedAppend ==
  ASSUME NEW q \in Seq(Request), NEW x \in Request, OneAsked(q),
         NoneAsked(q) \/ x.type = "cancel-send"
  PROVE  OneAsked(Append(q, x))
<1> DEFINE a == Append(q, x)
           n == Len(q)
<1>1. /\ n \in Nat /\ DOMAIN q = 1 .. n /\ DOMAIN a = 1 .. n + 1 /\ a[n + 1] = x
      /\ \A i \in 1 .. n : a[i] = q[i]
  OBVIOUS
<1> HIDE DEF a, n
<1>2. \A i \in 1 .. n + 1 : i \in 1 .. n \/ i = n + 1
  BY <1>1
<1>3. OneAsked(a)
  BY <1>1, <1>2 DEF OneAsked, NoneAsked, Items
<1> QED BY <1>3 DEF a

LEMMA AnsweredAppend ==
  ASSUME NEW q \in Seq(Response), NEW x \in Response, OneAnswered(q),
         NoneAnswered(q) \/ x.to = "cancel-send"
  PROVE  OneAnswered(Append(q, x))
<1> DEFINE a == Append(q, x)
           n == Len(q)
<1>1. /\ n \in Nat /\ DOMAIN q = 1 .. n /\ DOMAIN a = 1 .. n + 1 /\ a[n + 1] = x
      /\ \A i \in 1 .. n : a[i] = q[i]
  OBVIOUS
<1> HIDE DEF a, n
<1>2. \A i \in 1 .. n + 1 : i \in 1 .. n \/ i = n + 1
  BY <1>1
<1>3. OneAnswered(a)
  BY <1>1, <1>2 DEF OneAnswered, NoneAnswered, Items
<1> QED BY <1>3 DEF a

-----------------------------------------------------------------------------
\* The inductive invariant: the receiver's side.

SessionOf(s) == {n \in 1 .. MaxRequests : accepted[n] = FilesIn(s)}
MineOpen(s)  == session_id # 0 /\ sender = s

\* Every session is that of one sender, and has all its files.
Owner ==
  /\ ~wait_condition /\ \A s \in Sender : waiting[s] = 0
  /\ session_id # 0 => sender \in Sender /\ accepted[session_id] = FilesIn(sender)
  /\ \A n \in 1 .. MaxRequests :
       accepted[n] # {} => \E s \in Sender : accepted[n] = FilesIn(s)
  /\ \A m, n \in 1 .. MaxRequests : accepted[m] = accepted[n] /\ accepted[m] # {} => m = n

\* The only temporary file is the one its sender is at, which is not saved.
OnePart ==
  /\ parts \cap saved = {}
  /\ session_id = 0 => parts = {}
  /\ session_id # 0 => \A f \in parts : todo[sender] # <<>> /\ f = Head(todo[sender])

-----------------------------------------------------------------------------
\* The inductive invariant: one sender and its connection.

\* What Start waits for.
Awaits(p, type) ==
  \/ p = "request" /\ type = "request-send"
  \/ p = "chunk" /\ type = "send-chunk"
  \/ p = "verify" /\ type = "verify-integrity"
  \/ p = "done"

\* At most one request of Start, or the answer to it, is in flight.
Flight(s) ==
  /\ OneAsked(to_server[s]) /\ OneAnswered(to_client[s])
  /\ NoneAsked(to_server[s]) \/ NoneAnswered(to_client[s])
  /\ \A r \in Items(to_server[s]) : r.type = "cancel-send" \/ Awaits(pc[s], r.type)
  /\ \A a \in Items(to_client[s]) : a.to = "cancel-send" \/ Awaits(pc[s], a.to)
  /\ writing[s] \in {"part", "both"} =>
       NoneAsked(to_server[s]) /\ NoneAnswered(to_client[s])

\* The session id of a sender is that of its session.
Named(s) ==
  /\ pc[s] = "connect" => SessionOf(s) = {}
  /\ send_session_id[s] # 0 => send_session_id[s] \in SessionOf(s)
  /\ pc[s] \in {"connect", "request", "retry"} => send_session_id[s] = 0
  /\ pc[s] \in {"request", "retry"} => send_status[s] \in {"kWaiting", "kCancelledBySender"}

Data == {"send-chunk", "verify-integrity"}

\* A chunk or a verification on its way is for the session in progress, and for
\* the file the sender is at; a cancel is for the sender's own session.
Asked(s, r) ==
  /\ r.type \in Data =>
       /\ MineOpen(s) /\ r.sid = send_session_id[s] /\ send_session_id[s] = session_id
       /\ todo[s] # <<>> /\ r.file = Head(todo[s])
       /\ r.type = "send-chunk" =>
            /\ r.index \in Chunks(r.file) /\ r.file \notin saved
            /\ pc[s] # "done" => r.index = chunk[s]
  /\ r.type = "cancel-send" /\ r.sid # 0 => r.sid \in SessionOf(s)

Asks(s) == \A r \in Items(to_server[s]) : Asked(s, r)

\* So is one that is being written.
MayChunk(s) ==
  /\ MineOpen(s) /\ send_session_id[s] # 0 /\ send_session_id[s] = session_id
  /\ todo[s] # <<>> /\ Head(todo[s]) \notin saved
  /\ chunk[s] \in Chunks(Head(todo[s]))

Begun(s) ==
  writing[s] \in {"part", "both"} /\ pc[s] = "chunk" /\ conn[s] = "up" => MayChunk(s)

\* No chunk is recorded that was not sent: the one that is being sent comes for
\* the first time.
Unsent(s) ==
  pc[s] # "done" /\ MineOpen(s) /\ todo[s] # <<>> =>
    /\ \A f \in Items(Tail(todo[s])) : received_chunks[f] = {}
    /\ \A k \in received_chunks[Head(todo[s])] :
         /\ pc[s] \in {"chunk", "verify"} /\ k <= chunk[s]
         /\ pc[s] = "chunk" /\ k = chunk[s] =>
              NoneAsked(to_server[s]) /\ writing[s] \notin {"part", "both"}

\* An answer on its way still says what is so: the session goes on, as long as
\* the connection does, the file is saved, or how the session ended.
Answers200(s, a) ==
  /\ a.to = "request-send" =>
       a.sid \in SessionOf(s) /\ (conn[s] = "up" => MineOpen(s) /\ a.sid = session_id)
  /\ a.to \in Data /\ conn[s] = "up" =>
       \/ a.to = "verify-integrity" /\ Tail(todo[s]) = <<>>
       \/ MineOpen(s) /\ send_session_id[s] = session_id
  /\ a.to = "verify-integrity" /\ pc[s] # "done" =>
       /\ Head(todo[s]) \in saved
       /\ Tail(todo[s]) = <<>> => outcome[send_session_id[s]] = "completed"

Told(s, a) ==
  /\ a.code = "200" => Answers200(s, a)
  /\ a.to \in Data => send_session_id[s] # 0
  /\ a.code = "403 receiver cancelled" =>
       a.to \in Data /\ outcome[send_session_id[s]] = "cancelled_by_receiver"

Tells(s) == \A a \in Items(to_client[s]) : Told(s, a)

\* A cancel that was answered has closed the connection.
CancelCloses(s) ==
  (\E a \in Items(to_client[s]) : a.to = "cancel-send") \/ send_status[s] = "kCancelledBySender"
    => conn[s] \in {"half", "gone"}

\* A cancel is confirmed when the session is over; and when it is over because
\* it was completed, the sender reads that first.
CancelLate(s) ==
  \A n \in SessionOf(s) :
    /\ outcome[n] = "open" =>
         \A a \in Items(to_client[s]) : ~(a.to = "cancel-send" /\ a.code = "200")
    /\ outcome[n] = "completed" /\ pc[s] # "done" =>
         /\ conn[s] = "up" => to_client[s] # <<>>
         /\ to_client[s] # <<>> =>
              Head(to_client[s]).to = "verify-integrity" /\ Tail(todo[s]) = <<>>
    /\ send_status[s] = "kCancelledBySender" => outcome[n] \notin {"open", "completed"}

\* How a sender ended, where the receiver decides it.
Verdict(s) ==
  /\ send_status[s] = "kCompleted" =>
       send_session_id[s] # 0 /\ outcome[send_session_id[s]] = "completed"
  /\ send_status[s] = "kCancelledByReceiver" =>
       send_session_id[s] # 0 /\ outcome[send_session_id[s]] = "cancelled_by_receiver"

\* The files before the current one are saved and those after it are not.
Work(s) ==
  /\ Items(todo[s]) \subseteq FilesIn(s)
  /\ FilesIn(s) \subseteq saved \cup Items(todo[s])
  /\ \A i, j \in DOMAIN todo[s] : todo[s][i] = todo[s][j] => i = j
  /\ todo[s] # <<>> => Items(Tail(todo[s])) \cap saved = {}
  /\ pc[s] \notin {"verify", "done"} => todo[s] # <<>> /\ Head(todo[s]) \notin saved

Link(s) ==
  /\ Flight(s) /\ Named(s) /\ Asks(s) /\ Begun(s) /\ Unsent(s) /\ Tells(s)
  /\ CancelCloses(s) /\ CancelLate(s) /\ Verdict(s) /\ Work(s)

Controller == IInv /\ Owner /\ OnePart
Senders    == TypeInv /\ ReadersInv

TInv == Controller /\ Senders /\ \A s \in Sender : Link(s)

-----------------------------------------------------------------------------
\* What a step of the server does to the receiver, for the sender it serves.

Ended == Outcomes \ {"none", "open"}

\* No file of another session is touched; a session in progress goes on as it was.
Idles ==
  /\ UNCHANGED <<session_id, accepted, outcome, saved, parts>>
  /\ session_id # 0 => UNCHANGED <<sender, received_chunks>>

Opens(s) ==
  /\ session_id = 0 /\ session_id' \in 1 .. MaxRequests
  /\ accepted[session_id'] = {} /\ outcome[session_id'] = "none"
  /\ accepted' = [accepted EXCEPT ![session_id'] = FilesIn(s)]
  /\ outcome' = [outcome EXCEPT ![session_id'] = "open"]
  /\ \A n \in 1 .. MaxRequests : FilesIn(s) \cap accepted[n] = {}
  /\ sender' = s /\ UNCHANGED <<saved, parts>>
  /\ \A f \in FilesIn(s) : received_chunks'[f] = {}

\* The current file is saved.
Saves(s) ==
  /\ todo[s] # <<>> /\ Head(todo[s]) \in FilesIn(s) \ saved
  /\ saved' = saved \cup {Head(todo[s])}

Grows(s) == saved' = saved \/ Saves(s)

\* A session is completed by its last file, and saves nothing when it ends in
\* another way.
Closes(s, how) ==
  IF how = "completed" THEN Saves(s) /\ Tail(todo[s]) = <<>> ELSE saved' = saved

Ends(s, how) ==
  /\ MineOpen(s) /\ how \in Ended
  /\ session_id' = 0 /\ parts' = {}
  /\ outcome' = [outcome EXCEPT ![session_id] = how]
  /\ accepted' = accepted /\ Closes(s, how)

Goes(s) ==
  /\ MineOpen(s) /\ UNCHANGED <<session_id, sender, accepted, outcome>>
  /\ saved' = saved \/ (Saves(s) /\ Tail(todo[s]) # <<>>)
  /\ \A f \in parts' : f \in parts \/ (todo[s] # <<>> /\ f = Head(todo[s]))
  /\ parts' \cap saved' = {}

\* Chunk i of the current file is recorded, if any is.
Stores(s, i) ==
  \A f \in File :
    \/ received_chunks'[f] = received_chunks[f]
    \/ f = Head(todo[s]) /\ received_chunks'[f] = received_chunks[f] \cup {i}

Handled(s) == Idles \/ Opens(s) \/ Goes(s) \/ \E how \in Ended : Ends(s, how)

LEMMA Growth ==
  ASSUME NEW s \in Sender
  PROVE  /\ Grows(s) => saved' = saved \/ (/\ todo[s] # <<>> /\ Head(todo[s]) \in FilesIn(s)
                                         /\ saved' = saved \cup {Head(todo[s])})
         /\ \A how : Ends(s, how) => Grows(s)
         /\ Handled(s) => Grows(s)
<1>1. \A how : Ends(s, how) => Grows(s)
  BY DEF Ends, Closes, Grows
<1> QED BY <1>1 DEF Handled, Idles, Opens, Goes, Grows, Saves

\* A sender's files are some, and no other sender's.
LEMMA OwnFiles ==
  ASSUME NEW s \in Sender
  PROVE  /\ FilesIn(s) # {} /\ FilesIn(s) \subseteq File
         /\ \A t \in Sender \ {s} : FilesIn(s) \cap FilesIn(t) = {} /\ FilesIn(t) # FilesIn(s)
<1>1. \A t \in Sender : FilesIn(t) # {} /\ FilesIn(t) \subseteq File
  <2>1. SUFFICES ASSUME NEW t \in Sender PROVE FilesIn(t) # {} /\ FilesIn(t) \subseteq File
    OBVIOUS
  <2>2. FilesOf[t] \in Seq(File) /\ FilesOf[t] # <<>>
    BY SendersOK
  <2>3. 1 \in DOMAIN FilesOf[t] /\ \A i \in DOMAIN FilesOf[t] : FilesOf[t][i] \in File
    BY <2>2
  <2> QED BY <2>3 DEF FilesIn
<1>2. \A t \in Sender \ {s} : FilesIn(s) \cap FilesIn(t) = {}
  BY FileIdsAreUnique
<1> QED BY <1>1, <1>2

LEMMA OwnerKeeps ==
  ASSUME Controller, NEW s \in Sender, Handled(s), UNCHANGED <<wait_condition, waiting>>
  PROVE  Owner'
<1>1. accepted \in [1 .. MaxRequests -> SUBSET File]
  BY DEF Controller, IInv, TypeOK
<1>2. CASE UNCHANGED <<session_id, accepted>> /\ (session_id # 0 => UNCHANGED sender)
  BY <1>2 DEF Controller, Owner
<1>3. CASE session_id' = 0 /\ accepted' = accepted
  BY <1>3 DEF Controller, Owner
<1>4. CASE Opens(s)
  <2> DEFINE n == session_id'
  <2>1. /\ n \in 1 .. MaxRequests /\ accepted[n] = {} /\ sender' = s
        /\ accepted' = [accepted EXCEPT ![n] = FilesIn(s)]
        /\ \A m \in 1 .. MaxRequests : FilesIn(s) \cap accepted[m] = {}
    BY <1>4 DEF Opens
  <2> HIDE DEF n
  <2>2. /\ accepted'[n] = FilesIn(s)
        /\ \A m \in 1 .. MaxRequests : m # n => accepted'[m] = accepted[m]
    BY <1>1, <2>1
  <2>3. \A m \in 1 .. MaxRequests : accepted[m] # FilesIn(s)
    BY <2>1, OwnFiles
  <2>4. \A m \in 1 .. MaxRequests :
          accepted'[m] # {} => \E t \in Sender : accepted'[m] = FilesIn(t)
    BY <2>2 DEF Controller, Owner
  <2>5. \A l, m \in 1 .. MaxRequests :
          accepted'[l] = accepted'[m] /\ accepted'[l] # {} => l = m
    BY <2>2, <2>3 DEF Controller, Owner
  <2> QED BY <2>1, <2>2, <2>4, <2>5 DEF Controller, Owner, n
<1> QED BY <1>2, <1>3, <1>4 DEF Handled, Idles, Goes, Ends

LEMMA OnePartKeeps ==
  ASSUME Controller, NEW s \in Sender, Handled(s), UNCHANGED todo
  PROVE  OnePart'
<1>1. CASE Idles
  BY <1>1 DEF Idles, Controller, OnePart
<1>2. CASE Opens(s)
  BY <1>2 DEF Opens, Controller, OnePart
<1>3. CASE Goes(s)
  BY <1>3 DEF Goes, MineOpen, Controller, OnePart
<1>4. CASE \E how \in Ended : Ends(s, how)
  BY <1>4 DEF Ends, OnePart
<1> QED BY <1>1, <1>2, <1>3, <1>4 DEF Handled

\* A session that is over stays as it ended, and a sender keeps its session.
LEMMA OutcomesStay ==
  ASSUME Controller, NEW s \in Sender, Handled(s)
  PROVE  /\ \A n \in 1 .. MaxRequests : outcome[n] \in Ended => outcome'[n] = outcome[n]
         /\ \A t \in Sender : SessionOf(t) \subseteq SessionOf(t)'
         /\ saved \subseteq saved'
<1>1. /\ accepted \in [1 .. MaxRequests -> SUBSET File]
      /\ outcome \in [1 .. MaxRequests -> Outcomes]
      /\ session_id # 0 => session_id \in 1 .. MaxRequests /\ outcome[session_id] = "open"
  BY DEF Controller, IInv, TypeOK, OneOpenSession
<1>2. CASE UNCHANGED <<accepted, outcome>> /\ Grows(s)
  BY <1>2, Growth DEF SessionOf
<1>3. CASE Opens(s)
  <2>1. \A t \in Sender : FilesIn(t) # {}
    BY OwnFiles
  <2> QED BY <1>1, <1>3, <2>1 DEF Opens, SessionOf, Ended
<1>4. ASSUME NEW how \in Ended, Ends(s, how)
      PROVE  /\ \A n \in 1 .. MaxRequests : outcome[n] \in Ended => outcome'[n] = outcome[n]
             /\ \A t \in Sender : SessionOf(t) \subseteq SessionOf(t)'
             /\ saved \subseteq saved'
  BY <1>1, <1>4, Growth DEF Ends, MineOpen, SessionOf, Ended
<1> QED BY <1>2, <1>3, <1>4 DEF Handled, Idles, Goes, Grows

\* What a step leaves to a sender it does not serve.
Spares(t) ==
  /\ MineOpen(t) => UNCHANGED <<session_id, sender, received_chunks>>
  /\ MineOpen(t)' => MineOpen(t)
  /\ SessionOf(t)' = SessionOf(t)
  /\ \A n \in SessionOf(t) : outcome'[n] = outcome[n]
  /\ saved \subseteq saved' /\ saved' \cap FilesIn(t) = saved \cap FilesIn(t)

LEMMA HandledSpares ==
  ASSUME Controller, NEW s \in Sender, Handled(s), NEW t \in Sender \ {s}
  PROVE  Spares(t)
<1>1. /\ accepted \in [1 .. MaxRequests -> SUBSET File]
      /\ outcome \in [1 .. MaxRequests -> Outcomes]
      /\ session_id # 0 => session_id \in 1 .. MaxRequests
  BY DEF Controller, IInv, TypeOK
<1>2. FilesIn(s) \cap FilesIn(t) = {} /\ FilesIn(s) # FilesIn(t) /\ FilesIn(t) # {}
  BY OwnFiles
<1>3. session_id # 0 => accepted[session_id] = FilesIn(sender)
  BY DEF Controller, Owner
<1>4. Grows(s) => saved \subseteq saved' /\ saved' \cap FilesIn(t) = saved \cap FilesIn(t)
  BY <1>2, Growth
<1>5. CASE Idles
  BY <1>4, <1>5 DEF Idles, Spares, SessionOf, MineOpen
<1>8. CASE Goes(s)
  BY <1>4, <1>8 DEF Goes, Grows, Spares, SessionOf, MineOpen
<1>6. CASE Opens(s)
  <2>1. SessionOf(t)' = SessionOf(t) /\ session_id' \notin SessionOf(t)
    BY <1>1, <1>2, <1>6 DEF Opens, SessionOf
  <2> QED BY <1>1, <1>6, <2>1 DEF Opens, Spares, MineOpen, SessionOf
<1>7. ASSUME NEW how \in Ended, Ends(s, how) PROVE Spares(t)
  <2>1. session_id \notin SessionOf(t) /\ ~MineOpen(t)
    BY <1>2, <1>3, <1>7 DEF Ends, MineOpen, SessionOf
  <2>2. \A n \in SessionOf(t) : outcome'[n] = outcome[n]
    BY <1>1, <1>7, <2>1 DEF Ends, SessionOf
  <2>3. ~MineOpen(t)' /\ SessionOf(t)' = SessionOf(t)
    BY <1>7 DEF Ends, MineOpen, SessionOf
  <2> QED BY <1>4, <1>7, <2>1, <2>2, <2>3, Growth DEF Spares
<1> QED BY <1>5, <1>6, <1>7, <1>8 DEF Handled


-----------------------------------------------------------------------------
\* The invariant holds before the first connection.
LEMMA WorkInit == ASSUME Init, SendInit, NEW s \in Sender PROVE Work(s)
<1> DEFINE q == FilesOf[s]
<1>1. todo[s] = q /\ q \in Seq(File) /\ q # <<>>
  BY SendersOK DEF SendInit
<1>2. FilesIn(s) = Items(q)
  BY DEF FilesIn, Items
<1>3. \A i, j \in DOMAIN q : q[i] = q[j] => i = j
  BY FileIdsAreUnique
<1>4. saved = {}
  BY DEF Init
<1> HIDE DEF q
<1> QED BY <1>1, <1>2, <1>3, <1>4 DEF Work

LEMMA TInvInit == TInit => TInv
<1> SUFFICES ASSUME TInit PROVE TInv
  OBVIOUS
<1>1. Init /\ ~wait_condition /\ SendInit
  BY DEF TInit
<1>2. Controller
  BY <1>1, IInvInit, ChunksOK DEF Init, Controller, Owner, OnePart
<1>3. Senders
  BY <1>1, TypeInit, ReadersInit DEF Senders
<1>4. ASSUME NEW s \in Sender PROVE Link(s)
  <2>1. /\ pc[s] = "connect" /\ conn[s] = "none" /\ send_status[s] = "kIdle"
        /\ send_session_id[s] = 0
        /\ to_client[s] = <<>> /\ to_server[s] = <<>> /\ writing[s] = "no"
    BY <1>1 DEF SendInit
  <2>3. Flight(s)
    BY <2>1, ItemsNone DEF Flight, OneAsked, OneAnswered, NoneAsked
  <2>4. SessionOf(s) = {}
    BY <1>1, OwnFiles DEF Init, SessionOf
  <2>5. /\ Named(s) /\ Asks(s) /\ Tells(s) /\ CancelCloses(s) /\ CancelLate(s)
        /\ Verdict(s)
    BY <2>1, <2>4, ItemsNone DEF Named, Asks, Tells, CancelCloses, CancelLate, Verdict
  <2>6. Work(s)
    BY <1>1, WorkInit
  <2>7. Begun(s) /\ Unsent(s)
    BY <1>1, <2>1 DEF Init, Begun, Unsent, MineOpen
  <2> QED BY <2>3, <2>4, <2>5, <2>6, <2>7 DEF Link
<1> QED BY <1>2, <1>3, <1>4 DEF TInv


-----------------------------------------------------------------------------
\* What the handlers do for a request of a well behaved sender.

LEMMA ItemsSplit ==
  ASSUME NEW S, NEW q \in Seq(S), q # <<>>
  PROVE  /\ Tail(q) \in Seq(S) /\ Head(q) \in S
         /\ Items(q) = {Head(q)} \cup Items(Tail(q))
         /\ Tail(q) # <<>> => Head(Tail(q)) \in Items(Tail(q))
         /\ Tail(q) = <<>> => Items(Tail(q)) = {}
         /\ (\A i, j \in DOMAIN q : q[i] = q[j] => i = j) =>
              /\ Head(q) \notin Items(Tail(q))
              /\ \A i, j \in DOMAIN Tail(q) : Tail(q)[i] = Tail(q)[j] => i = j
<1> DEFINE t == Tail(q)
           n == Len(q)
<1>1. /\ n \in Nat \ {0} /\ DOMAIN q = 1 .. n /\ DOMAIN t = 1 .. n - 1
      /\ Head(q) = q[1] /\ t \in Seq(S) /\ Head(q) \in S
      /\ \A i \in 1 .. n - 1 : t[i] = q[i + 1]
  OBVIOUS
<1>2. t # <<>> => Head(t) \in Items(t)
  BY <1>1, ItemsTail
<1> HIDE DEF t, n
<1>3. \A i \in 1 .. n : i = 1 \/ (i - 1 \in 1 .. n - 1 /\ i = i - 1 + 1)
  BY <1>1
<1>4. \A i \in 1 .. n - 1 : i + 1 \in 1 .. n /\ i + 1 # 1
  BY <1>1
<1>5. Items(q) = {q[1]} \cup Items(t)
  <2>1. 1 \in 1 .. n
    BY <1>1
  <2>2. \A i \in 1 .. n : q[i] \in {q[1]} \cup Items(t)
    <3> SUFFICES ASSUME NEW i \in 1 .. n, i # 1 PROVE q[i] \in Items(t)
      OBVIOUS
    <3>1. i - 1 \in DOMAIN t /\ q[i] = t[i - 1]
      BY <1>1, <1>3
    <3> QED BY <3>1 DEF Items
  <2>3. \A x \in Items(t) : x \in Items(q)
    BY <1>1, <1>4 DEF Items
  <2> QED BY <1>1, <2>1, <2>2, <2>3 DEF Items
<1>6. ASSUME \A i, j \in DOMAIN q : q[i] = q[j] => i = j
      PROVE  q[1] \notin Items(t) /\ \A i, j \in DOMAIN t : t[i] = t[j] => i = j
  <2>1. 1 \in 1 .. n /\ \A i, j \in 1 .. n - 1 : i + 1 = j + 1 => i = j
    BY <1>1
  <2>2. \A i \in 1 .. n - 1 : q[i + 1] # q[1]
    BY <1>1, <1>4, <1>6, <2>1
  <2>3. ASSUME NEW i \in 1 .. n - 1, NEW j \in 1 .. n - 1, q[i + 1] = q[j + 1]
        PROVE  i = j
    <3>1. i + 1 \in DOMAIN q /\ j + 1 \in DOMAIN q
      BY <1>1, <1>4
    <3>2. i + 1 = j + 1
      BY <1>6, <2>3, <3>1
    <3> QED BY <2>1, <3>2
  <2> QED BY <1>1, <2>2, <2>3 DEF Items
<1>7. t = <<>> => Items(t) = {}
  BY ItemsNone
<1> QED BY <1>1, <1>2, <1>5, <1>6, <1>7 DEF t

LEMMA WorkingIsOpen ==
  ASSUME Controller
  PROVE  session_status = "kWorking" <=> session_id # 0
<1>1. session_status \in {"kIdle", "kWorking"}
  BY DEF Controller, IInv, TypeOK
<1> QED BY <1>1 DEF Controller, IInv, SessionShape, BusyHasCause, Owner

\* The session in progress has all the files of its sender, the current one too.
LEMMA OpenFiles ==
  ASSUME Controller, SendTypeOK, NEW s \in Sender, Work(s), MineOpen(s)
  PROVE  /\ received_files = FilesIn(s) /\ session_id \in SessionOf(s)
         /\ todo[s] # <<>> => Head(todo[s]) \in FilesIn(s)
<1>1. /\ session_id \in 1 .. MaxRequests
      /\ received_files = accepted[session_id] /\ accepted[session_id] = FilesIn(s)
  BY DEF Controller, IInv, TypeOK, SessionShape, Owner, MineOpen
<1>2. todo[s] # <<>> => Head(todo[s]) \in Items(todo[s])
  BY ItemsTail DEF SendTypeOK
<1> QED BY <1>1, <1>2 DEF SessionOf, Work

\* A reset removes the only temporary file there is.
LEMMA ResetEnds ==
  ASSUME Controller, SendTypeOK, NEW s \in Sender, Work(s), MineOpen(s),
         NEW present, \A f \in present : todo[s] # <<>> /\ f = Head(todo[s]),
         NEW how \in Ended, resetToIdle(present), EndSession(how),
         accepted' = accepted, Closes(s, how)
  PROVE  Ends(s, how)
<1>1. session_id # 0
  BY DEF MineOpen
<1>2. present \subseteq received_files
  BY OpenFiles
<1>3. \A f \in present : present \ {f} = {}
  OBVIOUS
<1>4. parts' = {}
  BY <1>1, <1>2, <1>3 DEF resetToIdle, doCleanup
<1> QED BY <1>1, <1>4 DEF resetToIdle, EndSession, Ends

\* What becomes of a request, and the answer to it.
Does(s, req, resp) ==
  \/ /\ req.type = "request-send"
     /\ \/ resp \in {"403 receiver busy", "500"} /\ Idles
        \/ resp = "400" /\ writing[s] = "torn" /\ Idles
        \/ resp = "200" /\ Opens(s) /\ received_files' = FilesIn(s)
  \/ /\ req.type \in Data
     /\ \/ resp = "403 receiver cancelled" /\ Ends(s, "cancelled_by_receiver")
        \/ resp = "500" /\ Ends(s, "failed")
  \/ /\ req.type = "send-chunk"
     /\ \/ resp = "200" /\ Goes(s) /\ Stores(s, req.index) /\ saved' = saved
        \/ resp = "400" /\ writing[s] = "torn" /\ Idles
  \/ /\ req.type = "verify-integrity"
     /\ resp = "200" /\ Head(todo[s]) \in saved'
     /\ IF Tail(todo[s]) = <<>> THEN Ends(s, "completed")
        ELSE Goes(s) /\ UNCHANGED received_chunks
  \/ /\ req.type = "cancel-send"
     /\ \/ resp = "500" /\ Idles
        \/ resp = "200" /\ session_id = 0 /\ Idles
        \/ resp = "200" /\ Ends(s, "cancelled_by_sender")

\* No agreement to a request that a cancel has torn.
Torment(s, req, resp) ==
  writing[s] = "torn" /\ pc[s] # "done" /\ req.type # "cancel-send" => resp \in TornCodes

LEMMA RequestSendDoes ==
  ASSUME Controller, NEW s \in Sender, NEW req, req.type = "request-send",
         NEW body \in SentRequestBodies(s), NEW resp,
         onRequestSend(s, FilesIn(s), body, resp)
  PROVE  /\ Does(s, req, resp) /\ IInv' /\ UNCHANGED <<wait_condition, waiting>>
         /\ writing[s] = "torn" => resp = "400"
<1>1. FilesIn(s) \in SUBSET File
  BY OwnFiles
<1>2. IInv'
  BY <1>1, RequestSendKeeps DEF Controller
<1>3. UNCHANGED <<stream, disk>>
  BY DEF onRequestSend
<1>5. body = "malformed" <=> writing[s] = "torn"
  BY DEF SentRequestBodies
<1>4. CASE body = "malformed"
  BY <1>2, <1>3, <1>4, <1>5 DEF onRequestSend, Does, Idles, session, stream, disk
<1>6. CASE body # "malformed" /\ session_status # "kIdle"
  BY <1>2, <1>3, <1>5, <1>6 DEF onRequestSend, Does, Idles, session, stream, disk
<1>7. session_status = "kIdle" => session_id = 0 /\ received_files = {} /\ ~wait_condition
  BY DEF Controller, Owner, IInv, SessionShape
<1>8. CASE body = "throws" /\ session_status = "kIdle"
  BY <1>2, <1>3, <1>5, <1>7, <1>8
     DEF onRequestSend, resetToIdle, EndSession, Does, Idles, stream, disk
<1>9. CASE body = "good" /\ session_status = "kIdle"
  <2>1. requests < MaxRequests /\ requests \in 0 .. MaxRequests /\ MaxRequests \in Nat
    BY <1>9, ChunksOK DEF onRequestSend, Controller, IInv, TypeOK
  <2>2. /\ requests' = requests + 1 /\ session_id' = requests' /\ sender' = s
        /\ received_files' = FilesIn(s)
        /\ received_chunks' = [f \in File |->
                                IF f \in FilesIn(s) THEN {} ELSE received_chunks[f]]
        /\ accepted' = [accepted EXCEPT ![requests'] = FilesIn(s)]
        /\ outcome' = [outcome EXCEPT ![requests'] = "open"]
        /\ resp = "200" /\ UNCHANGED waiting
        /\ \A n \in 1 .. MaxRequests : FilesIn(s) \cap accepted[n] = {}
    BY <1>7, <1>9 DEF onRequestSend
  <2>3. requests' \in 1 .. MaxRequests /\ requests' > requests
    BY <2>1, <2>2
  <2>4. accepted[requests'] = {} /\ outcome[requests'] = "none"
    BY <2>3 DEF Controller, IInv, TypeOK, FreshFiles
  <2>5. \A f \in FilesIn(s) : received_chunks'[f] = {}
    BY <1>1, <2>2
  <2>6. Opens(s)
    BY <1>3, <1>7, <1>9, <2>2, <2>3, <2>4, <2>5 DEF Opens, disk
  <2> QED BY <1>2, <1>3, <1>5, <1>9, <2>2, <2>6 DEF Does, stream
<1>10. body \in {"good", "throws", "malformed"}
  BY DEF SentRequestBodies
<1>11. session_status = "kIdle" \/ session_status # "kIdle"
  OBVIOUS
<1> QED BY <1>4, <1>6, <1>8, <1>9, <1>10, <1>11


\* The two ways onSendChunk and onVerifyIntegrity end the session early.
LEMMA EarlyEnd ==
  ASSUME Controller, SendTypeOK, NEW s \in Sender, Work(s), MineOpen(s), NEW resp
  PROVE  /\ ReceiverCancels(resp) =>
              /\ resp = "403 receiver cancelled" /\ Ends(s, "cancelled_by_receiver")
              /\ UNCHANGED <<wait_condition, waiting>>
         /\ \A present :
              FailSession(present, resp) /\ accepted' = accepted
                /\ (\A f \in present : todo[s] # <<>> /\ f = Head(todo[s]))
              => resp = "500" /\ Ends(s, "failed")
<1>1. \A f \in parts : todo[s] # <<>> /\ f = Head(todo[s])
  BY DEF Controller, OnePart, MineOpen
<1>2. "cancelled_by_receiver" \in Ended /\ "failed" \in Ended
  BY DEF Ended, Outcomes
<1>3. ASSUME ReceiverCancels(resp)
      PROVE  /\ resp = "403 receiver cancelled" /\ Ends(s, "cancelled_by_receiver")
             /\ UNCHANGED <<wait_condition, waiting>>
  <2>1. /\ resetToIdle(parts) /\ EndSession("cancelled_by_receiver")
        /\ accepted' = accepted /\ Closes(s, "cancelled_by_receiver")
        /\ resp = "403 receiver cancelled" /\ UNCHANGED <<wait_condition, waiting>>
    BY <1>3 DEF ReceiverCancels, Closes
  <2>2. Ends(s, "cancelled_by_receiver")
    BY <1>1, <1>2, <2>1, ResetEnds
  <2> QED BY <2>1, <2>2
<1>4. ASSUME NEW present, FailSession(present, resp), accepted' = accepted,
             \A f \in present : todo[s] # <<>> /\ f = Head(todo[s])
      PROVE  resp = "500" /\ Ends(s, "failed")
  <2>1. /\ resetToIdle(present) /\ EndSession("failed")
        /\ Closes(s, "failed") /\ resp = "500"
    BY <1>4 DEF FailSession, Closes
  <2>2. Ends(s, "failed")
    BY <1>2, <1>4, <2>1, ResetEnds
  <2> QED BY <2>1, <2>2
<1> QED BY <1>3, <1>4

LEMMA SendChunkDoes ==
  ASSUME Controller, SendTypeOK, NEW s \in Sender, Link(s), NEW req \in Request,
         req \in Items(to_server[s]), Asked(s, req), req.type = "send-chunk",
         NEW body \in SentChunkBodies(s), NEW resp,
         onSendChunk(req.sid, req.token, req.file, req.index, body, resp)
  PROVE  /\ Does(s, req, resp) /\ IInv' /\ UNCHANGED <<wait_condition, waiting>>
         /\ Torment(s, req, resp)
<1> DEFINE f == req.file
           i == req.index
<1>1. /\ MineOpen(s) /\ todo[s] # <<>> /\ f = Head(todo[s]) /\ i \in Chunks(f)
      /\ f \in File /\ f \notin saved /\ i \in Nat
  BY DEF Asked, Data, Request
<1>2. /\ Work(s) /\ session_status = "kWorking" /\ req.type \in Data
      /\ session_status # "kIdle"
  BY <1>1, WorkingIsOpen DEF Link, MineOpen, Data
<1>3. IInv'
  BY <1>1, SendChunkKeeps DEF Controller
<1>4. CASE ReceiverCancels(resp)
  <2>1. /\ resp = "403 receiver cancelled" /\ Ends(s, "cancelled_by_receiver")
        /\ UNCHANGED <<wait_condition, waiting>>
    BY <1>1, <1>2, <1>4, EarlyEnd
  <2> QED BY <1>2, <1>3, <2>1 DEF Does, Torment, TornCodes
<1>5. CASE ~ReceiverCancels(resp)
  <2>1. UNCHANGED <<wait_condition, waiting, accepted>>
    BY <1>2, <1>5 DEF onSendChunk, RefuseIdle, stream
  <2>2. CASE \E present \in {parts, parts \cup {f}} : FailSession(present, resp)
    <3>1. \A p \in parts : todo[s] # <<>> /\ p = Head(todo[s])
      BY <1>1 DEF Controller, OnePart, MineOpen
    <3>2. \A present \in {parts, parts \cup {f}} :
            \A p \in present : todo[s] # <<>> /\ p = Head(todo[s])
      BY <1>1, <3>1
    <3>3. resp = "500" /\ Ends(s, "failed")
      BY <1>1, <1>2, <2>1, <2>2, <3>2, EarlyEnd
    <3> QED BY <1>2, <1>3, <2>1, <3>3 DEF Does, Torment, TornCodes
  <2>3. CASE /\ resp = "200" /\ UNCHANGED <<session, disk, outcome>>
             /\ i \in received_chunks[f]
    <3>1. Goes(s)
      BY <1>1, <2>1, <2>3 DEF Goes, session, disk, Controller, OnePart
    <3>2. Stores(s, i) /\ saved' = saved
      BY <2>3 DEF Stores, session, disk
    <3>3. pc[s] = "done"
      <4>1. pc[s] # "done" => i = chunk[s]
        BY <1>2 DEF Asked
      <4>2. pc[s] # "done" => ~NoneAsked(to_server[s]) /\ pc[s] = "chunk"
        BY DEF NoneAsked, Link, Flight, Awaits
      <4> QED BY <1>1, <2>3, <4>1, <4>2 DEF Link, Unsent
    <3> QED BY <1>3, <2>1, <2>3, <3>1, <3>2, <3>3 DEF Does, Torment
  <2>4. CASE resp = "200" /\ StoreChunk(f, i, body) /\ body = "good"
    <3>1. Goes(s)
      BY <1>1, <2>1, <2>4 DEF Goes, StoreChunk, Controller, OnePart
    <3>2. Stores(s, i) /\ saved' = saved
      BY <1>1, <2>4 DEF Stores, StoreChunk, Controller, IInv, TypeOK
    <3>3. writing[s] # "torn"
      BY <2>4 DEF SentChunkBodies
    <3> QED BY <1>3, <2>1, <2>4, <3>1, <3>2, <3>3 DEF Does, Torment
  <2>5. CASE resp = "400" /\ UNCHANGED <<session, disk, outcome>> /\ body = "malformed"
    <3>1. Idles /\ writing[s] = "torn"
      BY <2>1, <2>5 DEF Idles, session, disk, SentChunkBodies
    <3> QED BY <1>3, <2>1, <2>5, <3>1 DEF Does, Torment, TornCodes
  <2>6. body # "other"
    BY DEF SentChunkBodies
  <2> QED BY <1>2, <1>5, <2>2, <2>3, <2>4, <2>5, <2>6 DEF onSendChunk, RefuseIdle
<1> QED BY <1>4, <1>5

\* The last file of a sender, and only the last, completes its session.
LEMMA LastCompletes ==
  ASSUME Controller, SendTypeOK, NEW s \in Sender, Work(s), MineOpen(s), todo[s] # <<>>,
         Head(todo[s]) \notin saved
  PROVE  AllFilesCompleted(completed_file_count + 1) <=> Tail(todo[s]) = <<>>
<1> DEFINE q == todo[s]
           f == Head(q)
<1>1. q \in Seq(File) /\ q # <<>>
  BY DEF SendTypeOK
<1>2. /\ Tail(q) \in Seq(File)
      /\ Items(q) = {f} \cup Items(Tail(q))
      /\ Tail(q) # <<>> => Head(Tail(q)) \in Items(Tail(q))
      /\ Tail(q) = <<>> => Items(Tail(q)) = {}
      /\ f \notin Items(Tail(q))
  BY <1>1, ItemsSplit DEF Work
<1>3. received_files = FilesIn(s) /\ f \in received_files
  BY OpenFiles
<1>4. AllFilesCompleted(completed_file_count + 1) <=> received_files \subseteq saved \cup {f}
  BY <1>3, CountAfterSave DEF Controller
<1>5. CASE Tail(q) = <<>>
  BY <1>2, <1>3, <1>4, <1>5 DEF Work
<1>6. CASE Tail(q) # <<>>
  BY <1>2, <1>3, <1>4, <1>6 DEF Work
<1> QED BY <1>5, <1>6


LEMMA VerifyIntegrityDoes ==
  ASSUME Controller, SendTypeOK, NEW s \in Sender, Link(s), NEW req \in Request,
         Asked(s, req), req.type = "verify-integrity", NEW body \in SentVerifyBodies,
         NEW resp, onVerifyIntegrity(req.sid, req.token, req.file, body, resp)
  PROVE  Does(s, req, resp) /\ IInv' /\ UNCHANGED <<wait_condition, waiting>>
<1> DEFINE f == req.file
<1>1. MineOpen(s) /\ todo[s] # <<>> /\ f = Head(todo[s]) /\ f \in File
  BY DEF Asked, Data, Request
<1>2. /\ Work(s) /\ session_status = "kWorking" /\ req.type \in Data
      /\ body # "malformed"
  BY <1>1, WorkingIsOpen DEF Link, MineOpen, Data, SentVerifyBodies
<1>3. IInv'
  BY <1>1, <1>2, VerifyIntegrityKeeps DEF Controller
<1>4. CASE ReceiverCancels(resp)
  <2>1. /\ resp = "403 receiver cancelled" /\ Ends(s, "cancelled_by_receiver")
        /\ UNCHANGED <<wait_condition, waiting>>
    BY <1>1, <1>2, <1>4, EarlyEnd
  <2> QED BY <1>2, <1>3, <2>1 DEF Does
<1>5. CASE ~ReceiverCancels(resp)
  <2>1. UNCHANGED <<wait_condition, waiting, accepted>>
    BY <1>2, <1>5 DEF onVerifyIntegrity, RefuseIdle, stream
  <2>2. \A p \in parts : todo[s] # <<>> /\ p = Head(todo[s])
    BY <1>1 DEF Controller, OnePart, MineOpen
  <2>3. CASE FailSession(parts, resp)
    <3>1. resp = "500" /\ Ends(s, "failed")
      BY <1>1, <1>2, <2>1, <2>2, <2>3, EarlyEnd
    <3> QED BY <1>2, <1>3, <2>1, <3>1 DEF Does
  <2>4. CASE resp = "200" /\ Verifies(req.sid, req.token, f) /\ SaveFile(f)
    <3>1. f \notin saved /\ f \in FilesIn(s)
      BY <1>1, <1>2, <2>4, OpenFiles
         DEF Verifies, IsValid, ChecksumMatches, Controller, IInv, SavedOnce
    <3>2. saved' = saved \cup {f} /\ Saves(s)
      BY <1>1, <2>4, <3>1 DEF SaveFile, Saves
    <3>3. AllFilesCompleted(completed_file_count + 1) <=> Tail(todo[s]) = <<>>
      BY <1>1, <1>2, <3>1, LastCompletes
    <3>4. CASE Tail(todo[s]) = <<>>
      <4>1. resetToIdle(parts \ {f}) /\ EndSession("completed") /\ "completed" \in Ended
        BY <2>4, <3>3, <3>4 DEF SaveFile, Ended, Outcomes
      <4>2. \A p \in parts \ {f} : todo[s] # <<>> /\ p = Head(todo[s])
        BY <2>2
      <4>3. Ends(s, "completed")
        <5>1. Closes(s, "completed")
          BY <3>2, <3>4 DEF Closes
        <5> QED BY <1>1, <1>2, <2>1, <4>1, <4>2, <5>1, ResetEnds
      <4> QED BY <1>1, <1>3, <2>1, <2>4, <3>2, <3>4, <4>3 DEF Does
    <3>5. CASE Tail(todo[s]) # <<>>
      <4>1. Goes(s) /\ UNCHANGED received_chunks
        BY <1>1, <2>1, <2>4, <3>2, <3>3, <3>5 DEF SaveFile, Goes, Controller, OnePart
      <4> QED BY <1>1, <1>3, <2>1, <2>4, <3>2, <3>5, <4>1 DEF Does
    <3> QED BY <3>4, <3>5
  <2> QED BY <1>2, <1>5, <2>3, <2>4 DEF onVerifyIntegrity, RefuseIdle
<1> QED BY <1>4, <1>5

LEMMA CancelSendDoes ==
  ASSUME Controller, SendTypeOK, \A t \in Sender : Link(t), NEW s \in Sender,
         NEW req \in Request, Asked(s, req), req.type = "cancel-send", NEW resp,
         onCancelSend(req.sid, "good", resp)
  PROVE  Does(s, req, resp) /\ IInv' /\ UNCHANGED <<wait_condition, waiting>>
<1>1. IInv'
  BY CancelSendKeeps DEF Controller
<1>2. UNCHANGED <<waiting, stream, contents, saved, accepted>>
  BY DEF onCancelSend
<1>3. session_status = "kWorking" <=> session_id # 0
  BY WorkingIsOpen
<1>4. CASE UNCHANGED <<session, parts, outcome>> /\ resp = "500"
  BY <1>1, <1>2, <1>4 DEF Does, Idles, session, stream
<1>5. CASE UNCHANGED <<session, parts, outcome>> /\ session_id = 0 /\ resp = "200"
  BY <1>1, <1>2, <1>5 DEF Does, Idles, session, stream
<1>6. CASE /\ session_id # 0 /\ req.sid = session_id /\ resp = "200"
           /\ resetToIdle(parts) /\ EndSession("cancelled_by_sender")
  <2>1. accepted[session_id] = FilesIn(s)
    BY <1>6 DEF Asked, SessionOf
  <2>2. sender \in Sender /\ accepted[session_id] = FilesIn(sender)
    BY <1>6 DEF Controller, Owner
  <2>3. MineOpen(s)
    BY <1>6, <2>1, <2>2, OwnFiles DEF MineOpen
  <2>4. \A p \in parts : todo[s] # <<>> /\ p = Head(todo[s])
    BY <2>3 DEF Controller, OnePart, MineOpen
  <2>5. Work(s) /\ "cancelled_by_sender" \in Ended /\ Closes(s, "cancelled_by_sender")
    BY <1>2 DEF Link, Ended, Outcomes, Closes
  <2>6. Ends(s, "cancelled_by_sender")
    BY <1>2, <1>6, <2>3, <2>4, <2>5, ResetEnds
  <2> QED BY <1>1, <1>2, <1>6, <2>6 DEF Does, stream
<1> QED BY <1>3, <1>4, <1>5, <1>6 DEF onCancelSend

LEMMA LossDoes ==
  ASSUME Controller, SendTypeOK, NEW s \in Sender, Work(s), NotifySenderLost(s)
  PROVE  Ends(s, "sender_lost") /\ IInv' /\ UNCHANGED <<wait_condition, waiting>>
<1>1. IInv'
  BY NotifySenderLostKeeps DEF Controller
<1>2. /\ resetToIdle(parts) /\ EndSession("sender_lost") /\ MineOpen(s)
      /\ UNCHANGED <<wait_condition, waiting, accepted, saved>>
  BY WorkingIsOpen DEF NotifySenderLost, stream, MineOpen
<1>3. \A p \in parts : todo[s] # <<>> /\ p = Head(todo[s])
  BY <1>2 DEF Controller, OnePart, MineOpen
<1>4. "sender_lost" \in Ended /\ Closes(s, "sender_lost")
  BY <1>2 DEF Ended, Outcomes, Closes
<1>5. Ends(s, "sender_lost")
  BY <1>2, <1>3, <1>4, ResetEnds
<1> QED BY <1>1, <1>2, <1>5

\* All handlers.
LEMMA HandleDoes ==
  ASSUME Controller, SendTypeOK, \A t \in Sender : Link(t), NEW s \in Sender,
         NEW req \in Request, req \in Items(to_server[s]), Asked(s, req), NEW resp,
         Handle(s, req, resp)
  PROVE  /\ Does(s, req, resp) /\ Handled(s)
         /\ IInv' /\ UNCHANGED <<wait_condition, waiting>>
         /\ req.type \in {"request-send", "send-chunk"} => Torment(s, req, resp)
<1>1. Link(s)
  OBVIOUS
<1>2. /\ Does(s, req, resp) /\ IInv' /\ UNCHANGED <<wait_condition, waiting>>
      /\ req.type \in {"request-send", "send-chunk"} => Torment(s, req, resp)
  <2>1. CASE req.type = "request-send"
    BY <2>1, RequestSendDoes DEF Handle, Torment, TornCodes
  <2>2. CASE req.type = "send-chunk"
    BY <1>1, <2>2, SendChunkDoes DEF Handle
  <2>3. CASE req.type = "verify-integrity"
    BY <1>1, <2>3, VerifyIntegrityDoes DEF Handle
  <2>4. CASE req.type = "cancel-send"
    BY <2>4, CancelSendDoes DEF Handle
  <2> QED BY <2>1, <2>2, <2>3, <2>4 DEF Handle
<1>3. {"failed", "completed", "cancelled_by_sender", "cancelled_by_receiver"} \subseteq Ended
  BY DEF Ended, Outcomes
<1> QED BY <1>2, <1>3 DEF Does, Handled


-----------------------------------------------------------------------------
\* A sender whose connection takes no part in a step.

Same(t) ==
  /\ send_status'[t] = send_status[t] /\ pc'[t] = pc[t]
  /\ send_session_id'[t] = send_session_id[t] /\ todo'[t] = todo[t]
  /\ chunk'[t] = chunk[t] /\ writing'[t] = writing[t]
  /\ conn'[t] = conn[t] /\ to_server'[t] = to_server[t] /\ to_client'[t] = to_client[t]

LEMMA WorkKeeps ==
  ASSUME SendTypeOK, NEW t \in Sender, Work(t), todo'[t] = todo[t], pc'[t] = pc[t],
         saved \subseteq saved', saved' \cap FilesIn(t) = saved \cap FilesIn(t)
  PROVE  /\ Work(t)'
         /\ todo[t] # <<>> /\ Head(todo[t]) \notin saved => Head(todo[t]) \notin saved'
<1>1. /\ todo[t] # <<>> => Items(Tail(todo[t])) \subseteq FilesIn(t)
      /\ todo[t] # <<>> => Head(todo[t]) \in FilesIn(t)
  BY ItemsTail DEF Work, SendTypeOK
<1>2. todo[t] # <<>> => Items(Tail(todo[t])) \cap saved' = {}
  BY <1>1 DEF Work
<1>3. pc[t] \notin {"verify", "done"} => todo[t] # <<>> /\ Head(todo[t]) \notin saved'
  BY <1>1 DEF Work
<1> QED BY <1>1, <1>2, <1>3 DEF Work

LEMMA OthersLink ==
  ASSUME SendTypeOK, NEW t \in Sender, Link(t), Same(t), Spares(t)
  PROVE  Link(t)'
<1>1. /\ Flight(t) /\ Named(t) /\ Asks(t) /\ Begun(t) /\ Unsent(t) /\ Tells(t)
      /\ CancelCloses(t) /\ CancelLate(t) /\ Verdict(t) /\ Work(t)
  BY DEF Link
<1>2. SessionOf(t)' = SessionOf(t) /\ \A n \in SessionOf(t) : outcome'[n] = outcome[n]
  BY DEF Spares
<1>3. Flight(t)' /\ CancelCloses(t)'
  BY <1>1 DEF Same, Flight, CancelCloses
<1>4. Named(t)'
  BY <1>1, <1>2 DEF Same, Named
<1>10. /\ Work(t)'
       /\ todo[t] # <<>> /\ Head(todo[t]) \notin saved => Head(todo[t]) \notin saved'
  BY <1>1, WorkKeeps DEF Same, Spares
<1>5. Asks(t)'
  <2>1. ASSUME NEW r, Asked(t, r) PROVE Asked(t, r)'
    BY <1>2, <1>10, <2>1 DEF Same, Asked, Spares, MineOpen, Chunks, Data
  <2> QED BY <1>1, <2>1 DEF Same, Asks
<1>6. send_session_id[t] # 0 =>
        outcome'[send_session_id'[t]] = outcome[send_session_id[t]]
  BY <1>1, <1>2 DEF Same, Named
<1>7. Tells(t)'
  <2>1. ASSUME NEW a, Told(t, a) PROVE Told(t, a)'
    <3>1. Answers200(t, a) /\ (a.to \in Data => send_session_id[t] # 0) => Answers200(t, a)'
      BY <1>2, <1>6 DEF Same, Answers200, Spares, MineOpen, Data
    <3> QED BY <1>6, <2>1, <3>1 DEF Told, Same
  <2> QED BY <1>1, <2>1 DEF Same, Tells
<1>8. CancelLate(t)'
  BY <1>1, <1>2 DEF Same, CancelLate
<1>9. Verdict(t)'
  BY <1>1, <1>6 DEF Same, Verdict
<1>11. Begun(t)'
  BY <1>1, <1>10 DEF Same, Begun, MayChunk, Spares, MineOpen, Chunks
<1>12. Unsent(t)'
  BY <1>1 DEF Same, Unsent, Spares
<1> QED BY <1>3, <1>4, <1>5, <1>7, <1>8, <1>9, <1>10, <1>11, <1>12 DEF Link


-----------------------------------------------------------------------------
\* The sender whose connection the server serves.

\* While a request of Start is unanswered, on a connection no cancel has closed,
\* there is no answer to read.
LEMMA NothingToRead ==
  ASSUME SendTypeOK, NEW s \in Sender, Link(s), conn[s] \in {"up", "down"},
         NEW req \in Items(to_server[s]), req.type # "cancel-send"
  PROVE  to_client[s] = <<>>
<1>1. Items(to_client[s]) = {}
  BY DEF Link, Flight, NoneAsked, NoneAnswered, CancelCloses
<1>2. to_client[s] # <<>> => Head(to_client[s]) \in Items(to_client[s])
  BY ItemsTail DEF SendTypeOK
<1> QED BY <1>1, <1>2

LEMMA NoCancelAnswered ==
  ASSUME NEW s \in Sender, Link(s),
         conn[s] \in {"none", "up", "astray", "down"}
  PROVE  /\ \A a \in Items(to_client[s]) : a.to # "cancel-send"
         /\ send_status[s] # "kCancelledBySender"
BY DEF Link, CancelCloses

LEMMA Undisturbed ==
  ASSUME Controller, SendTypeOK, NEW s \in Sender, Link(s), Handled(s), UNCHANGED main_vars,
         pc[s] # "connect", saved' = saved \/ pc[s] \in {"verify", "done"}
  PROVE  Named(s)' /\ Verdict(s)' /\ Work(s)'
<1>1. /\ \A n \in 1 .. MaxRequests : outcome[n] \in Ended => outcome'[n] = outcome[n]
      /\ SessionOf(s) \subseteq SessionOf(s)'
  BY OutcomesStay
<1>2. Named(s) /\ Verdict(s) /\ Work(s)
  BY DEF Link
<1>3. send_session_id[s] # 0 => send_session_id[s] \in 1 .. MaxRequests
  BY <1>2 DEF Named, SessionOf
<1>4. Named(s)'
  BY <1>1, <1>2 DEF Named, main_vars
<1>5. Verdict(s)'
  BY <1>1, <1>2, <1>3 DEF Verdict, main_vars, Ended, Outcomes
<1>6. Grows(s)
  BY Growth
<1>7. Work(s)'
  <2>1. todo[s] # <<>> => Head(todo[s]) \notin Items(Tail(todo[s]))
    BY <1>2, ItemsSplit DEF Work, SendTypeOK
  <2>2. todo[s] # <<>> => Items(Tail(todo[s])) \cap saved' = {}
    BY <1>2, <1>6, <2>1, Growth DEF Work
  <2>3. saved \subseteq saved'
    BY <1>6, Growth
  <2> QED BY <1>2, <2>2, <2>3 DEF Work, main_vars
<1> QED BY <1>4, <1>5, <1>7

\* The current file is saved by its verification, for which Start waits.
LEMMA SavedByVerify ==
  ASSUME NEW s \in Sender, Link(s), NEW req \in Items(to_server[s]), NEW resp,
         Does(s, req, resp)
  PROVE  saved' = saved \/ pc[s] \in {"verify", "done"}
<1>1. CASE req.type = "verify-integrity"
  BY <1>1 DEF Link, Flight, Awaits
<1>2. CASE req.type # "verify-integrity"
  BY <1>2 DEF Does, Idles, Opens, Ends, Closes
<1> QED BY <1>1, <1>2

\* What is recorded of the chunks of s stays in step with what it has sent.
LEMMA UnsentRests ==
  ASSUME NEW s \in Sender, Link(s), UNCHANGED main_vars, writing'[s] = writing[s],
         NoneAsked(to_server'[s]),
         \/ session_id' = session_id /\ (session_id # 0 => UNCHANGED <<sender, received_chunks>>)
         \/ session_id' = 0
  PROVE  Unsent(s)'
BY DEF Link, Unsent, MineOpen, main_vars

LEMMA UnsentServed ==
  ASSUME SendTypeOK, NEW s \in Sender, Link(s), NEW req \in Items(to_server[s]),
         Asked(s, req), NEW resp, Does(s, req, resp), UNCHANGED main_vars,
         writing'[s] = writing[s], NoneAsked(to_server'[s])
  PROVE  Unsent(s)'
<1>1. CASE Idles
  BY <1>1, UnsentRests DEF Idles
<1>2. CASE Opens(s)
  <2>1. todo[s] # <<>> => Items(Tail(todo[s])) \subseteq FilesIn(s) /\ Head(todo[s]) \in FilesIn(s)
    BY ItemsTail DEF Link, Work, SendTypeOK
  <2> QED BY <1>2, <2>1 DEF Opens, Unsent, main_vars
<1>3. CASE \E how : Ends(s, how)
  BY <1>3, UnsentRests DEF Ends
<1>4. CASE Goes(s) /\ UNCHANGED received_chunks
  BY <1>4, UnsentRests DEF Goes
<1>5. CASE Goes(s) /\ req.type = "send-chunk" /\ Stores(s, req.index) /\ pc[s] # "done"
  <2>1. /\ MineOpen(s) /\ todo[s] # <<>> /\ req.index = chunk[s] /\ chunk[s] \in Nat
        /\ Head(todo[s]) \in File
    BY <1>5 DEF Asked, Data, SendTypeOK
  <2>2. pc[s] = "chunk" /\ writing[s] \notin {"part", "both"}
    BY <1>5 DEF Link, Flight, Awaits, NoneAsked
  <2>3. /\ Items(Tail(todo[s])) \subseteq File
        /\ Head(todo[s]) \notin Items(Tail(todo[s]))
    <3>1. Tail(todo[s]) \in Seq(File)
      BY <2>1 DEF SendTypeOK
    <3> QED BY <2>1, <3>1, ItemsSplit DEF Link, Work, SendTypeOK, Items
  <2>4. \A f \in Items(Tail(todo[s])) : received_chunks'[f] = {}
    BY <1>5, <2>1, <2>3 DEF Stores, Link, Unsent
  <2>5. \A k \in received_chunks'[Head(todo[s])] : k <= chunk[s]
    BY <1>5, <2>1 DEF Stores, Link, Unsent
  <2> QED BY <2>2, <2>4, <2>5 DEF Unsent, main_vars
<1>6. CASE pc[s] = "done"
  BY <1>6 DEF Unsent, main_vars
<1> QED BY <1>1, <1>2, <1>3, <1>4, <1>5, <1>6 DEF Does

\* Only cancels are left in flight to the server.
LEMMA CancelsStayAsked ==
  ASSUME Controller, NEW s \in Sender, Link(s), Handled(s),
         \A r \in Items(to_server'[s]) : r \in Items(to_server[s]) /\ r.type = "cancel-send"
  PROVE  Asks(s)'
<1>1. SessionOf(s) \subseteq SessionOf(s)'
  BY OutcomesStay
<1> QED BY <1>1 DEF Link, Asks, Asked, Data

\* Answers in flight on a connection that is closed stay true.
LEMMA ToldStays ==
  ASSUME Controller, NEW s \in Sender, Link(s), Handled(s), UNCHANGED main_vars,
         conn'[s] # "up", NEW a, Told(s, a)
  PROVE  Told(s, a)'
<1>1. /\ \A n \in 1 .. MaxRequests : outcome[n] \in Ended => outcome'[n] = outcome[n]
      /\ SessionOf(s) \subseteq SessionOf(s)' /\ saved \subseteq saved'
  BY OutcomesStay
<1>2. send_session_id[s] # 0 => send_session_id[s] \in 1 .. MaxRequests
  BY DEF Link, Named, SessionOf
<1>3. "completed" \in Ended /\ "cancelled_by_receiver" \in Ended
  BY DEF Ended, Outcomes
<1>4. a.code = "200" => Answers200(s, a)'
  BY <1>1, <1>2, <1>3 DEF Told, Answers200, Data, main_vars
<1> QED BY <1>1, <1>2, <1>3, <1>4 DEF Told, main_vars

\* A session of s is completed by the verification of its last file.
LEMMA CompletedBy ==
  ASSUME Controller, NEW s \in Sender, NEW req, NEW resp, Does(s, req, resp),
         NEW n \in SessionOf(s)', outcome'[n] = "completed"
  PROVE  /\ n \in SessionOf(s)
         /\ \/ outcome[n] = "completed"
            \/ req.type = "verify-integrity" /\ resp = "200" /\ Tail(todo[s]) = <<>>
<1>1. /\ accepted \in [1 .. MaxRequests -> SUBSET File]
      /\ outcome \in [1 .. MaxRequests -> Outcomes]
      /\ n \in 1 .. MaxRequests /\ accepted'[n] = FilesIn(s)
  BY DEF Controller, IInv, TypeOK, SessionOf
<1>2. CASE UNCHANGED <<accepted, outcome>>
  BY <1>1, <1>2 DEF SessionOf
<1>3. CASE Opens(s)
  BY <1>1, <1>3 DEF Opens, SessionOf
<1>4. \A how : Ends(s, how) =>
        n \in SessionOf(s) /\ (outcome[n] = "completed" \/ how = "completed")
  BY <1>1 DEF Ends, SessionOf
<1>5. CASE Idles \/ Goes(s)
  BY <1>2, <1>5 DEF Idles, Goes
<1>6. CASE \E how \in {"failed", "cancelled_by_sender", "cancelled_by_receiver"} : Ends(s, how)
  BY <1>4, <1>6
<1>7. CASE /\ req.type = "verify-integrity" /\ resp = "200" /\ Tail(todo[s]) = <<>>
           /\ Ends(s, "completed")
  BY <1>4, <1>7
<1> QED BY <1>3, <1>5, <1>6, <1>7 DEF Does


LEMMA HeadAppend ==
  ASSUME NEW S, NEW q \in Seq(S), NEW x \in S
  PROVE  /\ Append(q, x) # <<>>
         /\ q # <<>> => Head(Append(q, x)) = Head(q)
         /\ q = <<>> => Head(Append(q, x)) = x
OBVIOUS

LEMMA AnswerType ==
  ASSUME NEW s \in Sender, NEW req \in Request, NEW resp, Does(s, req, resp), IInv'
  PROVE  /\ AnswerTo(req, resp) \in Response
         /\ writing[s] # "torn" => resp \in Codes(req)
<1>1. session_id' \in 0 .. MaxRequests /\ received_files' \subseteq File
  BY DEF IInv, TypeOK
<1>2. resp \in {"200", "400", "500", "403 receiver busy", "403 receiver cancelled"}
  BY DEF Does
<1>3. req.type \in {"request-send", "send-chunk", "verify-integrity", "cancel-send"}
  BY DEF Request
<1>4. 0 \in 0 .. MaxRequests
  BY ChunksOK
<1>5. writing[s] # "torn" => resp \in Codes(req)
  BY <1>3 DEF Does, Codes, Data
<1> QED BY <1>1, <1>2, <1>3, <1>4, <1>5 DEF AnswerTo, Answer, Response

\* The answer that is written says what is so.
LEMMA AnswerTold ==
  ASSUME Controller, NEW s \in Sender, Link(s), NEW req \in Request, Asked(s, req),
         NEW resp, Does(s, req, resp), UNCHANGED main_vars,
         NEW a, a = AnswerTo(req, resp)
  PROVE  Told(s, a)'
<1>1. /\ outcome \in [1 .. MaxRequests -> Outcomes]
      /\ accepted \in [1 .. MaxRequests -> SUBSET File]
      /\ session_id # 0 => session_id \in 1 .. MaxRequests
  BY DEF Controller, IInv, TypeOK
<1>2. /\ a.to = req.type /\ a.code = resp
      /\ req.type = "request-send" /\ resp = "200" => a.sid = session_id'
  BY DEF AnswerTo, Answer
<1>3. CASE req.type = "request-send"
  <2>1. CASE resp = "200"
    <3>1. Opens(s)
      BY <1>3, <2>1 DEF Does, Data
    <3>2. session_id' \in SessionOf(s)' /\ MineOpen(s)'
      BY <1>1, <3>1, ChunksOK DEF Opens, SessionOf, MineOpen
    <3> QED BY <1>2, <1>3, <2>1, <3>2 DEF Told, Answers200, Data
  <2>2. CASE resp # "200"
    BY <1>2, <1>3, <2>2 DEF Does, Told, Data
  <2> QED BY <2>1, <2>2
<1>4. CASE req.type = "cancel-send"
  BY <1>2, <1>4 DEF Does, Told, Answers200, Data
<1>5. CASE req.type \in Data
  <2>1. MineOpen(s) /\ send_session_id[s] = session_id /\ send_session_id'[s] = session_id
    BY <1>5 DEF Asked, main_vars
  <2>2. /\ \A how : Ends(s, how) => outcome'[session_id] = how
        /\ Goes(s) => MineOpen(s)' /\ session_id' = session_id
    BY <1>1, <2>1 DEF Ends, Goes, MineOpen
  <2>3. CASE resp # "200"
    BY <1>2, <1>5, <2>1, <2>2, <2>3 DEF Does, Told, Data, MineOpen
  <2>4. CASE resp = "200" /\ req.type = "send-chunk"
    <3>1. Goes(s)
      BY <2>4 DEF Does
    <3> QED BY <1>2, <2>1, <2>2, <2>4, <3>1 DEF Told, Answers200, Data, MineOpen
  <2>5. CASE resp = "200" /\ req.type = "verify-integrity"
    <3>1. /\ Head(todo[s]) \in saved'
          /\ Tail(todo[s]) = <<>> => outcome'[session_id] = "completed"
          /\ Tail(todo[s]) # <<>> => MineOpen(s)' /\ session_id' = session_id
      BY <2>2, <2>5 DEF Does
    <3> QED BY <1>2, <2>1, <2>5, <3>1 DEF Told, Answers200, Data, MineOpen, main_vars
  <2> QED BY <1>5, <2>3, <2>4, <2>5 DEF Data
<1>6. req.type \in {"request-send", "send-chunk", "verify-integrity", "cancel-send"}
  BY DEF Request
<1> QED BY <1>3, <1>4, <1>5, <1>6 DEF Data

\* What is left in flight to the server once it has taken a request.
LEMMA RequestTaken ==
  ASSUME SendTypeOK, NEW s \in Sender, Link(s), to_server[s] # <<>>,
         \/ to_server'[s] = <<>>
         \/ KeepAlive(Head(to_server[s])) /\ to_server'[s] = Tail(to_server[s])
  PROVE  /\ OneAsked(to_server'[s]) /\ NoneAsked(to_server'[s])
         /\ \A r \in Items(to_server'[s]) :
              r \in Items(to_server[s]) /\ r.type = "cancel-send"
<1>1. to_server[s] \in Seq(Request) /\ OneAsked(to_server[s])
  BY DEF SendTypeOK, Link, Flight
<1>2. CASE to_server'[s] = <<>>
  BY <1>2, ItemsNone DEF OneAsked, NoneAsked
<1>3. CASE KeepAlive(Head(to_server[s])) /\ to_server'[s] = Tail(to_server[s])
  <2>1. OneAsked(to_server'[s]) /\ NoneAsked(to_server'[s])
    BY <1>1, <1>3, AskedTail DEF KeepAlive
  <2>2. Items(to_server'[s]) \subseteq Items(to_server[s])
    BY <1>1, <1>3, ItemsTail
  <2> QED BY <2>1, <2>2 DEF NoneAsked
<1> QED BY <1>2, <1>3

\* The server answers.
LEMMA ReplyLink ==
  ASSUME Controller, Senders, NEW s \in Sender, Link(s), conn[s] = "up",
         to_server[s] # <<>>, NEW req, req = Head(to_server[s]), NEW resp,
         Does(s, req, resp), Handled(s), IInv', Reply(s, AnswerTo(req, resp)),
         UNCHANGED main_vars
  PROVE  Link(s)'
<1> DEFINE c == to_client[s]
<1>1. /\ SendTypeOK /\ to_server[s] \in Seq(Request) /\ c \in Seq(Response)
      /\ conn \in [Sender -> ConnStatus] /\ pc[s] # "connect"
  BY DEF Senders, TypeInv, SendTypeOK, ReadersInv, Aligned
<1>2. req \in Items(to_server[s]) /\ req \in Request /\ Asked(s, req)
  BY <1>1, ItemsTail DEF Link, Asks
<1>3. PICK a \in Response : a = AnswerTo(req, resp) /\ a.to = req.type /\ a.code = resp
  BY <1>2, AnswerType DEF AnswerTo, Answer
<1>4. /\ to_client'[s] = Append(c, a) /\ UNCHANGED writing
      /\ \/ KeepAlive(req) /\ to_server'[s] = Tail(to_server[s]) /\ conn'[s] = "up"
         \/ KeepAlive(req) /\ to_server'[s] = <<>> /\ conn'[s] = "astray"
         \/ ~KeepAlive(req) /\ to_server'[s] = <<>> /\ conn'[s] = "half"
  <2>1. writing[s] = "torn" => KeepAlive(req)
    <3>1. CASE writing[s] = "torn"
      <4>1. to_server[s][1].type # "cancel-send"
        BY <3>1 DEF Senders, ReadersInv, Aligned, Torn
      <4> QED BY <1>1, <4>1 DEF KeepAlive
    <3> QED BY <3>1
  <2> QED BY <1>1, <1>3, <2>1 DEF Reply, SendTypeOK
<1>5. /\ OneAsked(to_server'[s]) /\ NoneAsked(to_server'[s])
      /\ \A r \in Items(to_server'[s]) : r \in Items(to_server[s]) /\ r.type = "cancel-send"
  BY <1>1, <1>4, RequestTaken
<1>6. /\ KeepAlive(req) => c = <<>>
      /\ \A b \in Items(c) : b.to # "cancel-send"
      /\ send_status[s] # "kCancelledBySender"
  BY <1>1, <1>2, NothingToRead, NoCancelAnswered DEF KeepAlive
<1>7. Items(to_client'[s]) = Items(c) \cup {a}
  BY <1>1, <1>3, <1>4, ItemsAppend
<1>8. Flight(s)'
  <2>1. NoneAnswered(c) \/ a.to = "cancel-send"
    BY <1>3, <1>6, ItemsNone DEF KeepAlive, NoneAnswered
  <2>2. OneAnswered(to_client'[s])
    BY <1>1, <1>3, <1>4, <2>1, AnsweredAppend DEF Link, Flight
  <2>3. \A b \in Items(to_client'[s]) : b.to = "cancel-send" \/ Awaits(pc[s], b.to)
    BY <1>2, <1>3, <1>7 DEF Link, Flight
  <2>4. writing[s] \in {"part", "both"} => NoneAnswered(to_client'[s])
    BY <1>2, <1>3, <1>7 DEF Link, Flight, NoneAsked, NoneAnswered
  <2> QED BY <1>4, <1>5, <2>2, <2>3, <2>4 DEF Flight, main_vars
<1>9. Asks(s)'
  BY <1>5, CancelsStayAsked
<1>10. Tells(s)'
  <2>1. Told(s, a)'
    BY <1>2, <1>3, AnswerTold
  <2>2. ASSUME NEW b \in Items(c) PROVE Told(s, b)'
    <3>1. c # <<>>
      BY ItemsNone
    <3>2. conn'[s] # "up" /\ Told(s, b)
      BY <1>4, <1>6, <3>1 DEF Link, Tells
    <3> QED BY <3>2, ToldStays
  <2> QED BY <1>7, <2>1, <2>2 DEF Tells
<1>11. CancelCloses(s)'
  BY <1>3, <1>4, <1>6, <1>7 DEF CancelCloses, KeepAlive, main_vars
<1>12. CancelLate(s)'
  <2>1. ASSUME NEW n \in SessionOf(s)', outcome'[n] = "open",
               NEW b \in Items(to_client'[s]), b.to = "cancel-send", b.code = "200"
        PROVE  FALSE
    <3>1. b = a /\ req.type = "cancel-send" /\ resp = "200"
      BY <1>3, <1>6, <1>7, <2>1
    <3>2. session_id' = 0
      BY <3>1 DEF Does, Data, Idles, Ends
    <3>3. n \in 1 .. MaxRequests /\ DOMAIN outcome' = 1 .. MaxRequests
      BY DEF SessionOf, IInv, TypeOK
    <3> QED BY <2>1, <3>2, <3>3 DEF IInv, OneOpenSession
  <2>2. ASSUME NEW n \in SessionOf(s)', outcome'[n] = "completed", pc[s] # "done"
        PROVE  /\ to_client'[s] # <<>>
               /\ Head(to_client'[s]).to = "verify-integrity" /\ Tail(todo[s]) = <<>>
    <3>1. CASE n \in SessionOf(s) /\ outcome[n] = "completed"
      <4>1. c # <<>> /\ Head(c).to = "verify-integrity" /\ Tail(todo[s]) = <<>>
        BY <2>2, <3>1 DEF Link, CancelLate
      <4> QED BY <1>1, <1>3, <1>4, <4>1, HeadAppend
    <3>2. CASE req.type = "verify-integrity" /\ resp = "200" /\ Tail(todo[s]) = <<>>
      BY <1>1, <1>3, <1>4, <1>6, <3>2, HeadAppend DEF KeepAlive
    <3> QED BY <2>2, <3>1, <3>2, CompletedBy
  <2> QED BY <1>6, <2>1, <2>2 DEF CancelLate, main_vars
<1>13. Named(s)' /\ Verdict(s)' /\ Work(s)'
  BY <1>1, <1>2, SavedByVerify, Undisturbed
<1>14. Begun(s)'
  BY <1>2, <1>4 DEF Begun, Link, Flight, NoneAsked, KeepAlive
<1>15. Unsent(s)'
  BY <1>1, <1>2, <1>4, <1>5, UnsentServed
<1> QED BY <1>8, <1>9, <1>10, <1>11, <1>12, <1>13, <1>14, <1>15 DEF Link


\* On a broken connection the server handles what still arrives, and at last
\* notices the loss.
LEMMA BrokenLink ==
  ASSUME Controller, Senders, NEW s \in Sender, Link(s), conn[s] \in {"astray", "down"},
         Handled(s), UNCHANGED main_vars, writing'[s] = writing[s], Unsent(s)',
         saved' = saved \/ pc[s] \in {"verify", "done"},
         conn'[s] \in {"half", "down", "gone"}, to_client'[s] = to_client[s],
         OneAsked(to_server'[s]), NoneAsked(to_server'[s]),
         \A r \in Items(to_server'[s]) : r \in Items(to_server[s]) /\ r.type = "cancel-send",
         \A n \in SessionOf(s)' : outcome'[n] = "completed" =>
           n \in SessionOf(s) /\ (outcome[n] = "completed" \/ to_client[s] = <<>>)
  PROVE  Link(s)'
<1>1. SendTypeOK /\ pc[s] # "connect"
  BY DEF Senders, TypeInv, ReadersInv, Aligned
<1>2. /\ \A b \in Items(to_client[s]) : b.to # "cancel-send"
      /\ send_status[s] # "kCancelledBySender"
  BY NoCancelAnswered
<1>3. Flight(s)'
  BY DEF Link, Flight, main_vars
<1>4. Asks(s)'
  BY CancelsStayAsked
<1>5. Tells(s)'
  BY ToldStays DEF Link, Tells
<1>6. CancelCloses(s)' /\ CancelLate(s)'
  BY <1>2 DEF CancelCloses, Link, CancelLate, main_vars
<1>7. Named(s)' /\ Verdict(s)' /\ Work(s)'
  BY <1>1, Undisturbed
<1>8. Begun(s)'
  BY DEF Begun
<1> QED BY <1>3, <1>4, <1>5, <1>6, <1>7, <1>8 DEF Link

\* The rest of the invariant, when only the connection of s takes part.
LEMMA ServedKeeps ==
  ASSUME TInv, NEW s \in Sender, Handled(s), IInv',
         UNCHANGED <<wait_condition, waiting>>, UNCHANGED <<main_vars, writing>>,
         Link(s)', Senders',
         \A t \in Sender \ {s} : /\ conn'[t] = conn[t] /\ to_server'[t] = to_server[t]
                                 /\ to_client'[t] = to_client[t]
  PROVE  TInv'
<1>1. Controller /\ SendTypeOK /\ \A t \in Sender : Link(t)
  BY DEF TInv, Senders, TypeInv
<1>2. Controller'
  BY <1>1, OwnerKeeps, OnePartKeeps DEF Controller, main_vars
<1>3. ASSUME NEW t \in Sender, t # s PROVE Link(t)'
  <2>1. Same(t)
    BY <1>3 DEF Same, main_vars
  <2>2. Spares(t)
    BY <1>1, <1>3, HandledSpares
  <2> QED BY <1>1, <2>1, <2>2, OthersLink
<1> QED BY <1>2, <1>3 DEF TInv

LEMMA ServeAnswers ==
  ASSUME TInv, NEW s \in Sender, Serve(s), conn[s] = "up"
  PROVE  TInv'
<1>1. /\ Controller /\ SendTypeOK /\ TypeInv /\ ReadersInv /\ Senders
      /\ \A t \in Sender : Link(t)
  BY DEF TInv, Senders, TypeInv
<1>2. to_server[s] # <<>> /\ UNCHANGED <<main_vars, cancel, readers>>
  BY DEF Serve
<1>3. PICK req : req = Head(to_server[s])
  OBVIOUS
<1>4. PICK resp \in Responses : Handle(s, req, resp) /\ Reply(s, AnswerTo(req, resp))
  BY <1>3 DEF Serve
<1>5. req \in Request /\ req \in Items(to_server[s]) /\ Asked(s, req)
  BY <1>1, <1>2, <1>3, ItemsTail DEF SendTypeOK, Link, Asks
<1>6. /\ Does(s, req, resp) /\ Handled(s) /\ IInv' /\ UNCHANGED <<wait_condition, waiting>>
      /\ req.type \in {"request-send", "send-chunk"} => Torment(s, req, resp)
  BY <1>1, <1>4, <1>5, HandleDoes
<1>7. Link(s)'
  BY <1>1, <1>2, <1>3, <1>4, <1>6, ReplyLink
<1>8. ServerAnswers(s)
  <2>1. resp \in IF writing[s] = "torn" THEN TornCodes ELSE Codes(req)
    <3>1. CASE writing[s] = "torn"
      <4>1. pc[s] \in {"request", "chunk"} /\ to_server[s][1].type # "cancel-send"
        BY <1>1, <3>1 DEF ReadersInv, Aligned, Torn
      <4>2. req.type # "cancel-send" /\ req.type \in {"request-send", "send-chunk"}
        BY <1>1, <1>2, <1>3, <1>5, <4>1 DEF SendTypeOK, Link, Flight, Awaits
      <4> QED BY <1>6, <3>1, <4>1, <4>2 DEF Torment
    <3>2. CASE writing[s] # "torn"
      BY <1>5, <1>6, <3>2, AnswerType
    <3> QED BY <3>1, <3>2
  <2>2. CASE req.type = "request-send" /\ resp = "200"
    <3>1. session_id' \in 1 .. MaxRequests /\ received_files' = FilesIn(s)
      BY <1>6, <2>2 DEF Does, Data, Opens
    <3>2. Reply(s, Answer(req.type, resp, session_id', received_files'))
      BY <1>4, <2>2 DEF AnswerTo
    <3> QED BY <1>2, <1>3, <2>1, <2>2, <3>1, <3>2 DEF ServerAnswers
  <2>3. CASE ~(req.type = "request-send" /\ resp = "200")
    <3>1. Reply(s, Answer(req.type, resp, 0, {}))
      BY <1>4, <2>3 DEF AnswerTo
    <3> QED BY <1>2, <1>3, <2>1, <2>3, <3>1 DEF ServerAnswers
  <2> QED BY <2>2, <2>3
<1>9. Senders'
  BY <1>1, <1>8, TypeStep, ReadersStep DEF Senders, SendNext
<1>10. \A t \in Sender \ {s} : /\ conn'[t] = conn[t] /\ to_server'[t] = to_server[t]
                               /\ to_client'[t] = to_client[t]
  BY <1>1, <1>4 DEF Reply, SendTypeOK
<1>11. UNCHANGED writing
  BY <1>4 DEF Reply
<1> QED BY <1>2, <1>6, <1>7, <1>9, <1>10, <1>11, ServedKeeps

\* On a broken connection nothing changes for the senders' coroutines.
LEMMA BrokenSenders ==
  ASSUME Senders, NEW s \in Sender, conn[s] \in {"astray", "down"},
         UNCHANGED <<main_vars, cancel, writing, readers, to_client>>,
         \/ to_server' = [to_server EXCEPT ![s] = Tail(@)] /\ to_server[s] # <<>>
         \/ to_server' = [to_server EXCEPT ![s] = <<>>],
         conn' \in {conn, [conn EXCEPT ![s] = "gone"], [conn EXCEPT ![s] = "half"]}
  PROVE  Senders'
<1>1. /\ to_server \in [Sender -> Seq(Request)] /\ conn \in [Sender -> ConnStatus]
      /\ TypeInv /\ ReadersInv
  BY DEF Senders, TypeInv, SendTypeOK
<1>2. to_server' \in [Sender -> Seq(Request)]
  <2>1. to_server[s] # <<>> => Tail(to_server[s]) \in Seq(Request)
    BY <1>1
  <2>2. <<>> \in Seq(Request)
    OBVIOUS
  <2> QED BY <1>1, <2>1, <2>2
<1>3. conn' \in [Sender -> ConnStatus]
  BY <1>1 DEF ConnStatus
<1>4. TypeInv'
  BY <1>1, <1>2, <1>3 DEF TypeInv, SendTypeOK, HasFile, main_vars
<1>5. ASSUME NEW t \in Sender PROVE Aligned(t)'
  <2>1. Aligned(t) /\ StartReads(t)' = StartReads(t) /\ Cancelling(t)' = Cancelling(t)
    BY <1>1 DEF ReadersInv, StartReads, Cancelling, main_vars
  <2>2. CASE t = s
    <3>1. conn[s] # "up" /\ conn'[s] # "up" /\ pc[s] # "connect"
      BY <1>1 DEF ReadersInv, Aligned
    <3> QED BY <2>1, <2>2, <3>1 DEF Aligned, Both, Torn, main_vars
  <2>3. CASE t # s
    <3>1. conn'[t] = conn[t] /\ to_server'[t] = to_server[t]
      BY <1>1, <2>3
    <3> QED BY <2>1, <3>1 DEF Aligned, Both, Torn, main_vars
  <2> QED BY <2>2, <2>3
<1> QED BY <1>4, <1>5 DEF Senders, ReadersInv


LEMMA ServeBroken ==
  ASSUME TInv, NEW s \in Sender, Serve(s), conn[s] = "down"
  PROVE  TInv'
<1>1. /\ Controller /\ SendTypeOK /\ Senders /\ \A t \in Sender : Link(t)
  BY DEF TInv, Senders, TypeInv
<1>2. /\ to_server[s] # <<>> /\ UNCHANGED <<main_vars, cancel, writing, readers, to_client>>
      /\ \/ /\ KeepAlive(Head(to_server[s]))
            /\ to_server' = [to_server EXCEPT ![s] = Tail(@)]
         \/ to_server' = [to_server EXCEPT ![s] = <<>>]
      /\ conn' \in {conn, [conn EXCEPT ![s] = "gone"]}
  BY DEF Serve
<1>3. PICK req : req = Head(to_server[s])
  OBVIOUS
<1>4. PICK resp \in Responses : Handle(s, req, resp)
  BY <1>3 DEF Serve
<1>5. req \in Request /\ req \in Items(to_server[s]) /\ Asked(s, req)
  BY <1>1, <1>2, <1>3, ItemsTail DEF SendTypeOK, Link, Asks
<1>6. /\ Does(s, req, resp) /\ Handled(s) /\ IInv' /\ UNCHANGED <<wait_condition, waiting>>
      /\ req.type \in {"request-send", "send-chunk"} => Torment(s, req, resp)
  BY <1>1, <1>4, <1>5, HandleDoes
<1>7. /\ conn'[s] \in {"down", "gone"} /\ to_client'[s] = to_client[s]
      /\ \/ to_server'[s] = <<>>
         \/ KeepAlive(Head(to_server[s])) /\ to_server'[s] = Tail(to_server[s])
      /\ \A t \in Sender \ {s} : /\ conn'[t] = conn[t] /\ to_server'[t] = to_server[t]
                                 /\ to_client'[t] = to_client[t]
  BY <1>1, <1>2 DEF SendTypeOK
<1>8. /\ OneAsked(to_server'[s]) /\ NoneAsked(to_server'[s])
      /\ \A r \in Items(to_server'[s]) : r \in Items(to_server[s]) /\ r.type = "cancel-send"
  BY <1>1, <1>2, <1>7, RequestTaken
<1>9. \A n \in SessionOf(s)' : outcome'[n] = "completed" =>
        n \in SessionOf(s) /\ (outcome[n] = "completed" \/ to_client[s] = <<>>)
  <2>1. req.type = "verify-integrity" => to_client[s] = <<>>
    BY <1>1, <1>5, NothingToRead
  <2> QED BY <1>1, <1>6, <2>1, CompletedBy
<1>12. Unsent(s)' /\ (saved' = saved \/ pc[s] \in {"verify", "done"})
  BY <1>1, <1>2, <1>5, <1>6, <1>8, UnsentServed, SavedByVerify
<1>10. Link(s)'
  BY <1>1, <1>2, <1>6, <1>7, <1>8, <1>9, <1>12, BrokenLink
<1>11. Senders'
  BY <1>1, <1>2, BrokenSenders
<1> QED BY <1>2, <1>6, <1>7, <1>10, <1>11, ServedKeeps

LEMMA LossKeeps ==
  ASSUME TInv, NEW s \in Sender, ServerNoticesLoss(s)
  PROVE  TInv'
<1>1. /\ Controller /\ SendTypeOK /\ Senders /\ \A t \in Sender : Link(t)
  BY DEF TInv, Senders, TypeInv
<1>2. /\ conn[s] \in {"astray", "down"}
      /\ conn' = [conn EXCEPT ![s] = "gone"] \/ conn' = [conn EXCEPT ![s] = "half"]
      /\ to_server' = [to_server EXCEPT ![s] = <<>>]
      /\ UNCHANGED <<main_vars, cancel, writing, to_client, readers>>
  BY DEF ServerNoticesLoss, ServerEnds
<1>3. \/ Ends(s, "sender_lost") /\ IInv' /\ UNCHANGED <<wait_condition, waiting>>
      \/ Idles /\ IInv' /\ UNCHANGED <<wait_condition, waiting>>
  <2>1. CASE NotifySenderLost(s)
    BY <1>1, <2>1, LossDoes DEF Link
  <2>2. CASE UNCHANGED vars
    <3>1. IInv'
      BY <1>1, <2>2, StutterKeeps DEF Controller
    <3> QED BY <2>2, <3>1 DEF vars, session, stream, disk, Idles
  <2> QED BY <2>1, <2>2 DEF ServerNoticesLoss
<1>4. Handled(s)
  BY <1>3 DEF Handled, Ended, Outcomes
<1>5. /\ conn'[s] \in {"half", "down", "gone"} /\ to_client'[s] = to_client[s]
      /\ to_server'[s] = <<>>
      /\ \A t \in Sender \ {s} : /\ conn'[t] = conn[t] /\ to_server'[t] = to_server[t]
                                 /\ to_client'[t] = to_client[t]
  BY <1>1, <1>2 DEF SendTypeOK
<1>6. /\ OneAsked(to_server'[s]) /\ NoneAsked(to_server'[s])
      /\ \A r \in Items(to_server'[s]) : r \in Items(to_server[s]) /\ r.type = "cancel-send"
  BY <1>5, ItemsNone DEF OneAsked, NoneAsked
<1>7. \A n \in SessionOf(s)' : outcome'[n] = "completed" =>
        n \in SessionOf(s) /\ (outcome[n] = "completed" \/ to_client[s] = <<>>)
  <2>1. CASE Ends(s, "sender_lost")
    <3>1. outcome \in [1 .. MaxRequests -> Outcomes] /\ session_id # 0
          /\ accepted' = accepted /\ outcome' = [outcome EXCEPT ![session_id] = "sender_lost"]
      BY <1>1, <2>1 DEF Controller, IInv, TypeOK, Ends, MineOpen
    <3> QED BY <3>1 DEF SessionOf
  <2>2. CASE Idles
    BY <2>2 DEF Idles, SessionOf
  <2> QED BY <1>3, <2>1, <2>2
<1>10. Unsent(s)' /\ saved' = saved
  BY <1>1, <1>2, <1>3, <1>6, UnsentRests DEF Idles, Ends, Closes
<1>8. Link(s)'
  BY <1>1, <1>2, <1>4, <1>5, <1>6, <1>7, <1>10, BrokenLink
<1>9. Senders'
  BY <1>1, <1>2, BrokenSenders
<1> QED BY <1>2, <1>3, <1>4, <1>5, <1>8, <1>9, ServedKeeps


-----------------------------------------------------------------------------
\* The sender whose coroutine runs.

LEMMA ErrorCode == Error.code = "error"
BY DEF Error, Answer

\* Start reads the answer to its own request, or fails.
StartResumed(s, ans) ==
  \/ /\ ans = Error /\ conn[s] # "up"
     /\ to_client[s] = <<>> /\ to_client'[s] = <<>>
  \/ /\ to_client[s] # <<>> /\ ans = Head(to_client[s]) /\ ans \in Items(to_client[s])
     /\ ans.to # "cancel-send" /\ Awaits(pc[s], ans.to) /\ Told(s, ans)
     /\ NoneAsked(to_server[s]) /\ NoneAnswered(to_client'[s])
     /\ writing[s] = "no"

LEMMA StartResumes ==
  ASSUME Senders, NEW s \in Sender, Link(s), NEW ans, Resume(s, "start", ans),
         pc[s] # "done"
  PROVE  /\ StartResumed(s, ans)
         /\ Items(to_client'[s]) \subseteq Items(to_client[s])
         /\ OneAnswered(to_client'[s])
<1> DEFINE c == to_client[s]
<1>1. /\ c \in Seq(Response) /\ readers[s] \in Seq(Reader)
      /\ to_client \in [Sender -> Seq(Response)]
      /\ OneAnswered(c) /\ Head(readers[s]) = "start" /\ readers[s] # <<>>
  BY DEF Senders, TypeInv, SendTypeOK, Link, Flight, Resume, Reader
<1>2. CASE c # <<>>
  <2>1. ans = Head(c) /\ to_client'[s] = Tail(c)
    BY <1>1, <1>2 DEF Resume
  <2>7. writing[s] = "no" /\ Answered(readers[s], c)
    <3>3. ans \in Response
      BY <1>1, <1>2, <2>1
    <3>1. ans.code # "error"
      BY <3>3 DEF Response
    <3>2. writing[s] = "no"
      BY <3>1, ResumedInOrder DEF RestInOrder, Senders
    <3> QED BY <3>2 DEF Senders, ReadersInv, Aligned
  <2>2. 1 \in 1 .. Len(c) /\ Head(c) = c[1] /\ Head(readers[s]) = readers[s][1]
    BY <1>1, <1>2
  <2>3. ans.to # "cancel-send"
    BY <1>1, <2>1, <2>2, <2>7 DEF Answered, IsCancel
  <2>4. ans \in Items(c) /\ Items(Tail(c)) \subseteq Items(c)
    BY <1>1, <1>2, <2>1, ItemsTail
  <2>5. OneAnswered(Tail(c)) /\ NoneAnswered(Tail(c))
    BY <1>1, <1>2, <2>1, <2>3, AnsweredTail
  <2>6. NoneAsked(to_server[s]) /\ Awaits(pc[s], ans.to) /\ Told(s, ans)
    BY <2>3, <2>4 DEF Link, Flight, NoneAnswered, Tells
  <2> QED BY <1>2, <2>1, <2>3, <2>4, <2>5, <2>6, <2>7 DEF StartResumed
<1>3. CASE c = <<>>
  <2>1. ans = Error /\ conn[s] # "up" /\ to_client'[s] = <<>>
    BY <1>3 DEF Resume
  <2> QED BY <1>1, <1>3, <2>1 DEF StartResumed
<1> QED BY <1>2, <1>3

\* Start returns.  What is left in flight concerns nobody any more.
LEMMA FinishLink ==
  ASSUME Senders, NEW s \in Sender, Link(s), UNCHANGED vars,
         NEW status, NEW feedbacks, Finish(s, status, feedbacks),
         Items(to_client'[s]) \subseteq Items(to_client[s]), OneAnswered(to_client'[s]),
         \/ NoneAsked(to_server[s]) /\ NoneAnswered(to_client'[s])
         \/ send_session_id'[s] = send_session_id[s] /\ todo'[s] = todo[s],
         send_session_id'[s] # 0 => send_session_id'[s] \in SessionOf(s),
         status = "kCancelledBySender" => send_status[s] = "kCancelledBySender",
         status = "kCompleted" =>
           send_session_id'[s] # 0 /\ outcome[send_session_id'[s]] = "completed",
         status = "kCancelledByReceiver" =>
           send_session_id'[s] # 0 /\ outcome[send_session_id'[s]] = "cancelled_by_receiver",
         Work(s)'
  PROVE  Link(s)'
<1>1. /\ send_status'[s] = status /\ pc'[s] = "done" /\ to_server' = to_server
      /\ conn'[s] = Disconnect(conn[s]) /\ conn[s] \in ConnStatus /\ writing' = writing
  BY DEF Finish, Senders, TypeInv, SendTypeOK
<1>2. conn'[s] # "up" /\ (conn[s] \in {"half", "gone"} => conn'[s] = "gone")
  BY <1>1 DEF Disconnect, ConnStatus
<1>3. UNCHANGED <<session_id, sender, accepted, outcome, saved>> /\ SessionOf(s)' = SessionOf(s)
  BY DEF vars, session, disk, SessionOf
<1>4. NoneAnswered(to_client[s]) => NoneAnswered(to_client'[s])
  BY DEF NoneAnswered
<1>5. Flight(s)'
  BY <1>1, <1>4 DEF Link, Flight, Awaits
<1>6. Named(s)'
  BY <1>1, <1>3 DEF Named
<1>7. Asks(s)'
  <2>1. ASSUME NEW r \in Items(to_server[s]) PROVE Asked(s, r)'
    <3>1. Asked(s, r)
      BY DEF Link, Asks
    <3>2. CASE NoneAsked(to_server[s])
      BY <1>3, <3>1, <3>2 DEF Asked, NoneAsked, Data
    <3>3. CASE send_session_id'[s] = send_session_id[s] /\ todo'[s] = todo[s]
      BY <1>1, <1>3, <3>1, <3>3 DEF Asked, MineOpen, Chunks
    <3> QED BY <3>2, <3>3
  <2> QED BY <1>1, <2>1 DEF Asks
<1>8. Tells(s)'
  <2>1. ASSUME NEW a \in Items(to_client'[s]) PROVE Told(s, a)'
    <3>1. Told(s, a)
      BY DEF Link, Tells
    <3>2. CASE NoneAnswered(to_client'[s])
      BY <3>1, <3>2 DEF Told, Answers200, NoneAnswered, Data
    <3>3. CASE send_session_id'[s] = send_session_id[s] /\ todo'[s] = todo[s]
      BY <1>1, <1>2, <1>3, <3>1, <3>3 DEF Told, Answers200
    <3> QED BY <3>2, <3>3
  <2> QED BY <2>1 DEF Tells
<1>9. CancelCloses(s)' /\ CancelLate(s)' /\ Verdict(s)'
  BY <1>1, <1>2, <1>3 DEF Link, CancelCloses, CancelLate, Verdict
<1>10. Begun(s)' /\ Unsent(s)'
  BY <1>1, <1>2 DEF Begun, Unsent
<1> QED BY <1>5, <1>6, <1>7, <1>8, <1>9, <1>10 DEF Link

\* No chunk was recorded that is still to be sent.
UnsentYet(s) ==
  MineOpen(s) /\ todo[s] # <<>> =>
    /\ \A f \in Items(Tail(todo[s])) : received_chunks[f] = {}
    /\ \A k \in received_chunks[Head(todo[s])] :
         /\ pc[s] \in {"chunk", "verify"} /\ k <= chunk[s]
         /\ pc[s] = "chunk" => k # chunk[s]

\* Start sends its next request or begins to, with none of its own and no answer
\* in flight.
LEMMA SendsLink ==
  ASSUME Senders, NEW s \in Sender, Link(s), UNCHANGED <<vars, conn>>,
         NEW req \in Request,
         \/ /\ to_server'[s] = IF conn[s] = "up" THEN Append(to_server[s], req)
                              ELSE to_server[s]
            /\ writing'[s] \notin {"part", "both"}
         \/ to_server'[s] = to_server[s] /\ writing'[s] = "part",
         NoneAsked(to_server[s]), NoneAnswered(to_client'[s]),
         Items(to_client'[s]) \subseteq Items(to_client[s]),
         Awaits(pc'[s], req.type), pc'[s] \notin {"connect", "retry", "done"},
         conn[s] = "up" => Asked(s, req)', req.type # "cancel-send",
         \A n \in SessionOf(s) : outcome[n] = "completed" =>
           conn[s] # "up" /\ to_client'[s] = <<>>,
         send_session_id'[s] # 0 => send_session_id'[s] \in SessionOf(s),
         pc'[s] = "request" => send_session_id'[s] = 0,
         \/ send_status'[s] = "kSending" /\ pc'[s] # "request"
         \/ send_status'[s] = send_status[s] /\ send_session_id'[s] = send_session_id[s],
         pc'[s] = "request" => send_status[s] \in {"kWaiting", "kCancelledBySender"},
         UnsentYet(s)', Work(s)'
  PROVE  Link(s)'
<1> DEFINE q == to_server[s]
<1>1. q \in Seq(Request) /\ OneAsked(q)
  BY DEF Senders, TypeInv, SendTypeOK, Link, Flight
<1>2. /\ OneAsked(to_server'[s])
      /\ \A r \in Items(to_server'[s]) : r \in Items(q) \/ (conn[s] = "up" /\ r = req)
      /\ writing'[s] \in {"part", "both"} => NoneAsked(to_server'[s])
  BY <1>1, AskedAppend, ItemsAppend
<1>3. /\ UNCHANGED <<session_id, sender, received_chunks, accepted, outcome, saved>>
      /\ SessionOf(s)' = SessionOf(s) /\ conn' = conn
  BY DEF vars, session, disk, SessionOf
<1>4. Flight(s)'
  BY <1>2 DEF Flight, OneAnswered, NoneAsked, NoneAnswered, Items
<1>5. Named(s)'
  BY <1>3 DEF Named
<1>6. Asks(s)'
  <2>1. ASSUME NEW r \in Items(q) PROVE Asked(s, r)'
    BY <1>3 DEF Link, Asks, Asked, NoneAsked, Data
  <2> QED BY <1>2, <2>1 DEF Asks
<1>7. Tells(s)'
  <2>1. ASSUME NEW a \in Items(to_client'[s]) PROVE Told(s, a)'
    BY DEF Link, Tells, Told, Answers200, NoneAnswered, Data
  <2> QED BY <2>1 DEF Tells
<1>8. CancelCloses(s)' /\ Verdict(s)'
  BY <1>3 DEF Link, CancelCloses, Verdict
<1>9. CancelLate(s)'
  BY <1>3 DEF Link, CancelLate
<1>10. Begun(s)'
  BY <1>3 DEF Begun, MayChunk, Asked, Awaits, Data, MineOpen
<1>11. Unsent(s)'
  BY DEF Unsent, UnsentYet
<1> QED BY <1>4, <1>5, <1>6, <1>7, <1>8, <1>9, <1>10, <1>11 DEF Link

LEMMA BeginSends ==
  ASSUME SendTypeOK, NEW s \in Sender, NEW req \in Request, NEW rest, Begin(s, req, rest)
  PROVE  /\ \/ /\ to_server'[s] = IF conn[s] = "up" THEN Append(to_server[s], req)
                                 ELSE to_server[s]
               /\ writing'[s] = writing[s]
            \/ to_server'[s] = to_server[s] /\ writing'[s] = "part"
         /\ \A t \in Sender \ {s} : to_server'[t] = to_server[t] /\ writing'[t] = writing[t]
BY DEF Begin, Issue, SendTypeOK

\* Without its type, which is of no concern to the others.
LEMMA BeginOthers ==
  ASSUME SendTypeOK, NEW s \in Sender, NEW req, NEW rest, Begin(s, req, rest)
  PROVE  \A t \in Sender \ {s} : to_server'[t] = to_server[t] /\ writing'[t] = writing[t]
BY DEF Begin, Issue, SendTypeOK

\* Start has written its request.
LEMMA WriteEndsLink ==
  ASSUME Senders, NEW s \in Sender, Link(s), UNCHANGED vars, WriteEnds(s)
  PROVE  Link(s)'
<1>1. /\ UNCHANGED <<main_vars, conn, to_client>>
      /\ pc[s] \in {"request", "chunk"} /\ writing[s] \in {"part", "both"}
      /\ to_server'[s] = IF conn[s] = "up" THEN Append(to_server[s], Current(s))
                         ELSE to_server[s]
      /\ writing'[s] \notin {"part", "both"}
  BY DEF WriteEnds, Issue, Senders, TypeInv, SendTypeOK
<1>2. PICK req \in Request : req = Current(s)
  BY <1>1, CurrentType DEF Senders
<1>9. req.type # "cancel-send" /\ Awaits(pc[s], req.type)
  BY <1>1, <1>2 DEF Current, RequestSend, SendChunk, Awaits
<1>3. NoneAsked(to_server[s]) /\ NoneAnswered(to_client[s])
  BY <1>1 DEF Link, Flight
<1>4. conn[s] = "up" => Asked(s, req)'
  <2>1. CASE pc[s] = "request"
    <3>1. req.type = "request-send"
      BY <1>2, <2>1 DEF Current, RequestSend
    <3> QED BY <3>1 DEF Asked, Data
  <2>2. CASE pc[s] = "chunk" /\ conn[s] = "up"
    <3>1. MayChunk(s)
      BY <1>1, <2>2 DEF Link, Begun
    <3>2. /\ req.type = "send-chunk" /\ req.sid = send_session_id[s]
          /\ req.file = Head(todo[s]) /\ req.index = chunk[s]
      BY <1>2, <2>2 DEF Current, SendChunk
    <3>3. UNCHANGED <<session_id, sender, saved, send_session_id, todo, chunk, pc>>
      BY <1>1 DEF main_vars, vars, session, disk
    <3> QED BY <3>1, <3>2, <3>3 DEF Asked, MayChunk, MineOpen, Data, Chunks
  <2> QED BY <1>1, <2>1, <2>2
<1>5. \A n \in SessionOf(s) : outcome[n] = "completed" => conn[s] # "up" /\ to_client[s] = <<>>
  <2>1. to_client[s] # <<>> => Head(to_client[s]) \in Items(to_client[s])
    BY ItemsTail DEF Senders, TypeInv, SendTypeOK
  <2> QED BY <1>1, <1>3, <2>1 DEF Link, CancelLate, NoneAnswered
<1>6. /\ send_session_id[s] # 0 => send_session_id[s] \in SessionOf(s)
      /\ pc[s] = "request" =>
           send_session_id[s] = 0 /\ send_status[s] \in {"kWaiting", "kCancelledBySender"}
  BY DEF Link, Named
<1>7. UnsentYet(s)'
  BY <1>1 DEF Link, Unsent, UnsentYet, MineOpen, main_vars, vars, session
<1>8. Work(s)'
  BY <1>1 DEF Link, Work, main_vars, vars, disk
<1>10. /\ \/ /\ to_server'[s] = IF conn[s] = "up" THEN Append(to_server[s], req)
                                ELSE to_server[s]
             /\ writing'[s] \notin {"part", "both"}
          \/ /\ to_server'[s] = to_server[s]
             /\ writing'[s] = "part"
       /\ Awaits(pc'[s], req.type) /\ pc'[s] \notin {"connect", "retry", "done"}
       /\ \A n \in SessionOf(s) : outcome[n] = "completed" =>
            conn[s] # "up" /\ to_client'[s] = <<>>
       /\ NoneAnswered(to_client'[s]) /\ Items(to_client'[s]) \subseteq Items(to_client[s])
       /\ send_session_id'[s] = send_session_id[s] /\ send_status'[s] = send_status[s]
       /\ pc'[s] = pc[s] /\ conn' = conn
  BY <1>1, <1>2, <1>3, <1>5, <1>9 DEF main_vars
<1> QED BY <1>3, <1>4, <1>6, <1>7, <1>8, <1>9, <1>10, SendsLink


-----------------------------------------------------------------------------
\* A step of one sender is no concern of the others.

OthersSame(s) == \A t \in Sender \ {s} : Same(t)

LEMMA FinishOthers ==
  ASSUME SendTypeOK, NEW s \in Sender, NEW status, NEW feedbacks,
         Finish(s, status, feedbacks),
         \A t \in Sender \ {s} : /\ send_session_id'[t] = send_session_id[t]
                                 /\ todo'[t] = todo[t] /\ to_client'[t] = to_client[t]
  PROVE  OthersSame(s)
BY DEF Finish, OthersSame, Same, SendTypeOK

LEMMA ContinueOthers ==
  ASSUME SendTypeOK, NEW s \in Sender, NEW f, NEW i, NEW sid, NEW with, NEW rest,
         Continue(s, f, i, sid, with, rest), UNCHANGED conn,
         \A t \in Sender \ {s} : /\ send_session_id'[t] = send_session_id[t]
                                 /\ todo'[t] = todo[t] /\ to_client'[t] = to_client[t]
                                 /\ send_status'[t] = send_status[t]
  PROVE  OthersSame(s)
<1>1. PICK req : Begin(s, req, rest)
  BY DEF Continue
<1>2. \A t \in Sender \ {s} : to_server'[t] = to_server[t] /\ writing'[t] = writing[t]
  BY <1>1, BeginOthers
<1>3. \A t \in Sender \ {s} : pc'[t] = pc[t] /\ chunk'[t] = chunk[t]
  BY DEF Continue, SendTypeOK
<1> QED BY <1>2, <1>3 DEF OthersSame, Same

LEMMA StartFileOthers ==
  ASSUME SendTypeOK, NEW s \in Sender, NEW f, NEW sid, NEW with, NEW rest, NEW feedbacks,
         StartFile(s, f, sid, with, rest, feedbacks),
         \A t \in Sender \ {s} : /\ send_session_id'[t] = send_session_id[t]
                                 /\ todo'[t] = todo[t] /\ to_client'[t] = to_client[t]
  PROVE  OthersSame(s)
<1>1. CASE Finish(s, "kFailed", feedbacks \cup {[type |-> "SendFailed"]})
  BY <1>1, FinishOthers
<1>2. CASE /\ send_status' = [send_status EXCEPT ![s] = "kSending"]
           /\ Continue(s, f, 0, sid, with, rest) /\ UNCHANGED conn
  <2>1. \A t \in Sender \ {s} : send_status'[t] = send_status[t]
    BY <1>2 DEF SendTypeOK
  <2> QED BY <1>2, <2>1, ContinueOthers
<1> QED BY <1>1, <1>2 DEF StartFile

LEMMA ResumeOthers ==
  ASSUME SendTypeOK, NEW s \in Sender, NEW who, NEW ans, Resume(s, who, ans)
  PROVE  \A t \in Sender \ {s} : to_client'[t] = to_client[t]
BY DEF Resume, SendTypeOK

LEMMA RequestAnswerOthers ==
  ASSUME SendTypeOK, NEW s \in Sender, NEW ans, RequestAnswer(s, ans)
  PROVE  OthersSame(s)
<1>1. \A t \in Sender \ {s} : to_client'[t] = to_client[t]
  BY ResumeOthers DEF RequestAnswer
<1>2. CASE (Finish(s, "kCancelledBySender", {}) \/ Decline(s))
           /\ UNCHANGED <<send_session_id, tokens, todo>>
  BY <1>1, <1>2, FinishOthers DEF Decline
<1>3. CASE /\ pc' = [pc EXCEPT ![s] = "retry"]
           /\ UNCHANGED <<send_status, send_session_id, todo, chunk, conn, writing, to_server>>
  BY <1>1, <1>3 DEF OthersSame, Same, SendTypeOK
<1>4. CASE /\ send_session_id' = [send_session_id EXCEPT ![s] = ans.sid]
           /\ Accepted(s, ans.sid, ans.tokens, Tail(readers[s]))
  <2>1. /\ \A t \in Sender \ {s} : send_session_id'[t] = send_session_id[t]
        /\ todo' = todo
        /\ StartFile(s, Head(todo[s]), ans.sid, ans.tokens, Tail(readers[s]),
                     {[type |-> "RecipientAccepted"]})
    BY <1>4 DEF Accepted, SendTypeOK
  <2> QED BY <1>1, <2>1, StartFileOthers
<1> QED BY <1>2, <1>3, <1>4 DEF RequestAnswer

LEMMA RetryTimerOthers ==
  ASSUME SendTypeOK, NEW s \in Sender, RetryTimer(s)
  PROVE  OthersSame(s)
<1>1. UNCHANGED <<send_session_id, to_client>>
  BY DEF RetryTimer
<1>2. CASE send_status[s] = "kWaiting"
  <2>1. /\ pc' = [pc EXCEPT ![s] = "request"]
        /\ Begin(s, RequestSend(s), readers[s])
        /\ UNCHANGED <<send_status, todo, chunk, conn>>
    BY <1>2 DEF RetryTimer
  <2>2. \A t \in Sender \ {s} : to_server'[t] = to_server[t] /\ writing'[t] = writing[t]
    BY <2>1, BeginOthers
  <2> QED BY <1>1, <2>1, <2>2 DEF OthersSame, Same, SendTypeOK
<1>3. CASE Accepted(s, send_session_id[s], tokens[s], readers[s])
  BY <1>1, <1>3, StartFileOthers DEF Accepted
<1> QED BY <1>2, <1>3 DEF RetryTimer

LEMMA EndingOthers ==
  ASSUME SendTypeOK, NEW s \in Sender, NEW ans, EndingAnswer(s, ans),
         UNCHANGED send_session_id,
         \A t \in Sender \ {s} : to_client'[t] = to_client[t]
  PROVE  OthersSame(s)
BY FinishOthers DEF EndingAnswer

LEMMA ChunkAnswerOthers ==
  ASSUME SendTypeOK, NEW s \in Sender, NEW ans, ChunkAnswer(s, ans)
  PROVE  OthersSame(s)
<1>1. \A t \in Sender \ {s} : to_client'[t] = to_client[t]
  BY ResumeOthers DEF ChunkAnswer
<1>2. UNCHANGED send_session_id
  BY DEF ChunkAnswer
<1>3. CASE EndingAnswer(s, ans)
  BY <1>1, <1>2, <1>3, EndingOthers
<1>4. CASE /\ Continue(s, Head(todo[s]), chunk[s] + 1, send_session_id[s], tokens[s],
                       Tail(readers[s]))
           /\ UNCHANGED <<send_status, todo, conn>>
  BY <1>1, <1>2, <1>4, ContinueOthers
<1> QED BY <1>3, <1>4 DEF ChunkAnswer

LEMMA VerifyAnswerOthers ==
  ASSUME SendTypeOK, NEW s \in Sender, NEW ans, VerifyAnswer(s, ans)
  PROVE  OthersSame(s)
<1>1. \A t \in Sender \ {s} : to_client'[t] = to_client[t]
  BY ResumeOthers DEF VerifyAnswer
<1>2. UNCHANGED send_session_id
  BY DEF VerifyAnswer
<1>3. CASE EndingAnswer(s, ans)
  BY <1>1, <1>2, <1>3, EndingOthers
<1>4. ASSUME NEW feedbacks, todo' = [todo EXCEPT ![s] = Tail(@)],
             StartFile(s, Head(Tail(todo[s])), send_session_id[s], tokens[s],
                       Tail(readers[s]), feedbacks)
      PROVE  OthersSame(s)
  <2>1. \A t \in Sender \ {s} : todo'[t] = todo[t]
    BY <1>4 DEF SendTypeOK
  <2> QED BY <1>1, <1>2, <1>4, <2>1, StartFileOthers
<1>5. ASSUME NEW feedbacks, todo' = [todo EXCEPT ![s] = <<>>],
             Finish(s, "kCompleted", feedbacks)
      PROVE  OthersSame(s)
  <2>1. \A t \in Sender \ {s} : todo'[t] = todo[t]
    BY <1>5 DEF SendTypeOK
  <2> QED BY <1>1, <1>2, <1>5, <2>1, FinishOthers
<1> QED BY <1>3, <1>4, <1>5 DEF VerifyAnswer

LEMMA SideOthers ==
  ASSUME SendTypeOK, NEW s \in Sender, SenderStep(s) \/ Cancel(s) \/ Break(s)
  PROVE  OthersSame(s)
<1>1. CASE Connect(s)
  <2>1. CASE Finish(s, "kFailed", {[type |-> "NetworkError"]})
    BY <1>1, <2>1, FinishOthers DEF Connect
  <2>2. CASE ~Finish(s, "kFailed", {[type |-> "NetworkError"]})
    BY <1>1, <2>2 DEF Connect, ClientConnects, OthersSame, Same, SendTypeOK
  <2> QED BY <2>1, <2>2
<1>2. ASSUME NEW ans, CancelAnswer(s, ans) PROVE OthersSame(s)
  <2>1. \A t \in Sender \ {s} : to_client'[t] = to_client[t]
    BY <1>2, ResumeOthers DEF CancelAnswer
  <2> QED BY <1>2, <2>1 DEF CancelAnswer, OthersSame, Same, SendTypeOK
<1>3. CASE Cancel(s)
  BY <1>3 DEF Cancel, main_vars, Issue, OthersSame, Same, SendTypeOK
<1>4. CASE Break(s)
  BY <1>4 DEF Break, main_vars, OthersSame, Same, SendTypeOK
<1>5. CASE WriteEnds(s)
  BY <1>5 DEF WriteEnds, main_vars, Issue, OthersSame, Same, SendTypeOK
<1> QED
  BY <1>1, <1>2, <1>3, <1>4, <1>5, RequestAnswerOthers, RetryTimerOthers, ChunkAnswerOthers,
     VerifyAnswerOthers DEF SenderStep


-----------------------------------------------------------------------------
\* The steps of Start, at its own connection.

\* No session of s has been completed that s has not read of.
NoneCompleted(s) ==
  \A n \in SessionOf(s) :
    outcome[n] = "completed" => conn[s] # "up" /\ to_client'[s] = <<>>

\* Nothing is recorded of the files after f, nor of f from chunk i on.
SentBefore(s, f, i) ==
  MineOpen(s) => /\ \A g \in Items(Tail(todo'[s])) : received_chunks[g] = {}
                 /\ \A k \in received_chunks[f] : k <= i /\ k # i

LEMMA ContinueLink ==
  ASSUME Senders, NEW s \in Sender, Link(s), UNCHANGED <<vars, conn>>,
         NEW f \in File, todo'[s] # <<>>, f = Head(todo'[s]), NEW i \in Nat,
         NEW sid \in 0 .. MaxRequests, send_session_id'[s] = sid, NEW with, NEW rest,
         Continue(s, f, i, sid, with, rest),
         NoneAsked(to_server[s]), NoneAnswered(to_client'[s]),
         Items(to_client'[s]) \subseteq Items(to_client[s]),
         sid # 0 => sid \in SessionOf(s),
         conn[s] = "up" => MineOpen(s) /\ sid = session_id,
         NoneCompleted(s),
         \/ send_status'[s] = "kSending"
         \/ send_status'[s] = send_status[s] /\ send_session_id'[s] = send_session_id[s],
         writing[s] = "no", SentBefore(s, f, i), Head(todo'[s]) \notin saved \/ pc'[s] = "verify",
         Work(s)'
  PROVE  Link(s)'
<1>1. Token(f, sid, with) \in 0 .. MaxRequests
  BY ChunksOK DEF Token
<1>2. pc \in [Sender -> {"connect", "request", "retry", "chunk", "verify", "done"}]
  BY DEF Senders, TypeInv, SendTypeOK
<1>3. UNCHANGED <<session_id, sender, received_chunks, saved>>
  BY DEF vars, session, disk
<1>7. chunk'[s] = i
  BY DEF Continue, Senders, TypeInv, SendTypeOK
<1>4. PICK req \in Request :
        /\ Begin(s, req, rest)
        /\ req.type \in Data /\ req.sid = sid /\ req.file = f
        /\ \/ pc'[s] = "chunk" /\ req.type = "send-chunk" /\ req.index = i /\ i \in Chunks(f)
           \/ pc'[s] = "verify" /\ req.type = "verify-integrity"
  <2>1. CASE /\ i < TotalChunks[f] /\ pc' = [pc EXCEPT ![s] = "chunk"]
             /\ Begin(s, SendChunk(sid, Token(f, sid, with), f, i), rest)
    <3>1. SendChunk(sid, Token(f, sid, with), f, i) \in Request
      BY <1>1, RequestTypes
    <3>2. i \in Chunks(f) /\ pc'[s] = "chunk"
      BY <1>2, <2>1, ChunksOK DEF Chunks
    <3> QED BY <2>1, <3>1, <3>2 DEF SendChunk, Data
  <2>2. CASE /\ pc' = [pc EXCEPT ![s] = "verify"]
             /\ Begin(s, VerifyIntegrity(sid, Token(f, sid, with), f), rest)
    <3>1. VerifyIntegrity(sid, Token(f, sid, with), f) \in Request
      BY <1>1, RequestTypes
    <3>2. pc'[s] = "verify"
      BY <1>2, <2>2
    <3> QED BY <2>2, <3>1, <3>2 DEF VerifyIntegrity, Data
  <2> QED BY <2>1, <2>2 DEF Continue
<1>5. conn[s] = "up" => Asked(s, req)'
  BY <1>3, <1>4, <1>7 DEF Asked, MineOpen, Data, Chunks
<1>6. /\ Awaits(pc'[s], req.type) /\ req.type # "cancel-send"
      /\ pc'[s] \notin {"connect", "request", "retry", "done"}
  BY <1>4 DEF Awaits, Data
<1>8. UnsentYet(s)'
  BY <1>3, <1>4, <1>7 DEF SentBefore, UnsentYet, MineOpen
<1>9. \/ /\ to_server'[s] = IF conn[s] = "up" THEN Append(to_server[s], req)
                            ELSE to_server[s]
         /\ writing'[s] \notin {"part", "both"}
      \/ to_server'[s] = to_server[s] /\ writing'[s] = "part"
  BY <1>4, BeginSends DEF Senders, TypeInv
<1> QED BY <1>5, <1>6, <1>8, <1>9, SendsLink DEF NoneCompleted

LEMMA StartFileLink ==
  ASSUME Senders, NEW s \in Sender, Link(s), UNCHANGED vars,
         NEW f \in File, todo'[s] # <<>>, f = Head(todo'[s]),
         NEW sid \in 0 .. MaxRequests, send_session_id'[s] = sid, NEW with, NEW rest,
         NEW feedbacks, StartFile(s, f, sid, with, rest, feedbacks),
         NoneAsked(to_server[s]), NoneAnswered(to_client'[s]),
         Items(to_client'[s]) \subseteq Items(to_client[s]),
         sid # 0 => sid \in SessionOf(s),
         conn[s] = "up" => MineOpen(s) /\ sid = session_id,
         NoneCompleted(s), writing[s] = "no", SentBefore(s, f, 0), f \notin saved, Work(s)'
  PROVE  Link(s)'
<1>1. CASE /\ send_status' = [send_status EXCEPT ![s] = "kSending"]
           /\ Continue(s, f, 0, sid, with, rest) /\ UNCHANGED conn
  <2>1. send_status'[s] = "kSending" /\ 0 \in Nat
    BY <1>1 DEF Senders, TypeInv, SendTypeOK
  <2> QED BY <1>1, <2>1, ContinueLink
<1>2. CASE Finish(s, "kFailed", feedbacks \cup {[type |-> "SendFailed"]})
  <2>1. OneAnswered(to_client'[s])
    BY DEF OneAnswered, NoneAnswered, Items
  <2> QED BY <1>2, <2>1, FinishLink
<1> QED BY <1>1, <1>2 DEF StartFile

\* When Start does not return, the head of the answers says what is to be read
\* before the end of the session is known.
LEMMA NoneCompletedYet ==
  ASSUME NEW s \in Sender, Link(s), pc[s] # "done",
         \/ NoneAnswered(to_client[s]) /\ to_client'[s] = to_client[s]
         \/ /\ to_client[s] # <<>>
            /\ Head(to_client[s]).to # "verify-integrity" \/ Tail(todo[s]) # <<>>,
         to_client[s] \in Seq(Response)
  PROVE  NoneCompleted(s)
<1>1. \A n \in SessionOf(s) : outcome[n] = "completed" =>
        /\ conn[s] = "up" => to_client[s] # <<>>
        /\ to_client[s] # <<>> =>
             Head(to_client[s]).to = "verify-integrity" /\ Tail(todo[s]) = <<>>
  BY DEF Link, CancelLate
<1>2. to_client[s] # <<>> => Head(to_client[s]) \in Items(to_client[s])
  BY ItemsTail
<1> QED BY <1>1, <1>2 DEF NoneAnswered, NoneCompleted

LEMMA FinishWork ==
  ASSUME NEW s \in Sender, Link(s), UNCHANGED vars, todo'[s] = todo[s],
         pc[s] \notin {"verify", "done"} \/ pc'[s] \in {pc[s], "verify", "done"}
  PROVE  Work(s)'
BY DEF Link, Work, vars, disk

\* The next file, once the current one is saved.
LEMMA WorkAdvances ==
  ASSUME SendTypeOK, NEW s \in Sender, Work(s), UNCHANGED vars, todo[s] # <<>>,
         Head(todo[s]) \in saved, todo'[s] = Tail(todo[s]),
         Tail(todo[s]) # <<>> \/ pc'[s] = "done"
  PROVE  Work(s)'
<1> DEFINE q == todo[s]
           t == Tail(q)
<1>1. q \in Seq(File) /\ UNCHANGED saved
  BY DEF SendTypeOK, vars, disk
<1>2. /\ t \in Seq(File) /\ Items(q) = {Head(q)} \cup Items(t)
      /\ \A i, j \in DOMAIN t : t[i] = t[j] => i = j
  BY <1>1, ItemsSplit DEF Work
<1>3. t # <<>> => Items(Tail(t)) \subseteq Items(t)
  BY <1>2, ItemsTail
<1>4. Items(t) \cap saved = {} /\ (t # <<>> => Head(t) \in Items(t))
  BY <1>1, ItemsSplit DEF Work
<1> HIDE DEF q, t
<1>5. todo'[s] = t /\ Items(q) \subseteq FilesIn(s) /\ FilesIn(s) \subseteq saved \cup Items(q)
      /\ Head(q) \in saved /\ (t # <<>> \/ pc'[s] = "done")
  BY DEF q, t, Work
<1> QED BY <1>1, <1>2, <1>3, <1>4, <1>5 DEF Work


LEMMA ConnectLink ==
  ASSUME Senders, NEW s \in Sender, Link(s), UNCHANGED vars, Connect(s)
  PROVE  Link(s)'
<1>1. /\ pc[s] = "connect" /\ conn[s] = "none" /\ to_client[s] = <<>>
      /\ writing[s] = "no" /\ to_server[s] = <<>> /\ UNCHANGED <<send_session_id, todo, to_client>>
      /\ SendTypeOK
  BY DEF Connect, Senders, TypeInv, ReadersInv, Aligned
<1>2. Work(s)' /\ SessionOf(s) = {} /\ send_session_id[s] = 0
  BY <1>1, FinishWork DEF Link, Named
<1>3. CASE Finish(s, "kFailed", {[type |-> "NetworkError"]})
  <2>1. OneAnswered(to_client'[s])
    BY <1>1 DEF Link, Flight
  <2> QED BY <1>1, <1>2, <1>3, <2>1, FinishLink
<1>4. CASE ~Finish(s, "kFailed", {[type |-> "NetworkError"]})
  <2>1. /\ conn'[s] = "up" /\ send_status'[s] = "kWaiting" /\ pc'[s] = "request"
        /\ \/ to_server'[s] = <<RequestSend(s)>> /\ writing'[s] = "no"
           \/ to_server'[s] = <<>>
    BY <1>1, <1>4 DEF Connect, ClientConnects, SendTypeOK
  <2>2. /\ Items(to_server'[s]) \subseteq {RequestSend(s)} /\ OneAsked(to_server'[s])
        /\ writing'[s] \in {"part", "both"} => Items(to_server'[s]) = {}
        /\ Items(to_client'[s]) = {}
    BY <1>1, <2>1 DEF Items, OneAsked
  <2>3. Flight(s)'
    BY <1>1, <2>1, <2>2
       DEF Flight, OneAnswered, NoneAsked, NoneAnswered, Awaits, RequestSend
  <2>4. SessionOf(s)' = {}
    BY <1>2 DEF vars, SessionOf
  <2>5. Named(s)' /\ CancelCloses(s)' /\ CancelLate(s)' /\ Verdict(s)' /\ Tells(s)'
    BY <1>1, <1>2, <2>1, <2>2, <2>4
       DEF Named, CancelCloses, CancelLate, Verdict, Tells
  <2>6. Asks(s)'
    BY <2>2 DEF Asks, Asked, RequestSend, Data
  <2>7. Begun(s)' /\ Unsent(s)'
    <3>1. UNCHANGED <<session_id, sender, received_chunks, todo>>
      BY <1>1 DEF vars, session
    <3> QED BY <1>1, <2>1, <3>1 DEF Begun, Link, Unsent, MineOpen
  <2> QED BY <1>2, <2>3, <2>5, <2>6, <2>7 DEF Link
<1> QED BY <1>3, <1>4

LEMMA RequestAnswerLink ==
  ASSUME Senders, NEW s \in Sender, Link(s), UNCHANGED vars, NEW ans, RequestAnswer(s, ans)
  PROVE  Link(s)'
<1>1. /\ pc[s] = "request" /\ Resume(s, "start", ans) /\ SendTypeOK /\ TypeInv
  BY DEF RequestAnswer, Senders, TypeInv
<1>2. /\ StartResumed(s, ans) /\ Items(to_client'[s]) \subseteq Items(to_client[s])
      /\ OneAnswered(to_client'[s])
  BY <1>1, StartResumes
<1>3. todo'[s] = todo[s] => Work(s)'
  BY <1>1, FinishWork
<1>4. Named(s) /\ send_session_id[s] = 0
  BY <1>1 DEF Link, Named
<1>5. CASE /\ \/ Decline(s)
              \/ Finish(s, "kCancelledBySender", {}) /\ send_status[s] = "kCancelledBySender"
           /\ UNCHANGED <<send_session_id, tokens, todo>>
  BY <1>2, <1>3, <1>4, <1>5, FinishLink DEF Decline
<1>6. CASE ans.code \in {"403 receiver busy", "403 sender cancelled", "200"}
  <2>1. /\ to_client[s] # <<>> /\ ans = Head(to_client[s]) /\ ans.to = "request-send"
        /\ Told(s, ans) /\ NoneAsked(to_server[s]) /\ NoneAnswered(to_client'[s])
        /\ writing[s] = "no"
    <3>1. ans # Error
      BY <1>6, ErrorCode
    <3>2. Awaits(pc[s], ans.to)
      BY <1>2, <3>1 DEF StartResumed
    <3>3. ans.to = "request-send"
      BY <1>1, <3>2 DEF Awaits
    <3> QED BY <1>2, <3>1, <3>3 DEF StartResumed
  <2>2. NoneCompleted(s)
    BY <1>1, <2>1, NoneCompletedYet DEF SendTypeOK
  <2>3. CASE /\ pc' = [pc EXCEPT ![s] = "retry"]
             /\ UNCHANGED <<send_status, send_session_id, todo, conn, writing, to_server>>
    <3>1. pc'[s] = "retry"
      BY <1>1, <2>3 DEF SendTypeOK
    <3>2. /\ SessionOf(s)' = SessionOf(s) /\ Work(s)'
          /\ UNCHANGED <<session_id, sender, received_chunks, outcome, saved>>
      BY <1>3, <2>3 DEF vars, session, disk, SessionOf
    <3>3. Flight(s)'
      BY <1>2, <2>1, <2>3 DEF Flight, NoneAsked, NoneAnswered, Link
    <3>4. Named(s)' /\ CancelCloses(s)' /\ Verdict(s)'
      BY <1>1, <1>2, <2>3, <3>1, <3>2 DEF Link, Named, CancelCloses, Verdict
    <3>5. Asks(s)'
      BY <2>1, <2>3, <3>2 DEF Link, Asks, Asked, NoneAsked, Data
    <3>6. Tells(s)'
      <4>1. ASSUME NEW a \in Items(to_client'[s]) PROVE Told(s, a)'
        BY <1>2, <2>1 DEF Link, Tells, Told, Answers200, NoneAnswered, Data
      <4> QED BY <4>1 DEF Tells
    <3>7. CancelLate(s)'
      BY <1>1, <1>2, <2>2, <2>3, <3>1, <3>2 DEF Link, CancelLate, NoneCompleted
    <3>8. Begun(s)' /\ Unsent(s)'
      BY <1>1, <2>3, <3>1, <3>2 DEF Begun, Link, Unsent, MineOpen
    <3> QED BY <3>2, <3>3, <3>4, <3>5, <3>6, <3>7, <3>8 DEF Link
  <2>4. CASE /\ ans.code = "200"
             /\ send_session_id' = [send_session_id EXCEPT ![s] = ans.sid]
             /\ Accepted(s, ans.sid, ans.tokens, Tail(readers[s]))
    <3>1. /\ ans.sid \in SessionOf(s) /\ ans.sid \in 0 .. MaxRequests
          /\ conn[s] = "up" => MineOpen(s) /\ ans.sid = session_id
      BY <1>1, <2>1, <2>4, ResumeTypes DEF Told, Answers200
    <3>2. /\ send_session_id'[s] = ans.sid /\ UNCHANGED todo
          /\ StartFile(s, Head(todo[s]), ans.sid, ans.tokens, Tail(readers[s]),
                       {[type |-> "RecipientAccepted"]})
      BY <1>1, <2>4 DEF Accepted, SendTypeOK
    <3>3. todo[s] # <<>> /\ Head(todo[s]) \in File
      BY <1>1, CurrentFileType DEF TypeInv, HasFile, CurrentFile
    <3>4. PICK f \in File : f = Head(todo[s])
      BY <3>3
    <3>5. SentBefore(s, f, 0) /\ f \notin saved
      BY <1>1, <3>2, <3>3, <3>4 DEF SentBefore, Link, Unsent, Work
    <3> QED BY <1>2, <1>3, <2>1, <2>2, <3>1, <3>2, <3>3, <3>4, <3>5, StartFileLink
  <2> QED BY <1>5, <1>6, <2>3, <2>4, <1>1 DEF RequestAnswer
<1> QED BY <1>5, <1>6 DEF RequestAnswer

LEMMA RetryTimerLink ==
  ASSUME Senders, NEW s \in Sender, Link(s), UNCHANGED vars, RetryTimer(s)
  PROVE  Link(s)'
<1>1. /\ pc[s] = "retry" /\ UNCHANGED <<send_session_id, to_client>>
      /\ SendTypeOK /\ TypeInv /\ writing[s] = "no"
  BY DEF RetryTimer, Senders, TypeInv, ReadersInv, Aligned
<1>2. /\ NoneAsked(to_server[s]) /\ NoneAnswered(to_client[s])
      /\ NoneAnswered(to_client'[s])
      /\ Items(to_client'[s]) \subseteq Items(to_client[s])
  BY <1>1 DEF Link, Flight, Awaits, NoneAsked, NoneAnswered
<1>3. NoneCompleted(s)
  BY <1>1, <1>2, NoneCompletedYet DEF SendTypeOK
<1>4. send_session_id[s] = 0 /\ send_status[s] \in {"kWaiting", "kCancelledBySender"}
  BY <1>1 DEF Link, Named
<1>5. todo'[s] = todo[s] => Work(s)'
  BY <1>1, FinishWork
<1>6. CASE send_status[s] = "kWaiting"
  <2>1. /\ pc'[s] = "request" /\ UNCHANGED <<send_status, todo, conn>>
        /\ Begin(s, RequestSend(s), readers[s])
    BY <1>1, <1>6 DEF RetryTimer, SendTypeOK
  <2>2. PICK req \in Request : req = RequestSend(s)
    BY DEF Request, RequestSend
  <2>3. Awaits(pc'[s], req.type) /\ req.type # "cancel-send" /\ Asked(s, req)'
    BY <2>1, <2>2 DEF RequestSend, Awaits, Asked, Data
  <2>4. \/ /\ to_server'[s] = IF conn[s] = "up" THEN Append(to_server[s], req)
                              ELSE to_server[s]
           /\ writing'[s] \notin {"part", "both"}
        \/ to_server'[s] = to_server[s] /\ writing'[s] = "part"
    BY <1>1, <2>1, <2>2, BeginSends
  <2>5. UnsentYet(s)'
    <3>1. UNCHANGED <<session_id, sender, received_chunks>>
      BY DEF vars, session
    <3> QED BY <1>1, <2>1, <3>1 DEF Link, Unsent, UnsentYet, MineOpen
  <2>6. send_session_id'[s] = send_session_id[s] /\ todo'[s] = todo[s]
        /\ send_status'[s] = send_status[s] /\ conn' = conn /\ to_client' = to_client
    BY <1>1, <2>1
  <2>7. \A n \in SessionOf(s) : outcome[n] = "completed" =>
          conn[s] # "up" /\ to_client'[s] = <<>>
    BY <1>3 DEF NoneCompleted
  <2> QED BY <1>2, <1>4, <1>5, <2>1, <2>3, <2>4, <2>5, <2>6, <2>7, SendsLink
<1>7. CASE send_status[s] # "kWaiting"
  <2>1. /\ UNCHANGED todo
        /\ StartFile(s, Head(todo[s]), send_session_id[s], tokens[s], readers[s],
                     {[type |-> "RecipientAccepted"]})
    BY <1>7 DEF RetryTimer, Accepted
  <2>2. conn[s] # "up"
    BY <1>4, <1>7 DEF Link, CancelCloses
  <2>3. todo[s] # <<>> /\ Head(todo[s]) \in File
    BY <1>1, CurrentFileType DEF TypeInv, HasFile, CurrentFile
  <2>4. PICK f \in File : f = Head(todo[s])
    BY <2>3
  <2>5. 0 \in 0 .. MaxRequests /\ send_session_id'[s] = 0
    BY <1>1, <1>4, ChunksOK
  <2>6. SentBefore(s, f, 0) /\ f \notin saved
    BY <1>1, <2>1, <2>3, <2>4 DEF SentBefore, Link, Unsent, Work
  <2> QED BY <1>1, <1>2, <1>3, <1>4, <1>5, <2>1, <2>2, <2>3, <2>4, <2>5, <2>6, StartFileLink
<1> QED BY <1>6, <1>7


\* The answers that end the session, to a chunk or a verification.
LEMMA EndingLink ==
  ASSUME Senders, NEW s \in Sender, Link(s), UNCHANGED vars, UNCHANGED send_session_id,
         pc[s] \in {"chunk", "verify"}, NEW ans, Resume(s, "start", ans),
         EndingAnswer(s, ans)
  PROVE  Link(s)'
<1>1. /\ StartResumed(s, ans) /\ Items(to_client'[s]) \subseteq Items(to_client[s])
      /\ OneAnswered(to_client'[s])
  BY StartResumes
<1>2. UNCHANGED todo /\ pc'[s] = "done" /\ Work(s)'
  <2>1. UNCHANGED todo /\ pc'[s] = "done"
    BY DEF EndingAnswer, Finish, Senders, TypeInv, SendTypeOK
  <2> QED BY <2>1, FinishWork
<1>3. send_session_id[s] # 0 => send_session_id[s] \in SessionOf(s)
  BY DEF Link, Named
<1>4. ASSUME ans.code = "403 receiver cancelled"
      PROVE  /\ send_session_id[s] # 0
             /\ outcome[send_session_id[s]] = "cancelled_by_receiver"
  <2>1. ans # Error
    BY <1>4, ErrorCode
  <2>2. Told(s, ans)
    BY <1>1, <2>1 DEF StartResumed
  <2> QED BY <1>4, <2>2 DEF Told
<1>5. \E status, feedbacks :
        /\ Finish(s, status, feedbacks)
        /\ status = "kCancelledBySender" => send_status[s] = "kCancelledBySender"
        /\ status = "kCancelledByReceiver" => ans.code = "403 receiver cancelled"
        /\ status # "kCompleted"
  BY DEF EndingAnswer
<1> QED BY <1>1, <1>2, <1>3, <1>4, <1>5, FinishLink

LEMMA ChunkAnswerLink ==
  ASSUME IInv, Senders, NEW s \in Sender, Link(s), UNCHANGED vars, NEW ans,
         ChunkAnswer(s, ans)
  PROVE  Link(s)'
<1>1. /\ pc[s] = "chunk" /\ Resume(s, "start", ans) /\ UNCHANGED <<send_session_id, tokens>>
      /\ SendTypeOK /\ TypeInv
  BY DEF ChunkAnswer, Senders, TypeInv
<1>2. CASE EndingAnswer(s, ans)
  BY <1>1, <1>2, EndingLink
<1>3. CASE ~EndingAnswer(s, ans)
  <2>1. /\ ans.code = "200" /\ UNCHANGED <<send_status, todo, conn>>
        /\ Continue(s, Head(todo[s]), chunk[s] + 1, send_session_id[s], tokens[s],
                    Tail(readers[s]))
    BY <1>3 DEF ChunkAnswer
  <2>2. /\ StartResumed(s, ans) /\ Items(to_client'[s]) \subseteq Items(to_client[s])
    BY <1>1, StartResumes
  <2>3. ans # Error
    BY <2>1, ErrorCode
  <2>4. /\ to_client[s] # <<>> /\ ans = Head(to_client[s]) /\ Told(s, ans)
        /\ Awaits(pc[s], ans.to) /\ writing[s] = "no"
        /\ NoneAsked(to_server[s]) /\ NoneAnswered(to_client'[s])
    BY <2>2, <2>3 DEF StartResumed
  <2>5. ans.to = "send-chunk"
    BY <1>1, <2>4 DEF Awaits
  <2>6. NoneCompleted(s)
    BY <1>1, <2>4, <2>5, NoneCompletedYet DEF SendTypeOK
  <2>7. conn[s] = "up" => MineOpen(s) /\ send_session_id[s] = session_id
    BY <2>1, <2>4, <2>5 DEF Told, Answers200, Data
  <2>8. send_session_id[s] # 0 => send_session_id[s] \in SessionOf(s)
    BY DEF Link, Named
  <2>9. /\ todo[s] # <<>> /\ Head(todo[s]) \in File /\ chunk[s] + 1 \in Nat
        /\ send_session_id[s] \in 0 .. MaxRequests
    BY <1>1, CurrentFileType DEF TypeInv, HasFile, CurrentFile, SendTypeOK
  <2>10. PICK f \in File, i \in Nat, sid \in 0 .. MaxRequests :
           f = Head(todo[s]) /\ i = chunk[s] + 1 /\ sid = send_session_id[s]
    BY <2>9
  <2>11. Work(s)' /\ Head(todo[s]) \notin saved
    BY <1>1, <2>1, FinishWork DEF Link, Work
  <2>12. SentBefore(s, f, i)
    <3>1. \A k \in received_chunks[f] : k \in Int
      BY <2>10, ChunksOK DEF IInv, TypeOK
    <3>2. chunk[s] \in Int /\ i = chunk[s] + 1
      BY <1>1, <2>10 DEF SendTypeOK
    <3>3. MineOpen(s) => \A k \in received_chunks[f] : k <= chunk[s]
      BY <1>1, <2>9, <2>10 DEF Link, Unsent
    <3>4. MineOpen(s) => \A k \in received_chunks[f] : k <= i /\ k # i
      BY <3>1, <3>2, <3>3
    <3>5. MineOpen(s) => \A g \in Items(Tail(todo'[s])) : received_chunks[g] = {}
      BY <1>1, <2>1, <2>9 DEF Link, Unsent
    <3> QED BY <3>4, <3>5 DEF SentBefore
  <2> QED BY <1>1, <2>1, <2>2, <2>4, <2>6, <2>7, <2>8, <2>9, <2>10, <2>11, <2>12, ContinueLink
<1> QED BY <1>2, <1>3

LEMMA VerifyAnswerLink ==
  ASSUME Senders, NEW s \in Sender, Link(s), UNCHANGED vars, NEW ans, VerifyAnswer(s, ans)
  PROVE  Link(s)'
<1>1. /\ pc[s] = "verify" /\ Resume(s, "start", ans) /\ UNCHANGED <<send_session_id, tokens>>
      /\ SendTypeOK /\ TypeInv
  BY DEF VerifyAnswer, Senders, TypeInv
<1>2. CASE EndingAnswer(s, ans)
  BY <1>1, <1>2, EndingLink
<1>3. CASE ~EndingAnswer(s, ans)
  <2>1. ans.code = "200"
    BY <1>3 DEF VerifyAnswer
  <2>2. /\ StartResumed(s, ans) /\ Items(to_client'[s]) \subseteq Items(to_client[s])
        /\ OneAnswered(to_client'[s])
    BY <1>1, StartResumes
  <2>3. ans # Error
    BY <2>1, ErrorCode
  <2>4. /\ to_client[s] # <<>> /\ ans = Head(to_client[s]) /\ Told(s, ans)
        /\ Awaits(pc[s], ans.to) /\ writing[s] = "no"
        /\ NoneAsked(to_server[s]) /\ NoneAnswered(to_client'[s])
    BY <2>2, <2>3 DEF StartResumed
  <2>5. ans.to = "verify-integrity"
    BY <1>1, <2>4 DEF Awaits
  <2>6. /\ send_session_id[s] # 0 /\ send_session_id[s] \in SessionOf(s)
        /\ Head(todo[s]) \in saved
        /\ Tail(todo[s]) = <<>> => outcome[send_session_id[s]] = "completed"
        /\ conn[s] = "up" => \/ Tail(todo[s]) = <<>>
                             \/ MineOpen(s) /\ send_session_id[s] = session_id
    BY <1>1, <2>1, <2>4, <2>5 DEF Told, Answers200, Data, Link, Named
  <2>7. /\ todo[s] # <<>> /\ todo[s] \in Seq(File) /\ Tail(todo[s]) \in Seq(File)
        /\ send_session_id[s] \in 0 .. MaxRequests
    BY <1>1, CurrentFileType, ItemsSplit DEF TypeInv, HasFile, SendTypeOK
  <2>8. todo'[s] = Tail(todo[s]) /\ (Tail(todo[s]) # <<>> \/ pc'[s] = "done") => Work(s)'
    BY <1>1, <2>6, <2>7, WorkAdvances DEF Link
  <2>9. CASE Tail(todo[s]) # <<>>
    <3>1. PICK feedbacks :
            /\ todo' = [todo EXCEPT ![s] = Tail(@)]
            /\ StartFile(s, Head(Tail(todo[s])), send_session_id[s], tokens[s],
                         Tail(readers[s]), feedbacks)
      BY <1>3, <2>9 DEF VerifyAnswer
    <3>2. todo'[s] = Tail(todo[s])
      BY <1>1, <3>1 DEF SendTypeOK
    <3>3. Head(Tail(todo[s])) \in File
      BY <2>7, <2>9
    <3>4. PICK f \in File, sid \in 0 .. MaxRequests :
            f = Head(Tail(todo[s])) /\ sid = send_session_id[s]
      BY <2>7, <3>3
    <3>5. NoneCompleted(s)
      BY <1>1, <2>4, <2>9, NoneCompletedYet DEF SendTypeOK
    <3>6. SentBefore(s, f, 0) /\ f \notin saved
      <4>1. f \in Items(Tail(todo[s])) /\ Items(Tail(Tail(todo[s]))) \subseteq Items(Tail(todo[s]))
        BY <2>7, <2>9, <3>4, ItemsTail
      <4>2. MineOpen(s) => \A g \in Items(Tail(todo[s])) : received_chunks[g] = {}
        BY <1>1, <2>7 DEF Link, Unsent
      <4>3. f \notin saved
        BY <2>7, <4>1 DEF Link, Work
      <4> QED BY <3>2, <4>1, <4>2, <4>3 DEF SentBefore
    <3> QED
      BY <1>1, <2>2, <2>4, <2>6, <2>8, <2>9, <3>1, <3>2, <3>4, <3>5, <3>6, StartFileLink
  <2>10. CASE Tail(todo[s]) = <<>>
    <3>1. PICK feedbacks :
            todo' = [todo EXCEPT ![s] = <<>>] /\ Finish(s, "kCompleted", feedbacks)
      BY <1>3, <2>10 DEF VerifyAnswer
    <3>2. todo'[s] = Tail(todo[s]) /\ pc'[s] = "done"
      BY <1>1, <2>10, <3>1 DEF SendTypeOK, Finish
    <3> QED BY <1>1, <2>2, <2>4, <2>6, <2>8, <2>10, <3>1, <3>2, FinishLink
  <2> QED BY <2>9, <2>10
<1> QED BY <1>2, <1>3


-----------------------------------------------------------------------------
\* The steps of cancelSend and of the network.

LEMMA CancelLink ==
  ASSUME Senders, NEW s \in Sender, Link(s), UNCHANGED vars, Cancel(s)
  PROVE  Link(s)'
<1>1. /\ UNCHANGED <<main_vars, conn, to_client>> /\ SendTypeOK
      /\ send_session_id[s] \in 0 .. MaxRequests
      /\ \/ to_server' = to_server /\ writing[s] = "part" /\ writing'[s] = "both"
         \/ /\ Issue(s, "cancel", CancelSend(send_session_id[s]), readers[s])
            /\ writing' = writing
  BY DEF Cancel, Senders, TypeInv, SendTypeOK
<1>2. PICK req \in Request : req = CancelSend(send_session_id[s])
  BY <1>1 DEF Request, CancelSend
<1>3. /\ req.type = "cancel-send" /\ req.sid = send_session_id[s]
      /\ to_server[s] \in Seq(Request) /\ OneAsked(to_server[s])
      /\ to_server'[s] \in {Append(to_server[s], req), to_server[s]}
      /\ writing'[s] \in {"part", "both"} <=> writing[s] \in {"part", "both"}
  BY <1>1, <1>2 DEF Issue, CancelSend, SendTypeOK, Link, Flight
<1>4. /\ OneAsked(to_server'[s])
      /\ \A r \in Items(to_server'[s]) : r \in Items(to_server[s]) \/ r = req
      /\ NoneAsked(to_server[s]) => NoneAsked(to_server'[s])
  <2>1. CASE to_server'[s] = Append(to_server[s], req)
    BY <1>2, <1>3, <2>1, AskedAppend, ItemsAppend DEF NoneAsked
  <2>2. CASE to_server'[s] = to_server[s]
    BY <1>3, <2>2 DEF NoneAsked
  <2> QED BY <1>3, <2>1, <2>2
<1>5. /\ UNCHANGED <<session_id, sender, received_chunks, accepted, outcome, saved>>
      /\ SessionOf(s)' = SessionOf(s) /\ Work(s)'
  BY <1>1, FinishWork DEF vars, session, disk, SessionOf, main_vars
<1>6. Flight(s)'
  BY <1>1, <1>3, <1>4 DEF Link, Flight, main_vars
<1>10. Begun(s)' /\ Unsent(s)'
  BY <1>1, <1>3, <1>4, <1>5
     DEF Link, Begun, MayChunk, Unsent, MineOpen, Chunks, main_vars
<1>7. Asks(s)'
  <2>1. ASSUME NEW r \in Items(to_server[s]) PROVE Asked(s, r)'
    BY <1>1, <1>5 DEF Link, Asks, Asked, MineOpen, Chunks, main_vars
  <2>2. Asked(s, req)'
    BY <1>3, <1>5 DEF Link, Named, Asked, Data
  <2> QED BY <1>4, <2>1, <2>2 DEF Asks
<1>8. Tells(s)'
  <2>1. ASSUME NEW a \in Items(to_client[s]) PROVE Told(s, a)'
    BY <1>1, <1>5 DEF Link, Tells, Told, Answers200, MineOpen, main_vars
  <2> QED BY <1>1, <2>1 DEF Tells
<1>9. Named(s)' /\ CancelCloses(s)' /\ CancelLate(s)' /\ Verdict(s)'
  BY <1>1, <1>5 DEF Link, Named, CancelCloses, CancelLate, Verdict, main_vars
<1> QED BY <1>5, <1>6, <1>7, <1>8, <1>9, <1>10 DEF Link

LEMMA CancelAnswerLink ==
  ASSUME Senders, NEW s \in Sender, Link(s), UNCHANGED vars, NEW ans, CancelAnswer(s, ans)
  PROVE  Link(s)'
<1> DEFINE c == to_client[s]
<1>1. /\ Resume(s, "cancel", ans)
      /\ UNCHANGED <<pc, send_session_id, todo, chunk, conn, writing, to_server>>
      /\ SendTypeOK /\ c \in Seq(Response) /\ readers[s] \in Seq(Reader)
      /\ readers[s] # <<>> /\ pc[s] # "done" /\ OneAnswered(c) /\ writing[s] \in Writing
  BY DEF CancelAnswer, Resume, Senders, TypeInv, SendTypeOK, ReadersInv, Aligned, Reader,
         Link, Flight
<1>2. send_status'[s] = IF ans.code = "200" THEN "kCancelledBySender" ELSE send_status[s]
  BY <1>1 DEF CancelAnswer, SendTypeOK
<1>3. \/ /\ c # <<>> /\ ans = Head(c) /\ ans \in Items(c) /\ ans.to = "cancel-send"
         /\ to_client'[s] = Tail(c)
      \/ ans.code # "200" /\ to_client'[s] = c
      \/ /\ c # <<>> /\ ans.code # "200" /\ to_client'[s] = Tail(c)
         /\ pc[s] \in {"request", "chunk"} /\ Head(c) \in Items(c)
  <2>3. CASE c # <<>> /\ writing[s] \in {"both", "torn"}
    <3>1. writing[s] = "torn" /\ Torn(s) /\ pc[s] \in {"request", "chunk"}
      BY <1>1, <2>3 DEF Senders, ReadersInv, Aligned, Both
    <3>2. c[1] = Head(c) /\ c[1].code \in TornCodes
      BY <1>1, <2>3, <3>1 DEF Torn
    <3>3. ans = Head(c) /\ to_client'[s] = Tail(c)
      BY <1>1, <2>3 DEF Resume, SendTypeOK
    <3> QED BY <1>1, <2>3, <3>1, <3>2, <3>3, ItemsTail DEF TornCodes
  <2>1. CASE c # <<>> /\ writing[s] \notin {"both", "torn"}
    <3>1. Answered(readers[s], c) /\ Head(readers[s]) = "cancel"
      BY <1>1, <2>1 DEF Senders, ReadersInv, Aligned, Resume, Writing
    <3>2. 1 \in 1 .. Len(c) /\ Head(c) = c[1] /\ Head(readers[s]) = readers[s][1]
      BY <1>1, <2>1
    <3>3. ans = Head(c) /\ to_client'[s] = Tail(c)
      BY <1>1, <2>1 DEF Resume, SendTypeOK
    <3> QED BY <1>1, <2>1, <3>1, <3>2, <3>3, ItemsTail DEF Answered, IsCancel
  <2>2. CASE c = <<>>
    BY <1>1, <2>2, ErrorCode DEF Resume
  <2> QED BY <2>1, <2>2, <2>3
<1>4. /\ Items(to_client'[s]) \subseteq Items(c) /\ OneAnswered(to_client'[s])
      /\ NoneAnswered(c) => NoneAnswered(to_client'[s])
  BY <1>1, <1>3, ItemsTail, AnsweredTail DEF NoneAnswered
<1>5. /\ UNCHANGED <<session_id, sender, received_chunks, accepted, outcome, saved>>
      /\ SessionOf(s)' = SessionOf(s) /\ Work(s)'
  BY <1>1, FinishWork DEF vars, session, disk, SessionOf
<1>6. Flight(s)'
  BY <1>1, <1>4 DEF Link, Flight
<1>7. Asks(s)'
  <2>1. ASSUME NEW r \in Items(to_server[s]) PROVE Asked(s, r)'
    BY <1>1, <1>5 DEF Link, Asks, Asked, MineOpen, Chunks
  <2> QED BY <1>1, <2>1 DEF Asks
<1>8. Tells(s)'
  <2>1. ASSUME NEW a \in Items(c) PROVE Told(s, a)'
    BY <1>1, <1>5 DEF Link, Tells, Told, Answers200, MineOpen
  <2> QED BY <1>4, <2>1 DEF Tells
<1>9. Named(s)' /\ Verdict(s)'
  BY <1>1, <1>2, <1>5 DEF Link, Named, Verdict
<1>10. ASSUME ans.code = "200"
       PROVE  /\ conn[s] \in {"half", "gone"}
              /\ \A n \in SessionOf(s) : outcome[n] \notin {"open", "completed"}
  <2>1. c # <<>> /\ ans = Head(c) /\ ans \in Items(c) /\ ans.to = "cancel-send"
    BY <1>3, <1>10
  <2> QED BY <1>1, <1>10, <2>1 DEF Link, CancelCloses, CancelLate
<1>11. CancelCloses(s)'
  BY <1>1, <1>2, <1>4, <1>10 DEF Link, CancelCloses
<1>12. CancelLate(s)'
  <2>1. ASSUME NEW n \in SessionOf(s), outcome[n] = "completed"
        PROVE  to_client'[s] = c
    BY <1>1, <1>3, <2>1 DEF Link, Flight, Awaits, CancelLate
  <2> QED BY <1>1, <1>2, <1>4, <1>5, <1>10, <2>1 DEF Link, CancelLate
<1>13. Begun(s)' /\ Unsent(s)'
  BY <1>1, <1>5 DEF Link, Begun, MayChunk, Unsent, MineOpen, Chunks
<1> QED BY <1>5, <1>6, <1>7, <1>8, <1>9, <1>11, <1>12, <1>13 DEF Link

LEMMA BreakLink ==
  ASSUME Senders, NEW s \in Sender, Link(s), UNCHANGED vars, Break(s)
  PROVE  Link(s)'
<1>1. /\ UNCHANGED main_vars /\ SendTypeOK
      /\ conn[s] \in {"up", "astray", "half"} /\ writing' = writing /\ conn'[s] = Disconnect(conn[s])
      /\ to_server'[s] \in {to_server[s], <<>>} /\ to_client'[s] \in {to_client[s], <<>>}
  BY DEF Break, Senders, TypeInv, SendTypeOK
<1>2. conn'[s] # "up" /\ (conn[s] = "half" => conn'[s] = "gone")
  BY <1>1 DEF Disconnect
<1>3. /\ Items(to_server'[s]) \subseteq Items(to_server[s])
      /\ Items(to_client'[s]) \subseteq Items(to_client[s])
      /\ OneAsked(to_server[s]) => OneAsked(to_server'[s])
      /\ OneAnswered(to_client[s]) => OneAnswered(to_client'[s])
      /\ NoneAsked(to_server[s]) => NoneAsked(to_server'[s])
  BY <1>1, ItemsNone DEF OneAsked, OneAnswered, NoneAsked
<1>4. /\ UNCHANGED <<session_id, sender, received_chunks, accepted, outcome, saved>>
      /\ SessionOf(s)' = SessionOf(s) /\ Work(s)'
  BY <1>1, FinishWork DEF vars, session, disk, SessionOf, main_vars
<1>5. Flight(s)'
  BY <1>1, <1>3 DEF Link, Flight, NoneAsked, NoneAnswered, main_vars
<1>6. Asks(s)'
  <2>1. ASSUME NEW r \in Items(to_server[s]) PROVE Asked(s, r)'
    BY <1>1, <1>4 DEF Link, Asks, Asked, MineOpen, Chunks, main_vars
  <2> QED BY <1>3, <2>1 DEF Asks
<1>7. Tells(s)'
  <2>1. ASSUME NEW a \in Items(to_client[s]) PROVE Told(s, a)'
    BY <1>1, <1>2, <1>4 DEF Link, Tells, Told, Answers200, main_vars
  <2> QED BY <1>3, <2>1 DEF Tells
<1>8. Named(s)' /\ Verdict(s)' /\ CancelCloses(s)'
  BY <1>1, <1>2, <1>3, <1>4 DEF Link, Named, Verdict, CancelCloses, main_vars
<1>9. CancelLate(s)'
  BY <1>1, <1>2, <1>3, <1>4 DEF Link, CancelLate, main_vars
<1>10. Begun(s)' /\ Unsent(s)'
  BY <1>1, <1>2, <1>3, <1>4 DEF Link, Begun, Unsent, MineOpen, main_vars
<1> QED BY <1>4, <1>5, <1>6, <1>7, <1>8, <1>9, <1>10 DEF Link

-----------------------------------------------------------------------------
\* Every step keeps the invariant.

\* A sender goes on to its next file when the current one is saved, and then the
\* receiver has no temporary file.
LEMMA SideTodo ==
  ASSUME Senders, NEW s \in Sender, Link(s), SenderStep(s) \/ Cancel(s) \/ Break(s)
  PROVE  todo'[s] = todo[s] \/ (todo[s] # <<>> /\ Head(todo[s]) \in saved)
<1>1. ASSUME NEW ans, VerifyAnswer(s, ans), todo' # todo
      PROVE  todo[s] # <<>> /\ Head(todo[s]) \in saved
  <2>1. /\ pc[s] = "verify" /\ Resume(s, "start", ans) /\ ans.code = "200"
    BY <1>1 DEF VerifyAnswer, EndingAnswer
  <2>2. StartResumed(s, ans) /\ ans # Error
    BY <2>1, StartResumes, ErrorCode
  <2>3. Told(s, ans) /\ Awaits(pc[s], ans.to)
    BY <2>2 DEF StartResumed
  <2>4. ans.to = "verify-integrity"
    BY <2>1, <2>3 DEF Awaits
  <2> QED BY <2>1, <2>3, <2>4 DEF Told, Answers200, Senders, TypeInv, HasFile
<1>2. ~(\E ans : VerifyAnswer(s, ans)) => todo' = todo
  BY DEF SenderStep, Connect, RetryTimer, Accepted, RequestAnswer, ChunkAnswer, EndingAnswer,
         CancelAnswer, WriteEnds, Cancel, Break, main_vars
<1> QED BY <1>1, <1>2

LEMMA SideKeeps ==
  ASSUME TInv, NEW s \in Sender, Side(s)
  PROVE  TInv'
<1>1. /\ Controller /\ SendTypeOK /\ TypeInv /\ ReadersInv /\ Senders
      /\ \A t \in Sender : Link(t)
  BY DEF TInv, Senders, TypeInv
<1>2. (SenderStep(s) \/ Cancel(s) \/ Break(s)) /\ UNCHANGED vars
  BY DEF Side
<1>3. Senders'
  BY <1>1, <1>2, TypeStep, ReadersStep DEF Senders, SendNext
<1>4. OthersSame(s)
  BY <1>1, <1>2, SideOthers
<1>5. ASSUME NEW t \in Sender, t # s PROVE Link(t)'
  <2>1. Same(t)
    BY <1>4, <1>5 DEF OthersSame
  <2>2. Spares(t)
    BY <1>2 DEF Spares, MineOpen, SessionOf, vars, session, disk
  <2> QED BY <1>1, <2>1, <2>2, OthersLink
<1>6. Link(s)'
  BY <1>1, <1>2, ConnectLink, RetryTimerLink, RequestAnswerLink, ChunkAnswerLink,
     VerifyAnswerLink, WriteEndsLink, CancelAnswerLink, CancelLink, BreakLink
     DEF SenderStep, Controller
<1>7. Controller'
  <2>1. IInv' /\ Owner'
    BY <1>1, <1>2, StutterKeeps DEF Controller, Owner, vars, session, stream
  <2>2. OnePart'
    <3>1. UNCHANGED <<session_id, sender, parts, saved>>
      BY <1>2 DEF vars, session, disk
    <3>2. todo'[s] = todo[s] \/ (todo[s] # <<>> /\ Head(todo[s]) \in saved)
      BY <1>1, <1>2, SideTodo
    <3>3. parts \cap saved = {}
      BY <1>1 DEF Controller, OnePart
    <3>4. \A t \in Sender \ {s} : todo'[t] = todo[t]
      BY <1>4 DEF OthersSame, Same
    <3>5. session_id # 0 => sender \in Sender
      BY <1>1 DEF Controller, Owner
    <3> QED BY <1>1, <3>1, <3>2, <3>3, <3>4, <3>5 DEF Controller, OnePart
  <2> QED BY <2>1, <2>2 DEF Controller
<1> QED BY <1>1, <1>3, <1>5, <1>6, <1>7 DEF TInv


\* The steps of the receiver's user, and those that change nothing.
LEMMA QuietKeeps ==
  ASSUME TInv, UNCHANGED send_vars, IInv',
         UNCHANGED <<session, disk, accepted, outcome, waiting, wait_condition>>
  PROVE  TInv'
<1>1. Controller /\ SendTypeOK /\ \A t \in Sender : Link(t)
  BY DEF TInv, Senders, TypeInv
<1>2. Controller'
  BY <1>1 DEF Controller, Owner, OnePart, session, disk, send_vars, main_vars
<1>3. Senders'
  BY DEF TInv, Senders, TypeInv, SendTypeOK, HasFile, ReadersInv, Aligned, send_vars,
         main_vars, net_vars, Both, Torn, StartReads, Cancelling
<1>4. ASSUME NEW t \in Sender PROVE Link(t)'
  <2>1. Same(t)
    BY DEF Same, send_vars, main_vars, net_vars
  <2>2. Spares(t)
    BY DEF Spares, MineOpen, SessionOf, session, disk
  <2> QED BY <1>1, <2>1, <2>2, OthersLink
<1> QED BY <1>2, <1>3, <1>4 DEF TInv

LEMMA UserStepKeeps ==
  ASSUME TInv, User
  PROVE  TInv'
<1>1. IInv'
  BY UserKeeps DEF TInv, Controller, User
<1> QED BY <1>1, QuietKeeps DEF User, CancelReceive

LEMMA StillKeeps ==
  ASSUME TInv, UNCHANGED tvars
  PROVE  TInv'
<1>1. IInv'
  BY StutterKeeps DEF TInv, Controller, tvars
<1> QED BY <1>1, QuietKeeps DEF tvars, vars, stream

LEMMA TInvNext == TInv /\ [TNext]_tvars => TInv'
<1> SUFFICES ASSUME TInv, [TNext]_tvars PROVE TInv'
  OBVIOUS
<1>1. ASSUME NEW s \in Sender, Side(s) PROVE TInv'
  BY <1>1, SideKeeps
<1>2. ASSUME NEW s \in Sender, Serve(s) PROVE TInv'
  BY <1>2, ServeAnswers, ServeBroken DEF Serve
<1>3. ASSUME NEW s \in Sender, ServerNoticesLoss(s) PROVE TInv'
  BY <1>3, LossKeeps
<1>4. CASE User
  BY <1>4, UserStepKeeps
<1>5. CASE AllDone /\ UNCHANGED vars
  BY <1>5, StillKeeps DEF AllDone, tvars
<1>6. CASE UNCHANGED tvars
  BY <1>6, StillKeeps
<1> QED BY <1>1, <1>2, <1>3, <1>4, <1>5, <1>6 DEF TNext, ServerStep

\* The invariant holds of all transfers, whoever cancels and whatever breaks.
THEOREM TransferInvariance == TSpec => []TInv
<1> QED BY TInvInit, TInvNext, PTL DEF TSpec

\* Both ends agree on how a session ended.
THEOREM VerdictsAlwaysAgree == TSpec => []VerdictsAgree
<1>1. TInv => VerdictsAgree
  <2> SUFFICES ASSUME TInv, NEW s \in Sender, pc[s] = "done", send_session_id[s] # 0
               PROVE  LET how == outcome[send_session_id[s]]
                      IN /\ send_status[s] = "kCompleted" => how = "completed"
                         /\ send_status[s] = "kCancelledByReceiver" =>
                              how = "cancelled_by_receiver"
                         /\ send_status[s] = "kCancelledBySender" =>
                              how \notin {"completed", "open"}
    BY DEF VerdictsAgree
  <2>1. Verdict(s) /\ CancelLate(s) /\ send_session_id[s] \in SessionOf(s)
    BY DEF TInv, Link, Named
  <2> QED BY <2>1 DEF Verdict, CancelLate
<1> QED BY <1>1, TransferInvariance, PTL

\* doCleanup, which removes one temporary file, leaves none behind.
THEOREM NoPartIsLeft == TSpec => []NoPartOutlivesItsSession
<1>1. TInv => NoPartOutlivesItsSession
  <2> SUFFICES ASSUME TInv PROVE NoPartOutlivesItsSession
    OBVIOUS
  <2>1. OnePart
    BY DEF TInv, Controller
  <2>2. parts = {} \/ \E f : parts = {f}
    <3> SUFFICES ASSUME NEW f \in parts PROVE parts = {f}
      OBVIOUS
    <3>1. \A g \in parts : g = Head(todo[sender])
      BY <2>1 DEF OnePart
    <3> QED BY <3>1
  <2>3. Cardinality(parts) <= 1
    <3>1. Cardinality({}) = 0
      BY FS_EmptySet
    <3>2. \A f : Cardinality({f}) = 1
      BY FS_Singleton
    <3>3. CASE parts = {}
      BY <3>1, <3>3
    <3>4. ASSUME NEW f, parts = {f} PROVE Cardinality(parts) <= 1
      <4>1. Cardinality(parts) = 1
        BY <3>2, <3>4
      <4> QED BY <4>1
    <3> QED BY <2>2, <3>3, <3>4
  <2> QED BY <2>1, <2>3 DEF NoPartOutlivesItsSession, OnePart
<1> QED BY <1>1, TransferInvariance, PTL

\* Serving the connection of s ends no session but that of s.
LEMMA OnlyOwnEnds ==
  ASSUME TInv, NEW s \in Sender, Handled(s), IInv',
         session_status = "kWorking", session_status' = "kIdle"
  PROVE  sender = s
<1>1. session_id # 0 /\ session_id' = 0
  BY WorkingIsOpen DEF TInv, Controller, IInv, SessionShape
<1> QED BY <1>1 DEF Handled, Idles, Opens, Goes, Ends, MineOpen

\* No request of another sender ends a session.
THEOREM OthersNeverEndIt == TSpec => OthersCannotEndIt
<1>1. TInv /\ [TNext]_tvars =>
        [session_status = "kWorking" /\ session_status' = "kIdle" =>
           \A s \in Sender \ {sender} : to_server'[s] = to_server[s]]_tvars
  <2> SUFFICES ASSUME TInv, TNext, session_status = "kWorking", session_status' = "kIdle"
               PROVE  \A t \in Sender \ {sender} : to_server'[t] = to_server[t]
    OBVIOUS
  <2>1. Controller /\ SendTypeOK /\ \A t \in Sender : Link(t)
    BY DEF TInv, Senders, TypeInv
  <2>2. ASSUME NEW s \in Sender, Serve(s)
        PROVE  sender = s /\ \A t \in Sender \ {s} : to_server'[t] = to_server[t]
    <3>1. PICK req : req = Head(to_server[s])
      OBVIOUS
    <3>2. PICK resp \in Responses : Handle(s, req, resp)
      BY <2>2, <3>1 DEF Serve
    <3>3. req \in Request /\ req \in Items(to_server[s]) /\ Asked(s, req)
      BY <2>1, <2>2, <3>1, ItemsTail DEF Serve, SendTypeOK, Link, Asks
    <3>4. Handled(s) /\ IInv'
      BY <2>1, <3>2, <3>3, HandleDoes
    <3>5. \A t \in Sender \ {s} : to_server'[t] = to_server[t]
      BY <2>1, <2>2 DEF Serve, Reply, SendTypeOK
    <3> QED BY <3>4, <3>5, OnlyOwnEnds
  <2>3. ASSUME NEW s \in Sender, ServerNoticesLoss(s)
        PROVE  sender = s /\ \A t \in Sender \ {s} : to_server'[t] = to_server[t]
    <3>1. ~UNCHANGED vars
      BY DEF vars, session
    <3> QED BY <2>1, <2>3, <3>1 DEF ServerNoticesLoss, ServerEnds, SendTypeOK
  <2>4. ~User /\ ~(AllDone /\ UNCHANGED vars) /\ \A s \in Sender : ~Side(s)
    BY DEF User, CancelReceive, Side, vars, session
  <2> QED BY <2>2, <2>3, <2>4 DEF TNext, ServerStep
<1> QED BY <1>1, TransferInvariance, PTL DEF TSpec, OthersCannotEndIt


-----------------------------------------------------------------------------
\* What the users are promised: the invariant that the refinement adds.

\* Files that feedbacks show as sent.
Sent(feedbacks) ==
  {done.file : done \in {feedback \in feedbacks : feedback.type = "FileSendingCompleted"}}

\* The files still to send are the last of the sender's, in their order.
Left(s) ==
  \E k \in 0 .. Len(FilesOf[s]) :
    /\ Len(todo[s]) = Len(FilesOf[s]) - k
    /\ \A i \in DOMAIN todo[s] : todo[s][i] = FilesOf[s][k + i]

\* The user of s sees the others as sent.
Seen(s) == Sent(reported[s]) = FilesIn(s) \ Items(todo[s])

\* A sender that sends, or that has cancelled, knows its session.
Known(s) ==
  \/ send_status[s] = "kCancelledBySender" \/ pc[s] \in {"chunk", "verify"} \/ cancel[s] # "none"
  => send_session_id[s] # 0

\* A session has files exactly when something became of it.
Fated == \A n \in 1 .. MaxRequests : accepted[n] = {} <=> outcome[n] = "none"

UsersInv == TInv /\ Fated /\ \A s \in Sender : Left(s) /\ Seen(s) /\ Known(s)


LEMMA UsersInvInit == TInit => UsersInv
<1> SUFFICES ASSUME TInit PROVE UsersInv
  OBVIOUS
<1>1. TInv /\ Init /\ SendInit
  BY TInvInit DEF TInit
<1>2. Fated
  BY <1>1 DEF Init, Fated
<1>3. ASSUME NEW s \in Sender PROVE Left(s) /\ Seen(s) /\ Known(s)
  <2> DEFINE q == FilesOf[s]
  <2>1. /\ todo[s] = q /\ q \in Seq(File) /\ reported[s] = {} /\ cancel[s] = "none"
        /\ pc[s] = "connect" /\ send_status[s] = "kIdle"
    BY <1>1, SendersOK DEF SendInit
  <2>2. Len(q) \in Nat /\ DOMAIN q = 1 .. Len(q) /\ 0 \in 0 .. Len(q)
    BY <2>1
  <2>3. Left(s)
    BY <2>1, <2>2 DEF Left
  <2>4. FilesIn(s) = Items(q) /\ Sent({}) = {}
    BY DEF FilesIn, Items, Sent
  <2> QED BY <2>1, <2>3, <2>4 DEF Seen, Known
<1> QED BY <1>1, <1>2, <1>3 DEF UsersInv

-----------------------------------------------------------------------------
\* What became of the session of a sender.

\* Accepted requests are sessions of one sender each, of each sender one at most.
Owned(acc) ==
  /\ acc \in [1 .. MaxRequests -> SUBSET File]
  /\ \A n \in 1 .. MaxRequests : acc[n] # {} => \E t \in Sender : acc[n] = FilesIn(t)
  /\ \A m, n \in 1 .. MaxRequests : acc[m] = acc[n] /\ acc[m] # {} => m = n

FateIn(acc, out, s) ==
  LET opened == {n \in DOMAIN acc : Head(FilesOf[s]) \in acc[n]}
  IN IF opened = {} THEN "none" ELSE out[CHOOSE n \in opened : TRUE]

LEMMA FateIs ==
  ASSUME NEW acc, NEW out, Owned(acc), NEW s \in Sender
  PROVE  /\ (\A n \in 1 .. MaxRequests : acc[n] # FilesIn(s)) => FateIn(acc, out, s) = "none"
         /\ \A n \in 1 .. MaxRequests : acc[n] = FilesIn(s) => FateIn(acc, out, s) = out[n]
<1> DEFINE opened == {n \in DOMAIN acc : Head(FilesOf[s]) \in acc[n]}
<1>1. Head(FilesOf[s]) \in FilesIn(s)
  <2>1. FilesOf[s] \in Seq(File) /\ FilesOf[s] # <<>>
    BY SendersOK
  <2>2. 1 \in DOMAIN FilesOf[s] /\ Head(FilesOf[s]) = FilesOf[s][1]
    BY <2>1
  <2> QED BY <2>2 DEF FilesIn
<1>2. \A n \in 1 .. MaxRequests : Head(FilesOf[s]) \in acc[n] <=> acc[n] = FilesIn(s)
  BY <1>1, OwnFiles DEF Owned
<1>3. opened = {n \in 1 .. MaxRequests : acc[n] = FilesIn(s)}
  BY <1>2 DEF Owned
<1>4. \A m, n \in opened : m = n
  BY <1>3, OwnFiles DEF Owned
<1>5. FateIn(acc, out, s) = IF opened = {} THEN "none" ELSE out[CHOOSE n \in opened : TRUE]
  BY DEF FateIn
<1> HIDE DEF opened
<1>6. ASSUME NEW n \in opened PROVE FateIn(acc, out, s) = out[n]
  <2>1. (CHOOSE m \in opened : TRUE) = n
    BY <1>4
  <2> QED BY <1>5, <2>1
<1> QED BY <1>3, <1>5, <1>6

LEMMA UsersInit == TInit => Users!Init
<1> SUFFICES ASSUME TInit PROVE Users!Init
  OBVIOUS
<1>1. Init /\ SendInit
  BY DEF TInit
<1>2. saved = {}
  BY <1>1 DEF Init
<1>3. \A s \in Sender : Fate(s) = "none"
  BY <1>1, OwnFiles DEF Init, Fate
<1>4. \A s \in Sender : {feedback.file : feedback \in Completed(s)} = {} /\ pc[s] # "done"
  BY <1>1 DEF SendInit, Completed
<1> QED BY <1>2, <1>3, <1>4 DEF Users!Init


\* In a list without repetitions, what is before the tail is not in the tail.
LEMMA BeforeTail ==
  ASSUME NEW q \in Seq(File), NEW c \in Seq(File), c # <<>>,
         \A i, j \in DOMAIN q : q[i] = q[j] => i = j,
         NEW k \in 0 .. Len(q), Len(c) = Len(q) - k, \A i \in DOMAIN c : c[i] = q[k + i]
  PROVE  /\ k + 1 \in DOMAIN q /\ q[k + 1] = Head(c)
         /\ k + 1 = Len(q) <=> Tail(c) = <<>>
         /\ \A j \in 1 .. k + 1 - 1 : j \in DOMAIN q /\ q[j] \notin Items(c)
<1> DEFINE n == Len(q)
           m == Len(c)
<1>1. /\ n \in Nat /\ DOMAIN q = 1 .. n /\ m \in Nat /\ m # 0 /\ DOMAIN c = 1 .. m
      /\ Head(c) = c[1] /\ m = n - k /\ k \in Int
  OBVIOUS
<1>2. Tail(c) = <<>> <=> m = 1
  <2>1. Tail(c) \in Seq(File) /\ Len(Tail(c)) = m - 1
    OBVIOUS
  <2>2. \A t \in Seq(File) : t = <<>> <=> Len(t) = 0
    OBVIOUS
  <2> HIDE DEF m
  <2> QED BY <1>1, <2>1, <2>2
<1> HIDE DEF n, m
<1>3. k + 1 \in DOMAIN q /\ q[k + 1] = Head(c) /\ (k + 1 = n <=> m = 1)
  BY <1>1
<1>4. ASSUME NEW j \in 1 .. k + 1 - 1 PROVE j \in DOMAIN q /\ q[j] \notin Items(c)
  <2>1. j \in DOMAIN q
    BY <1>1
  <2>2. ASSUME NEW i \in DOMAIN c PROVE c[i] # q[j]
    <3>1. k + i \in DOMAIN q /\ k + i # j
      BY <1>1
    <3> QED BY <2>1, <3>1
  <2> QED BY <2>1, <2>2 DEF Items
<1> QED BY <1>2, <1>3, <1>4 DEF n

\* The current file has a place in the order of the sender's files.
LEMMA CurrentPlace ==
  ASSUME SendTypeOK, NEW s \in Sender, Left(s), Work(s), todo[s] # <<>>
  PROVE  \E i \in DOMAIN FilesOf[s] :
           /\ FilesOf[s][i] = Head(todo[s])
           /\ \A j \in 1 .. i - 1 : FilesOf[s][j] \in saved
           /\ i = Len(FilesOf[s]) <=> Tail(todo[s]) = <<>>
<1>1. FilesOf[s] \in Seq(File) /\ todo[s] \in Seq(File)
  BY SendersOK DEF SendTypeOK
<1>2. PICK k \in 0 .. Len(FilesOf[s]) :
        /\ Len(todo[s]) = Len(FilesOf[s]) - k
        /\ \A i \in DOMAIN todo[s] : todo[s][i] = FilesOf[s][k + i]
  BY DEF Left
<1>3. \A i, j \in DOMAIN FilesOf[s] : FilesOf[s][i] = FilesOf[s][j] => i = j
  BY FileIdsAreUnique
<1>4. /\ k + 1 \in DOMAIN FilesOf[s] /\ FilesOf[s][k + 1] = Head(todo[s])
      /\ k + 1 = Len(FilesOf[s]) <=> Tail(todo[s]) = <<>>
      /\ \A j \in 1 .. k + 1 - 1 : j \in DOMAIN FilesOf[s] /\ FilesOf[s][j] \notin Items(todo[s])
  BY <1>1, <1>2, <1>3, BeforeTail
<1>5. \A j \in DOMAIN FilesOf[s] : FilesOf[s][j] \in saved \cup Items(todo[s])
  BY DEF Work, FilesIn
<1>6. \A j \in 1 .. k + 1 - 1 : FilesOf[s][j] \in saved
  BY <1>4, <1>5
<1> QED BY <1>4, <1>6

\* What a step of the server does to the fates.
LEMMA FateElsewhere ==
  ASSUME Owned(accepted), Owned(accepted'), NEW t \in Sender, Spares(t)
  PROVE  Fate(t)' = Fate(t)
<1>1. /\ Fate(t) = FateIn(accepted, outcome, t)
      /\ Fate(t)' = FateIn(accepted', outcome', t)
  BY DEF Fate, FateIn
<1>2. /\ \A n \in 1 .. MaxRequests : accepted'[n] = FilesIn(t) <=> accepted[n] = FilesIn(t)
      /\ \A n \in 1 .. MaxRequests : accepted[n] = FilesIn(t) => outcome'[n] = outcome[n]
  <2>1. SessionOf(t) = {n \in 1 .. MaxRequests : accepted[n] = FilesIn(t)}
    BY DEF SessionOf
  <2>2. SessionOf(t)' = {n \in 1 .. MaxRequests : accepted'[n] = FilesIn(t)}
    BY DEF SessionOf
  <2> QED BY <2>1, <2>2 DEF Spares
<1> QED BY <1>1, <1>2, FateIs

LEMMA FateHere ==
  ASSUME Controller, Controller', Owned(accepted), Owned(accepted'), NEW s \in Sender
  PROVE  /\ Opens(s) => /\ Fate(s) = "none" /\ Fate(s)' = "open"
                        /\ \A t \in Sender : Fate(t) # "open"
         /\ MineOpen(s) => Fate(s) = "open"
         /\ \A how : Ends(s, how) => Fate(s)' = how
<1>1. \A t \in Sender : /\ Fate(t) = FateIn(accepted, outcome, t)
                        /\ Fate(t)' = FateIn(accepted', outcome', t)
  BY DEF Fate, FateIn
<1>2. /\ outcome \in [1 .. MaxRequests -> Outcomes]
      /\ accepted \in [1 .. MaxRequests -> SUBSET File]
      /\ session_id # 0 => session_id \in 1 .. MaxRequests /\ outcome[session_id] = "open"
      /\ session_id # 0 => accepted[session_id] = FilesIn(sender)
      /\ \A n \in 1 .. MaxRequests : outcome[n] = "open" => session_id = n
  BY DEF Controller, IInv, TypeOK, OneOpenSession, Owner
<1>3. ASSUME MineOpen(s) PROVE Fate(s) = "open"
  <2>1. session_id \in 1 .. MaxRequests /\ accepted[session_id] = FilesIn(s)
    BY <1>2, <1>3 DEF MineOpen
  <2>2. outcome[session_id] = "open"
    BY <1>2, <1>3 DEF MineOpen
  <2>3. FateIn(accepted, outcome, s) = outcome[session_id]
    BY <2>1, FateIs
  <2> QED BY <1>1, <2>2, <2>3
<1>4. ASSUME NEW how, Ends(s, how) PROVE Fate(s)' = how
  <2>1. /\ session_id \in 1 .. MaxRequests /\ accepted'[session_id] = FilesIn(s)
        /\ outcome'[session_id] = how
    BY <1>2, <1>4 DEF Ends, MineOpen
  <2> QED BY <1>1, <2>1, FateIs
<1>5. ASSUME Opens(s)
      PROVE  /\ Fate(s) = "none" /\ Fate(s)' = "open"
             /\ \A t \in Sender : Fate(t) # "open"
  <2>1. /\ session_id = 0 /\ \A n \in 1 .. MaxRequests : accepted[n] # FilesIn(s)
    BY <1>5, OwnFiles DEF Opens
  <2>2. Fate(s) = "none"
    BY <1>1, <2>1, FateIs
  <2>3. PICK n \in 1 .. MaxRequests : accepted'[n] = FilesIn(s) /\ outcome'[n] = "open"
    BY <1>2, <1>5 DEF Opens
  <2>4. Fate(s)' = "open"
    BY <1>1, <2>3, FateIs
  <2>5. ASSUME NEW t \in Sender PROVE Fate(t) # "open"
    <3>1. \A m \in 1 .. MaxRequests : outcome[m] # "open"
      BY <1>2, <2>1, ChunksOK
    <3> QED BY <1>1, <3>1, FateIs
  <2> QED BY <2>2, <2>4, <2>5
<1> QED BY <1>3, <1>4, <1>5


-----------------------------------------------------------------------------
\* The steps of the server are those that the users are promised.

Concluded(s) == IF pc[s] = "done" THEN send_status[s] ELSE "none"

\* What the users see of the senders, and what they see of the sessions.
SeesSame(s) == Sent(reported'[s]) = Sent(reported[s]) /\ Concluded(s)' = Concluded(s)
FateSame(s) == Fate(s)' = Fate(s)

LEMMA OwnedNow == Controller => Owned(accepted)
BY DEF Controller, IInv, TypeOK, Owner, Owned

LEMMA OwnedNext == Controller' => Owned(accepted')
BY DEF Controller, IInv, TypeOK, Owner, Owned

LEMMA SameSeen ==
  ASSUME \A t \in Sender : SeesSame(t)
  PROVE  /\ [t \in Sender |-> {feedback.file : feedback \in Completed(t)}]'
              = [t \in Sender |-> {feedback.file : feedback \in Completed(t)}]
         /\ [t \in Sender |-> IF pc[t] = "done" THEN send_status[t] ELSE "none"]'
              = [t \in Sender |-> IF pc[t] = "done" THEN send_status[t] ELSE "none"]
<1>1. \A t \in Sender : {feedback.file : feedback \in Completed(t)}'
                          = {feedback.file : feedback \in Completed(t)}
  BY DEF SeesSame, Sent, Completed
<1>2. \A t \in Sender : (IF pc[t] = "done" THEN send_status[t] ELSE "none")'
                          = IF pc[t] = "done" THEN send_status[t] ELSE "none"
  BY DEF SeesSame, Concluded
<1> QED BY <1>1, <1>2

LEMMA SameFates ==
  ASSUME \A t \in Sender : FateSame(t)
  PROVE  [t \in Sender |-> Fate(t)]' = [t \in Sender |-> Fate(t)]
BY DEF FateSame

LEMMA NewFate ==
  ASSUME NEW s \in Sender, NEW how, Fate(s)' = how, \A t \in Sender \ {s} : FateSame(t)
  PROVE  [t \in Sender |-> Fate(t)]' = [[t \in Sender |-> Fate(t)] EXCEPT ![s] = how]
<1>1. \A t \in Sender : Fate(t)' = IF t = s THEN how ELSE Fate(t)
  BY DEF FateSame
<1> QED BY <1>1

LEMMA Stutters ==
  ASSUME \A t \in Sender : SeesSame(t) /\ FateSame(t), UNCHANGED saved
  PROVE  UNCHANGED Users!vars
BY SameSeen, SameFates DEF Users!vars

LEMMA OpensForUsers ==
  ASSUME NEW s \in Sender, UNCHANGED saved,
         \A t \in Sender : SeesSame(t) /\ Fate(t) # "open",
         \A t \in Sender \ {s} : FateSame(t),
         Fate(s) = "none", Fate(s)' = "open"
  PROVE  Users!Open(s)
<1>1. [t \in Sender |-> Fate(t)]' = [[t \in Sender |-> Fate(t)] EXCEPT ![s] = "open"]
  BY NewFate
<1> QED BY <1>1, SameSeen DEF Users!Open

LEMMA AbortsForUsers ==
  ASSUME NEW s \in Sender, UNCHANGED saved,
         \A t \in Sender : SeesSame(t), \A t \in Sender \ {s} : FateSame(t),
         NEW how \in Users!Aborts, Fate(s) = "open", Fate(s)' = how
  PROVE  Users!Abort(s)
<1>1. [t \in Sender |-> Fate(t)]' = [[t \in Sender |-> Fate(t)] EXCEPT ![s] = how]
  BY NewFate
<1> QED BY <1>1, SameSeen DEF Users!Abort

LEMMA SavesForUsers ==
  ASSUME NEW s \in Sender, SendTypeOK, Left(s), Work(s), Saves(s),
         \A t \in Sender : SeesSame(t), \A t \in Sender \ {s} : FateSame(t),
         Fate(s) = "open",
         Fate(s)' = IF Tail(todo[s]) = <<>> THEN "completed" ELSE "open"
  PROVE  Users!Save(s)
<1>1. PICK i \in DOMAIN FilesOf[s] :
        /\ FilesOf[s][i] = Head(todo[s])
        /\ \A j \in 1 .. i - 1 : FilesOf[s][j] \in saved
        /\ i = Len(FilesOf[s]) <=> Tail(todo[s]) = <<>>
  BY CurrentPlace DEF Saves
<1>2. FilesOf[s][i] \notin saved /\ saved' = saved \cup {FilesOf[s][i]}
  BY <1>1 DEF Saves
<1>3. Fate(s)' = IF i = Len(FilesOf[s]) THEN "completed" ELSE Fate(s)
  BY <1>1
<1>4. [t \in Sender |-> Fate(t)]' = [[t \in Sender |-> Fate(t)] EXCEPT ![s] =
        IF i = Len(FilesOf[s]) THEN "completed" ELSE Fate(s)]
  BY <1>3, NewFate
<1>5. [t \in Sender |-> Fate(t)]' = [[t \in Sender |-> Fate(t)] EXCEPT ![s] =
        IF i = Len(FilesOf[s]) THEN "completed" ELSE @]
  BY <1>4
<1>6. [t \in Sender |-> Fate(t)][s] = "open"
  OBVIOUS
<1> QED BY <1>1, <1>2, <1>5, <1>6, SameSeen DEF Users!Save

LEMMA HandledForUsers ==
  ASSUME TInv, Controller', NEW s \in Sender, Left(s), Handled(s), UNCHANGED main_vars
  PROVE  Users!Next \/ UNCHANGED Users!vars
<1>1. /\ Controller /\ SendTypeOK /\ Work(s)
      /\ Owned(accepted) /\ Owned(accepted')
  BY OwnedNow, OwnedNext DEF TInv, Senders, TypeInv, Link
<1>2. \A t \in Sender : SeesSame(t)
  BY DEF SeesSame, Concluded, main_vars
<1>3. \A t \in Sender \ {s} : FateSame(t)
  BY <1>1, HandledSpares, FateElsewhere DEF FateSame
<1>4. \A how : Ends(s, how) => Fate(s) = "open" /\ Fate(s)' = how
  BY <1>1, FateHere DEF Ends
<1>5. CASE UNCHANGED <<accepted, outcome>>
  <2>1. Fate(s)' = Fate(s)
    BY <1>5 DEF Fate
  <2>2. CASE UNCHANGED saved
    BY <1>2, <1>3, <2>1, <2>2, Stutters DEF FateSame
  <2>3. CASE Goes(s) /\ Saves(s) /\ Tail(todo[s]) # <<>>
    <3>1. Fate(s) = "open"
      BY <1>1, <2>3, FateHere DEF Goes
    <3> QED BY <1>1, <1>2, <1>3, <2>1, <2>3, <3>1, SavesForUsers DEF Users!Next
  <2>4. Idles \/ Goes(s) => UNCHANGED saved \/ (Goes(s) /\ Saves(s) /\ Tail(todo[s]) # <<>>)
    BY DEF Idles, Goes
  <2>5. ASSUME NEW how \in Ended, Ends(s, how) PROVE FALSE
    BY <1>4, <2>1, <2>5 DEF Ended
  <2>6. ~Opens(s)
    BY <1>1, <2>1, FateHere
  <2> QED BY <2>2, <2>3, <2>4, <2>5, <2>6 DEF Handled
<1>6. CASE Opens(s)
  <2>1. UNCHANGED saved /\ Fate(s) = "none" /\ Fate(s)' = "open"
        /\ \A t \in Sender : Fate(t) # "open"
    BY <1>1, <1>6, FateHere DEF Opens
  <2> QED BY <1>2, <1>3, <2>1, OpensForUsers DEF Users!Next
<1>7. ASSUME NEW how \in Ended, Ends(s, how)
      PROVE  Users!Next \/ UNCHANGED Users!vars
  <2>1. CASE how = "completed"
    <3>1. Saves(s) /\ Tail(todo[s]) = <<>>
      BY <1>7, <2>1 DEF Ends, Closes
    <3> QED BY <1>1, <1>2, <1>3, <1>4, <1>7, <2>1, <3>1, SavesForUsers DEF Users!Next
  <2>2. CASE how # "completed"
    <3>1. UNCHANGED saved /\ how \in Users!Aborts
      BY <1>7, <2>2 DEF Ends, Closes, Ended, Outcomes, Users!Aborts
    <3> QED BY <1>2, <1>3, <1>4, <1>7, <3>1, AbortsForUsers DEF Users!Next
  <2> QED BY <2>1, <2>2
<1> QED BY <1>5, <1>6, <1>7 DEF Handled, Idles, Goes

LEMMA FatedKeeps ==
  ASSUME Controller, Fated, NEW s \in Sender, Handled(s)
  PROVE  Fated'
<1>1. /\ accepted \in [1 .. MaxRequests -> SUBSET File]
      /\ outcome \in [1 .. MaxRequests -> Outcomes]
      /\ session_id # 0 => session_id \in 1 .. MaxRequests /\ outcome[session_id] = "open"
  BY DEF Controller, IInv, TypeOK, OneOpenSession
<1>2. FilesIn(s) # {}
  BY OwnFiles
<1>3. CASE Opens(s)
  BY <1>1, <1>2, <1>3 DEF Opens, Fated
<1>4. ASSUME NEW how \in Ended, Ends(s, how) PROVE Fated'
  BY <1>1, <1>4 DEF Ends, MineOpen, Ended, Fated
<1> QED BY <1>3, <1>4 DEF Handled, Idles, Goes, Fated


-----------------------------------------------------------------------------
\* What a step of a sender does to what its user sees.

LEMMA SentUnion ==
  ASSUME NEW A, NEW B
  PROVE  Sent(A \cup B) = Sent(A) \cup Sent(B)
BY DEF Sent

LEMMA SentKinds ==
  /\ Sent({}) = {}
  /\ \A kind : kind # "FileSendingCompleted" => Sent({[type |-> kind]}) = {}
  /\ \A f : Sent({[type |-> "FileSendingCompleted", file |-> f]}) = {f}
<1>1. Sent({}) = {}
  BY DEF Sent
<1>2. ASSUME NEW kind, kind # "FileSendingCompleted" PROVE Sent({[type |-> kind]}) = {}
  <2> DEFINE feedback == [type |-> kind]
  <2>1. feedback.type # "FileSendingCompleted"
    BY <1>2
  <2> HIDE DEF feedback
  <2>2. Sent({feedback}) = {}
    BY <2>1 DEF Sent
  <2> QED BY <2>2 DEF feedback
<1>3. ASSUME NEW f PROVE Sent({[type |-> "FileSendingCompleted", file |-> f]}) = {f}
  <2> DEFINE feedback == [type |-> "FileSendingCompleted", file |-> f]
  <2>1. feedback.type = "FileSendingCompleted" /\ feedback.file = f
    OBVIOUS
  <2> HIDE DEF feedback
  <2>2. Sent({feedback}) = {f}
    BY <2>1 DEF Sent
  <2> QED BY <2>2 DEF feedback
<1> QED BY <1>1, <1>2, <1>3

\* The feedbacks show the current file as sent when the sender leaves it.
Adds(s, feedbacks) ==
  \/ todo'[s] = todo[s] /\ Sent(feedbacks) = {}
  \/ /\ todo[s] # <<>> /\ Head(todo[s]) \in saved /\ todo'[s] = Tail(todo[s])
     /\ Sent(feedbacks) = {Head(todo[s])}

Progress(s) ==
  /\ \E feedbacks : reported'[s] = reported[s] \cup feedbacks /\ Adds(s, feedbacks)
  /\ pc[s] = "done" => SeesSame(s)
  /\ pc[s] # "done" /\ pc'[s] = "done" =>
       /\ send_status'[s] \in Users!Verdicts
       /\ send_status'[s] = "kCompleted" => todo'[s] = <<>>
  /\ Known(s)'

Alone(s) ==
  \A t \in Sender \ {s} : reported'[t] = reported[t] /\ cancel'[t] = cancel[t]

LEMMA FinishProgress ==
  ASSUME SendTypeOK, NEW s \in Sender, pc[s] # "done",
         NEW status \in Users!Verdicts, NEW feedbacks, Finish(s, status, feedbacks),
         status = "kCompleted" => todo'[s] = <<>>, Adds(s, feedbacks),
         \/ send_session_id'[s] # 0
         \/ /\ Known(s) /\ send_session_id'[s] = send_session_id[s]
            /\ status = "kCancelledBySender" => send_status[s] = "kCancelledBySender"
  PROVE  Progress(s) /\ Alone(s)
<1>1. /\ send_status'[s] = status /\ pc'[s] = "done"
      /\ reported'[s] = reported[s] \cup feedbacks
      /\ cancel[s] = "none" => cancel'[s] = "none"
      /\ \A t \in Sender \ {s} : reported'[t] = reported[t] /\ cancel'[t] = cancel[t]
  BY DEF Finish, SendTypeOK
<1>2. Known(s)'
  BY <1>1 DEF Known
<1> QED BY <1>1, <1>2 DEF Progress, Alone

LEMMA RunProgress ==
  ASSUME SendTypeOK, NEW s \in Sender, pc[s] # "done", pc'[s] # "done",
         NEW feedbacks, reported' = [reported EXCEPT ![s] = @ \cup feedbacks],
         Adds(s, feedbacks), UNCHANGED cancel,
         send_session_id'[s] # 0
  PROVE  Progress(s) /\ Alone(s)
BY DEF Progress, Alone, Known, SendTypeOK

LEMMA ContinueRuns ==
  ASSUME SendTypeOK, NEW s \in Sender, NEW f, NEW i, NEW sid, NEW with, NEW rest,
         Continue(s, f, i, sid, with, rest)
  PROVE  pc'[s] # "done"
BY DEF Continue, SendTypeOK

LEMMA StartFileProgress ==
  ASSUME SendTypeOK, NEW s \in Sender, pc[s] # "done",
         NEW f, NEW sid, NEW with, NEW rest, NEW feedbacks,
         StartFile(s, f, sid, with, rest, feedbacks), Adds(s, feedbacks),
         send_session_id'[s] # 0
  PROVE  Progress(s) /\ Alone(s)
<1>1. CASE /\ reported' = [reported EXCEPT ![s] = @ \cup feedbacks] /\ UNCHANGED cancel
           /\ Continue(s, f, 0, sid, with, rest)
  BY <1>1, ContinueRuns, RunProgress
<1>2. CASE Finish(s, "kFailed", feedbacks \cup {[type |-> "SendFailed"]})
  <2>1. Sent(feedbacks \cup {[type |-> "SendFailed"]}) = Sent(feedbacks)
    <3> DEFINE failed == {[type |-> "SendFailed"]}
    <3>1. Sent(failed) = {}
      BY SentKinds
    <3> HIDE DEF failed
    <3>2. Sent(feedbacks \cup failed) = Sent(feedbacks)
      BY <3>1, SentUnion
    <3> QED BY <3>2 DEF failed
  <2>2. Adds(s, feedbacks \cup {[type |-> "SendFailed"]})
    BY <2>1 DEF Adds
  <2>3. "kFailed" \in Users!Verdicts
    BY DEF Users!Verdicts
  <2> QED BY <1>2, <2>2, <2>3, FinishProgress
<1> QED BY <1>1, <1>2 DEF StartFile

\* A step that neither reports nor ends anything.
LEMMA StillProgress ==
  ASSUME SendTypeOK, NEW s \in Sender, UNCHANGED <<pc, reported, todo>>, Known(s)',
         pc[s] = "done" => send_status'[s] = send_status[s],
         \A t \in Sender \ {s} : cancel'[t] = cancel[t]
  PROVE  Progress(s) /\ Alone(s)
<1>1. reported'[s] = reported[s] \cup {} /\ Adds(s, {})
  BY SentKinds DEF Adds
<1> QED BY <1>1 DEF Progress, Alone, SeesSame, Concluded

LEMMA ConnectProgress ==
  ASSUME Senders, NEW s \in Sender, Known(s), Connect(s)
  PROVE  Progress(s) /\ Alone(s)
<1>1. /\ pc[s] = "connect" /\ UNCHANGED <<send_session_id, todo>> /\ SendTypeOK
  BY DEF Connect, Senders, TypeInv
<1>2. CASE Finish(s, "kFailed", {[type |-> "NetworkError"]})
  <2>1. Adds(s, {[type |-> "NetworkError"]}) /\ "kFailed" \in Users!Verdicts
    BY <1>1, SentKinds DEF Adds, Users!Verdicts
  <2> QED BY <1>1, <1>2, <2>1, FinishProgress
<1>3. CASE /\ send_status' = [send_status EXCEPT ![s] = "kWaiting"]
           /\ pc' = [pc EXCEPT ![s] = "request"]
           /\ UNCHANGED <<cancel, reported>>
  <2>1. pc'[s] = "request" /\ send_status'[s] = "kWaiting"
    BY <1>1, <1>3 DEF SendTypeOK
  <2>2. Known(s)'
    BY <1>1, <1>3, <2>1 DEF Known
  <2>3. reported'[s] = reported[s] \cup {} /\ Adds(s, {})
    BY <1>1, <1>3, SentKinds DEF Adds
  <2> QED BY <1>1, <1>3, <2>1, <2>2, <2>3 DEF Progress, Alone
<1> QED BY <1>2, <1>3 DEF Connect

LEMMA RequestAnswerProgress ==
  ASSUME Senders, NEW s \in Sender, Link(s), Known(s), NEW ans, RequestAnswer(s, ans)
  PROVE  Progress(s) /\ Alone(s)
<1>1. /\ pc[s] = "request" /\ Resume(s, "start", ans) /\ SendTypeOK
  BY DEF RequestAnswer, Senders, TypeInv
<1>2. CASE /\ send_status[s] = "kCancelledBySender"
           /\ Finish(s, "kCancelledBySender", {}) /\ UNCHANGED <<send_session_id, todo>>
  <2>1. Adds(s, {}) /\ "kCancelledBySender" \in Users!Verdicts
    BY <1>2, SentKinds DEF Adds, Users!Verdicts
  <2> QED BY <1>1, <1>2, <2>1, FinishProgress
<1>3. CASE Decline(s) /\ UNCHANGED <<send_session_id, todo>>
  <2>1. Adds(s, {[type |-> "RecipientDeclined"]}) /\ "kDeclined" \in Users!Verdicts
    BY <1>3, SentKinds DEF Adds, Users!Verdicts
  <2> QED BY <1>1, <1>3, <2>1, FinishProgress DEF Decline
<1>4. CASE /\ pc' = [pc EXCEPT ![s] = "retry"]
           /\ UNCHANGED <<send_status, send_session_id, todo, reported, cancel>>
  <2>1. pc'[s] = "retry"
    BY <1>1, <1>4 DEF SendTypeOK
  <2>2. Known(s)'
    BY <1>4, <2>1 DEF Known
  <2>3. reported'[s] = reported[s] \cup {} /\ Adds(s, {})
    BY <1>4, SentKinds DEF Adds
  <2> QED BY <1>1, <1>4, <2>1, <2>2, <2>3 DEF Progress, Alone
<1>5. CASE /\ ans.code = "200"
           /\ send_session_id' = [send_session_id EXCEPT ![s] = ans.sid]
           /\ Accepted(s, ans.sid, ans.tokens, Tail(readers[s]))
  <2>1. Told(s, ans) /\ Awaits(pc[s], ans.to)
    BY <1>1, <1>5, StartResumes, ErrorCode DEF StartResumed
  <2>2. ans.sid \in SessionOf(s)
    BY <1>1, <1>5, <2>1 DEF Awaits, Told, Answers200
  <2>3. send_session_id'[s] # 0
    BY <1>1, <1>5, <2>2, ChunksOK DEF SendTypeOK, SessionOf
  <2>4. /\ todo' = todo
        /\ StartFile(s, Head(todo[s]), ans.sid, ans.tokens, Tail(readers[s]),
                     {[type |-> "RecipientAccepted"]})
    BY <1>5 DEF Accepted
  <2>5. Adds(s, {[type |-> "RecipientAccepted"]})
    BY <2>4, SentKinds DEF Adds
  <2> QED BY <1>1, <2>3, <2>4, <2>5, StartFileProgress
<1> QED BY <1>2, <1>3, <1>4, <1>5 DEF RequestAnswer

\* Nobody cancels before the session is known, so that the timer only leads back
\* to the request.
LEMMA RetryTimerProgress ==
  ASSUME Senders, NEW s \in Sender, Link(s), Known(s), RetryTimer(s)
  PROVE  Progress(s) /\ Alone(s)
<1>1. /\ pc[s] = "retry" /\ UNCHANGED send_session_id /\ SendTypeOK
  BY DEF RetryTimer, Senders, TypeInv
<1>2. send_status[s] = "kWaiting" /\ send_session_id[s] = 0
  BY <1>1 DEF Link, Named, Known
<1>3. /\ pc'[s] = "request" /\ UNCHANGED <<send_status, todo, reported, cancel>>
  BY <1>1, <1>2 DEF RetryTimer, SendTypeOK
<1>4. Known(s)'
  BY <1>1, <1>2, <1>3 DEF Known
<1>5. reported'[s] = reported[s] \cup {} /\ Adds(s, {})
  BY <1>3, SentKinds DEF Adds
<1> QED BY <1>1, <1>3, <1>4, <1>5 DEF Progress, Alone

LEMMA EndingProgress ==
  ASSUME Senders, NEW s \in Sender, Known(s), NEW ans, EndingAnswer(s, ans),
         pc[s] \in {"chunk", "verify"}, UNCHANGED send_session_id
  PROVE  Progress(s) /\ Alone(s)
<1>1. PICK status, feedbacks :
        /\ status \in Users!Verdicts /\ status # "kCompleted"
        /\ Finish(s, status, feedbacks) /\ Sent(feedbacks) = {}
  <2>1. {"kCancelledBySender", "kCancelledByReceiver", "kFailed"} \subseteq Users!Verdicts
    BY DEF Users!Verdicts
  <2>2. /\ Sent({}) = {} /\ Sent({[type |-> "CancelledByReceiver"]}) = {}
        /\ Sent({[type |-> "SendFailed"]}) = {}
    BY SentKinds
  <2> QED BY <2>1, <2>2 DEF EndingAnswer
<1>2. Adds(s, feedbacks)
  BY <1>1 DEF EndingAnswer, Adds
<1>3. send_session_id'[s] # 0
  BY DEF Known
<1> QED BY <1>1, <1>2, <1>3, FinishProgress DEF Senders, TypeInv

LEMMA ChunkAnswerProgress ==
  ASSUME Senders, NEW s \in Sender, Known(s), NEW ans, ChunkAnswer(s, ans)
  PROVE  Progress(s) /\ Alone(s)
<1>1. pc[s] = "chunk" /\ UNCHANGED send_session_id /\ SendTypeOK /\ send_session_id[s] # 0
  BY DEF ChunkAnswer, Senders, TypeInv, Known
<1>2. CASE EndingAnswer(s, ans)
  BY <1>1, <1>2, EndingProgress
<1>3. CASE ~EndingAnswer(s, ans)
  <2>1. pc'[s] # "done" /\ UNCHANGED <<reported, todo, cancel>>
    BY <1>1, <1>3, ContinueRuns DEF ChunkAnswer
  <2>2. reported' = [reported EXCEPT ![s] = @ \cup {}] /\ Adds(s, {})
    BY <1>1, <2>1, SentKinds DEF Adds, SendTypeOK
  <2> QED BY <1>1, <2>1, <2>2, RunProgress
<1> QED BY <1>2, <1>3

LEMMA VerifyAnswerProgress ==
  ASSUME Senders, NEW s \in Sender, Link(s), Known(s), NEW ans, VerifyAnswer(s, ans)
  PROVE  Progress(s) /\ Alone(s)
<1> DEFINE completed == [type |-> "FileSendingCompleted", file |-> Head(todo[s])]
<1>1. /\ pc[s] = "verify" /\ Resume(s, "start", ans) /\ UNCHANGED send_session_id
      /\ SendTypeOK /\ send_session_id[s] # 0
  BY DEF VerifyAnswer, Senders, TypeInv, Known
<1>2. CASE EndingAnswer(s, ans)
  BY <1>1, <1>2, EndingProgress
<1>3. CASE ~EndingAnswer(s, ans)
  <2>1. ans.code = "200"
    BY <1>3 DEF VerifyAnswer
  <2>2. Told(s, ans) /\ Awaits(pc[s], ans.to)
    BY <1>1, <2>1, StartResumes, ErrorCode DEF StartResumed
  <2>3. todo[s] # <<>> /\ Head(todo[s]) \in saved
    BY <1>1, <2>1, <2>2 DEF Awaits, Told, Answers200, Senders, TypeInv, HasFile
  <2>4. /\ Sent({completed}) = {Head(todo[s])}
        /\ Sent({completed, [type |-> "SendSessionEnded"]}) = {Head(todo[s])}
    <3>1. Sent({completed}) = {Head(todo[s])} /\ Sent({[type |-> "SendSessionEnded"]}) = {}
      BY SentKinds
    <3>2. {completed, [type |-> "SendSessionEnded"]} = {completed} \cup {[type |-> "SendSessionEnded"]}
      OBVIOUS
    <3>3. Sent({completed} \cup {[type |-> "SendSessionEnded"]})
            = Sent({completed}) \cup Sent({[type |-> "SendSessionEnded"]})
      BY SentUnion
    <3> QED BY <3>1, <3>2, <3>3
  <2>5. CASE /\ todo' = [todo EXCEPT ![s] = Tail(@)]
             /\ StartFile(s, Head(Tail(todo[s])), send_session_id[s], tokens[s],
                          Tail(readers[s]), {completed})
    <3>1. Adds(s, {completed})
      BY <1>1, <2>3, <2>4, <2>5 DEF Adds, SendTypeOK
    <3> QED BY <1>1, <2>5, <3>1, StartFileProgress
  <2>6. CASE /\ Tail(todo[s]) = <<>> /\ todo' = [todo EXCEPT ![s] = <<>>]
             /\ Finish(s, "kCompleted", {completed, [type |-> "SendSessionEnded"]})
    <3>1. /\ todo'[s] = <<>> /\ Adds(s, {completed, [type |-> "SendSessionEnded"]})
          /\ "kCompleted" \in Users!Verdicts
      BY <1>1, <2>3, <2>4, <2>6 DEF Adds, SendTypeOK, Users!Verdicts
    <3> QED BY <1>1, <2>6, <3>1, FinishProgress
  <2> QED BY <1>3, <2>5, <2>6 DEF VerifyAnswer
<1> QED BY <1>2, <1>3

LEMMA SideProgress ==
  ASSUME ~CancelWhileWaiting, Senders, NEW s \in Sender, Link(s), Known(s),
         SenderStep(s) \/ Cancel(s) \/ Break(s)
  PROVE  Progress(s) /\ Alone(s)
<1>1. SendTypeOK /\ (readers[s] # <<>> => pc[s] # "done")
  BY DEF Senders, TypeInv, ReadersInv, Aligned
<1>2. ASSUME NEW ans, CancelAnswer(s, ans) PROVE Progress(s) /\ Alone(s)
  <2>1. /\ UNCHANGED <<pc, reported, todo, send_session_id>> /\ cancel[s] = "await"
        /\ pc[s] # "done" /\ \A t \in Sender \ {s} : cancel'[t] = cancel[t]
    BY <1>1, <1>2 DEF CancelAnswer, Resume, SendTypeOK
  <2>2. Known(s)'
    BY <2>1 DEF Known
  <2> QED BY <1>1, <2>1, <2>2, StillProgress
<1>3. CASE Cancel(s)
  <2>1. /\ UNCHANGED <<pc, reported, todo, send_session_id, send_status>>
        /\ send_session_id[s] # 0 /\ \A t \in Sender \ {s} : cancel'[t] = cancel[t]
    BY <1>1, <1>3 DEF Cancel, main_vars, SendTypeOK
  <2>2. Known(s)'
    BY <2>1 DEF Known
  <2> QED BY <1>1, <2>1, <2>2, StillProgress
<1>4. CASE Break(s)
  <2>1. UNCHANGED <<pc, reported, todo, send_session_id, send_status, cancel>>
    BY <1>4 DEF Break, main_vars
  <2>2. Known(s)'
    BY <2>1 DEF Known
  <2> QED BY <1>1, <2>1, <2>2, StillProgress
<1>5. CASE WriteEnds(s)
  <2>1. UNCHANGED <<pc, reported, todo, send_session_id, send_status, cancel>>
    BY <1>5 DEF WriteEnds, main_vars
  <2>2. Known(s)'
    BY <2>1 DEF Known
  <2> QED BY <1>1, <2>1, <2>2, StillProgress
<1> QED
  BY <1>2, <1>3, <1>4, <1>5, ConnectProgress, RetryTimerProgress, RequestAnswerProgress,
     ChunkAnswerProgress, VerifyAnswerProgress DEF SenderStep


-----------------------------------------------------------------------------
\* The steps of the senders are those that the users are promised.

\* What comes after the current file is left, and it is seen as sent.
LEMMA ProgressKeeps ==
  ASSUME SendTypeOK, NEW s \in Sender, Left(s), Seen(s), Work(s), Progress(s)
  PROVE  Left(s)' /\ Seen(s)'
<1>1. PICK feedbacks : reported'[s] = reported[s] \cup feedbacks /\ Adds(s, feedbacks)
  BY DEF Progress
<1>2. Sent(reported'[s]) = Sent(reported[s]) \cup Sent(feedbacks)
  BY <1>1, SentUnion
<1>3. CASE todo'[s] = todo[s] /\ Sent(feedbacks) = {}
  BY <1>2, <1>3 DEF Left, Seen
<1>4. CASE /\ todo[s] # <<>> /\ todo'[s] = Tail(todo[s])
           /\ Sent(feedbacks) = {Head(todo[s])}
  <2> DEFINE c == todo[s]
             q == FilesOf[s]
             t == Tail(c)
  <2>1. c \in Seq(File) /\ c # <<>> /\ q \in Seq(File)
    BY <1>4, SendersOK DEF SendTypeOK
  <2>2. /\ Items(c) = {Head(c)} \cup Items(t) /\ Head(c) \notin Items(t)
        /\ Items(c) \subseteq FilesIn(s)
    BY <2>1, ItemsSplit DEF Work
  <2>3. Seen(s)'
    <3> HIDE DEF c, t
    <3>1. Sent(reported[s]) = FilesIn(s) \ Items(c)
      BY DEF Seen, c
    <3>2. Sent(reported'[s]) = FilesIn(s) \ Items(t)
      BY <1>2, <1>4, <2>2, <3>1 DEF c
    <3>3. todo'[s] = t
      BY <1>4 DEF t, c
    <3> QED BY <3>2, <3>3 DEF Seen
  <2>4. PICK k \in 0 .. Len(q) : Len(c) = Len(q) - k /\ \A i \in DOMAIN c : c[i] = q[k + i]
    BY DEF Left
  <2>5. /\ Len(q) \in Nat /\ Len(c) \in Nat /\ Len(c) # 0 /\ Len(t) = Len(c) - 1
        /\ DOMAIN c = 1 .. Len(c) /\ DOMAIN t = 1 .. Len(c) - 1
        /\ \A i \in 1 .. Len(c) - 1 : t[i] = c[i + 1]
    BY <2>1
  <2> HIDE DEF c, q, t
  <2>6. k + 1 \in 0 .. Len(q) /\ Len(t) = Len(q) - (k + 1)
    BY <2>4, <2>5
  <2>7. ASSUME NEW i \in DOMAIN t PROVE t[i] = q[(k + 1) + i]
    <3>1. i \in 1 .. Len(c) - 1 /\ k \in Int
      BY <2>5
    <3>2. k + (i + 1) = (k + 1) + i
      BY <3>1
    <3>3. i + 1 \in DOMAIN c
      BY <2>5, <3>1
    <3>4. t[i] = c[i + 1]
      BY <2>5, <3>1
    <3> QED BY <2>4, <3>2, <3>3, <3>4
  <2>8. \E m \in 0 .. Len(q) : Len(t) = Len(q) - m /\ \A i \in DOMAIN t : t[i] = q[m + i]
    BY <2>6, <2>7
  <2>9. Left(s)'
    BY <1>4, <2>8 DEF Left, c, q, t
  <2> QED BY <2>3, <2>9
<1> QED BY <1>1, <1>3, <1>4 DEF Adds

\* What a sender says of the receiver when it ends is true.
LEMMA EndsTrue ==
  ASSUME TInv', Fated', NEW s \in Sender, Seen(s)', Known(s)', NEW status,
         send_status'[s] = status
  PROVE  /\ status = "kCompleted" => Fate(s)' = "completed"
         /\ status = "kCancelledByReceiver" => Fate(s)' = "cancelled_by_receiver"
         /\ status = "kCancelledBySender" => Fate(s)' \in Users!Aborts
         /\ todo'[s] = <<>> => Sent(reported'[s]) = Users!Names(s)
<1> DEFINE n == send_session_id'[s]
<1>1. /\ Verdict(s)' /\ Named(s)' /\ CancelLate(s)' /\ Controller'
      /\ Owned(accepted')
  BY OwnedNext DEF TInv, Link
<1>2. outcome' \in [1 .. MaxRequests -> Outcomes]
  BY <1>1 DEF Controller, IInv, TypeOK
<1>3. Fate(s)' = FateIn(accepted', outcome', s)
  BY DEF Fate, FateIn
<1>4. ASSUME n # 0
      PROVE  /\ n \in 1 .. MaxRequests /\ n \in SessionOf(s)' /\ Fate(s)' = outcome'[n]
             /\ outcome'[n] # "none"
  <2>1. n \in SessionOf(s)'
    BY <1>1, <1>4 DEF Named
  <2>2. n \in 1 .. MaxRequests /\ accepted'[n] = FilesIn(s)
    BY <2>1 DEF SessionOf
  <2>3. Fate(s)' = outcome'[n]
    BY <1>1, <1>3, <2>2, FateIs
  <2>4. outcome'[n] # "none"
    BY <2>2, OwnFiles DEF Fated
  <2> QED BY <2>1, <2>2, <2>3, <2>4
<1>5. status = "kCompleted" => Fate(s)' = "completed"
  BY <1>1, <1>4 DEF Verdict
<1>6. status = "kCancelledByReceiver" => Fate(s)' = "cancelled_by_receiver"
  BY <1>1, <1>4 DEF Verdict
<1>7. ASSUME status = "kCancelledBySender" PROVE Fate(s)' \in Users!Aborts
  <2>1. n # 0
    BY <1>7 DEF Known
  <2>2. outcome'[n] \notin {"open", "completed"}
    BY <1>1, <1>4, <1>7, <2>1 DEF CancelLate
  <2> QED BY <1>2, <1>4, <2>1, <2>2 DEF Outcomes, Users!Aborts
<1>8. ASSUME todo'[s] = <<>> PROVE Sent(reported'[s]) = Users!Names(s)
  BY <1>8, ItemsNone DEF Seen, FilesIn, Users!Names
<1> QED BY <1>5, <1>6, <1>7, <1>8


LEMMA SideForUsers ==
  ASSUME ~CancelWhileWaiting, UsersInv, TInv', NEW s \in Sender, Side(s)
  PROVE  UsersInv' /\ (Users!Next \/ UNCHANGED Users!vars)
<1>1. /\ SenderStep(s) \/ Cancel(s) \/ Break(s)
      /\ UNCHANGED vars /\ UNCHANGED <<saved, accepted, outcome>>
  BY DEF Side, vars, disk
<1>2. /\ Senders /\ SendTypeOK /\ Link(s) /\ Work(s) /\ Fated
      /\ \A t \in Sender : Left(t) /\ Seen(t) /\ Known(t)
  BY DEF UsersInv, TInv, Senders, TypeInv, Link
<1>3. Progress(s) /\ Alone(s) /\ OthersSame(s)
  BY <1>1, <1>2, SideProgress, SideOthers
<1>4. \A t \in Sender \ {s} : SeesSame(t) /\ Left(t)' /\ Seen(t)' /\ Known(t)'
  <2> SUFFICES ASSUME NEW t \in Sender \ {s}
               PROVE  SeesSame(t) /\ Left(t)' /\ Seen(t)' /\ Known(t)'
    OBVIOUS
  <2>1. Same(t) /\ reported'[t] = reported[t] /\ cancel'[t] = cancel[t]
    BY <1>3 DEF Alone, OthersSame
  <2>2. SeesSame(t)
    BY <2>1 DEF Same, SeesSame, Concluded
  <2>3. Left(t)'
    BY <1>2, <2>1 DEF Same, Left
  <2>4. Seen(t)' /\ Known(t)'
    BY <1>2, <2>1 DEF Same, Seen, Known
  <2> QED BY <2>2, <2>3, <2>4
<1>5. Left(s)' /\ Seen(s)' /\ Known(s)'
  BY <1>2, <1>3, ProgressKeeps DEF Progress
<1>6. Fated'
  BY <1>1, <1>2 DEF Fated
<1>7. UsersInv'
  BY <1>4, <1>5, <1>6 DEF UsersInv
<1>8. \A t \in Sender : FateSame(t)
  BY <1>1 DEF FateSame, Fate
<1>9. [t \in Sender |-> Fate(t)]' = [t \in Sender |-> Fate(t)]
  BY <1>8, SameFates
<1> DEFINE Shows == [t \in Sender |-> {feedback.file : feedback \in Completed(t)}]
           Says == [t \in Sender |-> IF pc[t] = "done" THEN send_status[t] ELSE "none"]
<1>10. \/ Sent(reported'[s]) = Sent(reported[s])
       \/ \E f \in Users!Names(s) \cap saved : Sent(reported'[s]) = Sent(reported[s]) \cup {f}
  <2>1. PICK feedbacks : reported'[s] = reported[s] \cup feedbacks /\ Adds(s, feedbacks)
    BY <1>3 DEF Progress
  <2>2. Sent(reported'[s]) = Sent(reported[s]) \cup Sent(feedbacks)
    BY <2>1, SentUnion
  <2>3. todo[s] # <<>> => Head(todo[s]) \in Users!Names(s)
    BY <1>2, ItemsTail DEF Work, SendTypeOK, FilesIn, Users!Names
  <2> QED BY <2>1, <2>2, <2>3 DEF Adds
<1>11. \A t \in Sender : {feedback.file : feedback \in Completed(t)} = Sent(reported[t])
  BY DEF Sent, Completed
<1>12. \A t \in Sender : {feedback.file : feedback \in Completed(t)}' = Sent(reported'[t])
  BY DEF Sent, Completed
<1>13. Shows' = Shows \/ Users!Show(s)
  <2>1. \A t \in Sender \ {s} : Sent(reported'[t]) = Sent(reported[t])
    BY <1>4 DEF SeesSame
  <2>2. CASE Sent(reported'[s]) = Sent(reported[s])
    BY <1>11, <1>12, <2>1, <2>2
  <2>3. ASSUME NEW f \in Users!Names(s) \cap saved,
               Sent(reported'[s]) = Sent(reported[s]) \cup {f}
        PROVE  Users!Show(s)
    <3>1. Shows' = [Shows EXCEPT ![s] = @ \cup {f}]
      BY <1>11, <1>12, <2>1, <2>3
    <3> QED BY <3>1 DEF Users!Show
  <2> QED BY <1>10, <2>2, <2>3
<1>14. CASE Concluded(s)' = Concluded(s)
  <2>1. Says' = Says
    BY <1>4, <1>14 DEF SeesSame, Concluded
  <2>2. CASE Shows' = Shows
    BY <1>1, <1>7, <1>9, <2>1, <2>2 DEF Users!vars
  <2>3. CASE Users!Show(s) /\ Shows' # Shows
    <3>1. pc[s] # "done"
      <4>1. ASSUME pc[s] = "done" PROVE \A t \in Sender : SeesSame(t)
        BY <1>3, <1>4, <4>1 DEF Progress
      <4> QED BY <2>3, <4>1, SameSeen
    <3>2. Says[s] = "none"
      BY <3>1
    <3> QED BY <1>1, <1>7, <1>9, <2>1, <2>3, <3>2 DEF Users!Next, Users!Report
  <2> QED BY <1>13, <2>2, <2>3
<1>15. CASE Concluded(s)' # Concluded(s)
  <2>1. /\ pc[s] # "done" /\ pc'[s] = "done"
        /\ send_status'[s] \in Users!Verdicts
        /\ send_status'[s] = "kCompleted" => todo'[s] = <<>>
    BY <1>3, <1>15 DEF Progress, SeesSame, Concluded
  <2>2. PICK status \in Users!Verdicts : status = send_status'[s]
    BY <2>1
  <2>3. Says[s] = "none" /\ Says' = [Says EXCEPT ![s] = status]
    BY <1>4, <2>1, <2>2 DEF SeesSame, Concluded
  <2>4. Fate(s)' = [t \in Sender |-> Fate(t)][s]
    BY <1>8 DEF FateSame
  <2>5. /\ status = "kCompleted" =>
             [t \in Sender |-> Fate(t)][s] = "completed" /\ Shows'[s] = Users!Names(s)
        /\ status = "kCancelledByReceiver" =>
             [t \in Sender |-> Fate(t)][s] = "cancelled_by_receiver"
        /\ status = "kCancelledBySender" => [t \in Sender |-> Fate(t)][s] \in Users!Aborts
    BY <1>5, <1>6, <1>12, <2>1, <2>2, <2>4, EndsTrue
  <2> QED BY <1>1, <1>7, <1>9, <1>13, <2>2, <2>3, <2>5 DEF Users!Next, Users!Conclude
<1> QED BY <1>14, <1>15

\* A step in which the senders take no part, but their connections.
LEMMA ServerForUsers ==
  ASSUME UsersInv, TInv', NEW s \in Sender, Handled(s), UNCHANGED <<main_vars, cancel>>
  PROVE  UsersInv' /\ (Users!Next \/ UNCHANGED Users!vars)
<1>1. TInv /\ Controller /\ Controller' /\ Fated /\ Left(s)
  BY DEF UsersInv, TInv
<1>2. Fated'
  BY <1>1, FatedKeeps
<1>3. \A t \in Sender : Left(t)' /\ Seen(t)' /\ Known(t)'
  BY DEF UsersInv, Left, Seen, Known, main_vars
<1> QED BY <1>1, <1>2, <1>3, HandledForUsers DEF UsersInv

LEMMA ServeForUsers ==
  ASSUME UsersInv, TInv', NEW s \in Sender, ServerStep(s)
  PROVE  UsersInv' /\ (Users!Next \/ UNCHANGED Users!vars)
<1>1. /\ Controller /\ SendTypeOK /\ \A t \in Sender : Link(t)
  BY DEF UsersInv, TInv, Senders, TypeInv
<1>2. CASE Serve(s)
  <2>1. PICK req, resp : req = Head(to_server[s]) /\ Handle(s, req, resp)
    BY <1>2 DEF Serve
  <2>2. /\ req \in Request /\ req \in Items(to_server[s]) /\ Asked(s, req)
        /\ UNCHANGED <<main_vars, cancel>>
    BY <1>1, <1>2, <2>1, ItemsTail DEF Serve, SendTypeOK, Link, Asks
  <2>3. Handled(s)
    BY <1>1, <2>1, <2>2, HandleDoes
  <2> QED BY <2>2, <2>3, ServerForUsers
<1>3. CASE ServerNoticesLoss(s)
  <2>1. UNCHANGED <<main_vars, cancel>>
    BY <1>3 DEF ServerNoticesLoss, ServerEnds
  <2>2. CASE NotifySenderLost(s)
    BY <1>1, <2>1, <2>2, LossDoes, ServerForUsers DEF Handled, Ends, Link
  <2>3. CASE UNCHANGED vars
    BY <2>1, <2>3, ServerForUsers DEF Handled, Idles, vars, session, disk
  <2> QED BY <1>3, <2>2, <2>3 DEF ServerNoticesLoss
<1> QED BY <1>2, <1>3 DEF ServerStep

\* The receiver's user, and the steps that change nothing.
LEMMA QuietForUsers ==
  ASSUME UsersInv, TInv', UNCHANGED send_vars, UNCHANGED <<saved, accepted, outcome>>
  PROVE  UsersInv' /\ UNCHANGED Users!vars
<1>1. \A t \in Sender : SeesSame(t) /\ FateSame(t)
  BY DEF SeesSame, FateSame, Concluded, Fate, send_vars, main_vars
<1>2. UsersInv'
  BY DEF UsersInv, Fated, Left, Seen, Known, send_vars, main_vars
<1> QED BY <1>1, <1>2, Stutters

LEMMA UsersNext ==
  ASSUME ~CancelWhileWaiting
  PROVE  UsersInv /\ [TNext]_tvars => UsersInv' /\ [Users!Next]_Users!vars
<1> SUFFICES ASSUME UsersInv, [TNext]_tvars
             PROVE  UsersInv' /\ (Users!Next \/ UNCHANGED Users!vars)
  OBVIOUS
<1>1. TInv'
  BY TInvNext DEF UsersInv
<1>2. ASSUME NEW s \in Sender, Side(s) \/ ServerStep(s)
      PROVE  UsersInv' /\ (Users!Next \/ UNCHANGED Users!vars)
  BY <1>1, <1>2, SideForUsers, ServeForUsers
<1>3. CASE User \/ (AllDone /\ UNCHANGED vars) \/ UNCHANGED tvars
  <2>1. UNCHANGED send_vars /\ UNCHANGED <<saved, accepted, outcome>>
    BY <1>3 DEF User, CancelReceive, AllDone, tvars, vars, disk
  <2> QED BY <1>1, <2>1, QuietForUsers
<1> QED BY <1>2, <1>3 DEF TNext

\* Coroutines, connections that break and cancels from both sides implement what
\* the users are promised, as long as Cancel comes after the session id is known:
\* a sender that is cancelled before would say that the receiver was told, which
\* has no session to end.
THEOREM TransferImplements ==
  ASSUME ~CancelWhileWaiting
  PROVE  TSpec => ImplementsTransfer
<1>1. UsersInv /\ [TNext]_tvars => UsersInv' /\ [Users!Next]_Users!vars
  BY UsersNext
<1> QED BY <1>1, UsersInvInit, UsersInit, PTL DEF TSpec, ImplementsTransfer, Users!Spec

-----------------------------------------------------------------------------
\* The receiver's side of a transfer is a ReceiveController: real senders make
\* only requests that it is modelled for.

\* A request carries a token of its own session, or none.
Carries(r) == r.type \in Data => r.token \in {0, r.sid}

Carrying(s) == \A r \in Items(to_server[s]) : Carries(r)

\* Of what s has on its way after a step, only such requests are new.
Sends(s) == \A r \in Items(to_server'[s]) : r \in Items(to_server[s]) \/ Carries(r)

LEMMA IssueSends ==
  ASSUME SendTypeOK, NEW s \in Sender, NEW who, NEW req, NEW rest,
         Issue(s, who, req, rest), Carries(req)
  PROVE  Sends(s)
<1> DEFINE S == Request \cup {req}
           q == to_server[s]
<1>1. q \in Seq(Request) /\ to_server'[s] = IF conn[s] = "up" THEN Append(q, req) ELSE q
  BY DEF SendTypeOK, Issue
<1>2. q \in Seq(S) /\ req \in S
  <2> HIDE DEF q
  <2> QED BY <1>1
<1>3. Items(Append(q, req)) = Items(q) \cup {req}
  <2> HIDE DEF q, S
  <2> QED BY <1>2, ItemsAppend
<1> QED BY <1>1, <1>3 DEF Sends

LEMMA BeginSendsIt ==
  ASSUME SendTypeOK, NEW s \in Sender, NEW req, NEW rest, Begin(s, req, rest), Carries(req)
  PROVE  Sends(s)
<1>1. CASE UNCHANGED to_server
  BY <1>1 DEF Sends
<1> QED BY <1>1, IssueSends DEF Begin

LEMMA ContinueSends ==
  ASSUME SendTypeOK, NEW s \in Sender, NEW f, NEW i, NEW sid, NEW with, NEW rest,
         Continue(s, f, i, sid, with, rest)
  PROVE  Sends(s)
<1>1. Token(f, sid, with) \in {0, sid}
  BY DEF Token
<1>2. /\ Carries(SendChunk(sid, Token(f, sid, with), f, i))
      /\ Carries(VerifyIntegrity(sid, Token(f, sid, with), f))
  BY <1>1 DEF Carries, SendChunk, VerifyIntegrity
<1> QED BY <1>2, BeginSendsIt DEF Continue

LEMMA NothingSent ==
  ASSUME NEW s \in Sender, Items(to_server'[s]) \subseteq Items(to_server[s])
  PROVE  Sends(s)
BY DEF Sends

LEMMA StartFileSends ==
  ASSUME SendTypeOK, NEW s \in Sender, NEW f, NEW sid, NEW with, NEW rest, NEW feedbacks,
         StartFile(s, f, sid, with, rest, feedbacks)
  PROVE  Sends(s)
BY ContinueSends, NothingSent DEF StartFile, Finish

LEMMA AnswerSends ==
  ASSUME SendTypeOK, NEW s \in Sender, NEW ans,
         \/ RequestAnswer(s, ans) \/ ChunkAnswer(s, ans)
         \/ VerifyAnswer(s, ans) \/ CancelAnswer(s, ans)
  PROVE  Sends(s)
<1>1. CASE UNCHANGED to_server
  BY <1>1, NothingSent
<1>2. EndingAnswer(s, ans) => UNCHANGED to_server
  BY DEF EndingAnswer, Finish
<1>3. CASE RequestAnswer(s, ans)
  BY <1>1, <1>3, StartFileSends DEF RequestAnswer, Finish, Decline, Accepted
<1>4. CASE ChunkAnswer(s, ans)
  BY <1>1, <1>2, <1>4, ContinueSends DEF ChunkAnswer
<1>5. CASE VerifyAnswer(s, ans)
  BY <1>1, <1>2, <1>5, StartFileSends DEF VerifyAnswer, Finish
<1>6. CASE CancelAnswer(s, ans)
  BY <1>1, <1>6 DEF CancelAnswer
<1> QED BY <1>3, <1>4, <1>5, <1>6

LEMMA SideSends ==
  ASSUME SendTypeOK, NEW s \in Sender, SenderStep(s) \/ Cancel(s) \/ Break(s)
  PROVE  Sends(s)
<1>1. Carries(RequestSend(s)) /\ \A sid : Carries(CancelSend(sid))
  BY DEF Carries, RequestSend, CancelSend, Data
<1>2. CASE Connect(s)
  <2>1. CASE UNCHANGED to_server
    BY <2>1, NothingSent
  <2>2. CASE to_server' = [to_server EXCEPT ![s] = <<RequestSend(s)>>]
    <3>1. to_server'[s] = <<RequestSend(s)>>
      BY <2>2 DEF SendTypeOK
    <3>2. Items(to_server'[s]) = {RequestSend(s)}
      BY <3>1 DEF Items
    <3> QED BY <1>1, <3>2 DEF Sends
  <2> QED BY <1>2, <2>1, <2>2 DEF Connect, Finish
<1>3. CASE RetryTimer(s)
  BY <1>1, <1>3, BeginSendsIt, StartFileSends DEF RetryTimer, Accepted
<1>4. CASE Cancel(s)
  BY <1>1, <1>4, IssueSends, NothingSent DEF Cancel
<1>6. CASE WriteEnds(s)
  <2>1. Carries(Current(s))
    BY DEF Carries, Current, RequestSend, SendChunk, Token, Data
  <2> QED BY <1>6, <2>1, IssueSends DEF WriteEnds
<1>5. CASE Break(s)
  <2>1. to_server'[s] = to_server[s] \/ to_server'[s] = <<>>
    BY <1>5 DEF Break, SendTypeOK
  <2> QED BY <2>1, ItemsNone, NothingSent
<1> QED BY <1>2, <1>3, <1>4, <1>5, <1>6, AnswerSends DEF SenderStep

\* The server takes requests and sends none.
LEMMA ServerSends ==
  ASSUME SendTypeOK, NEW s \in Sender, ServerStep(s)
  PROVE  Sends(s) /\ \A t \in Sender \ {s} : to_server'[t] = to_server[t]
<1>1. to_server' = [to_server EXCEPT ![s] = <<>>]
        \/ (to_server[s] # <<>> /\ to_server' = [to_server EXCEPT ![s] = Tail(@)])
  BY DEF ServerStep, Serve, ServerNoticesLoss, ServerEnds, Reply
<1>2. \/ to_server'[s] = <<>>
      \/ to_server[s] # <<>> /\ to_server'[s] = Tail(to_server[s])
  BY <1>1 DEF SendTypeOK
<1>3. to_server[s] \in Seq(Request)
  BY DEF SendTypeOK
<1>4. Items(to_server'[s]) \subseteq Items(to_server[s])
  BY <1>2, <1>3, ItemsNone, ItemsTail
<1>5. \A t \in Sender \ {s} : to_server'[t] = to_server[t]
  BY <1>1 DEF SendTypeOK
<1> QED BY <1>4, <1>5, NothingSent

CarryInv == TInv /\ \A s \in Sender : Carrying(s)

LEMMA CarryInit == TInit => CarryInv
<1> SUFFICES ASSUME TInit PROVE CarryInv
  OBVIOUS
<1>1. \A s \in Sender : to_server[s] = <<>>
  BY DEF TInit, SendInit
<1> QED BY <1>1, TInvInit, ItemsNone DEF CarryInv, Carrying

LEMMA CarryNext == CarryInv /\ [TNext]_tvars => CarryInv'
<1> SUFFICES ASSUME CarryInv, [TNext]_tvars PROVE CarryInv'
  OBVIOUS
<1>1. SendTypeOK /\ TInv'
  BY TInvNext DEF CarryInv, TInv, Senders, TypeInv
<1>2. ASSUME NEW s \in Sender, Sends(s),
             \A t \in Sender \ {s} : to_server'[t] = to_server[t]
      PROVE  \A t \in Sender : Carrying(t)'
  BY <1>2 DEF Sends, Carrying, CarryInv
<1>3. CASE UNCHANGED to_server
  BY <1>1, <1>3 DEF CarryInv, Carrying
<1>4. ASSUME NEW s \in Sender, Side(s) PROVE CarryInv'
  <2>1. Sends(s) /\ OthersSame(s)
    BY <1>1, <1>4, SideSends, SideOthers DEF Side
  <2> QED BY <1>1, <1>2, <2>1 DEF OthersSame, Same, CarryInv
<1>5. ASSUME NEW s \in Sender, ServerStep(s) PROVE CarryInv'
  BY <1>1, <1>2, <1>5, ServerSends DEF CarryInv
<1>6. User \/ AllDone \/ UNCHANGED tvars => UNCHANGED to_server
  BY DEF User, AllDone, tvars, send_vars, net_vars
<1> QED BY <1>3, <1>4, <1>5, <1>6 DEF TNext

\* A request that is not valid is refused for its body or for that.
LEMMA InvalidChunk ==
  ASSUME NEW sid, NEW token, NEW f, NEW i, NEW body, NEW resp,
         ~IsValid(sid, token, f), onSendChunk(sid, token, f, i, body, resp)
  PROVE  \E b \in {"good", "malformed"} : onSendChunk(sid, token, f, 0, b, resp)
<1>1. CASE body = "malformed"
  <2>1. onSendChunk(sid, token, f, 0, "malformed", resp)
    BY <1>1 DEF onSendChunk
  <2> QED BY <2>1
<1>2. CASE body # "malformed"
  <2>1. onSendChunk(sid, token, f, 0, "good", resp)
    BY <1>2 DEF onSendChunk
  <2> QED BY <2>1
<1> QED BY <1>1, <1>2

LEMMA InvalidVerification ==
  ASSUME NEW sid, NEW token, NEW f, NEW body, NEW resp,
         ~IsValid(sid, token, f), onVerifyIntegrity(sid, token, f, body, resp)
  PROVE  \E b \in {"good", "malformed"} : onVerifyIntegrity(sid, token, f, b, resp)
<1>1. CASE body = "malformed"
  <2>1. onVerifyIntegrity(sid, token, f, "malformed", resp)
    BY <1>1 DEF onVerifyIntegrity
  <2> QED BY <2>1
<1>2. CASE body # "malformed"
  <2>1. ~Verifies(sid, token, f)
    BY DEF Verifies
  <2>2. onVerifyIntegrity(sid, token, f, "good", resp)
    BY <1>2, <2>1 DEF onVerifyIntegrity
  <2> QED BY <2>2
<1> QED BY <1>1, <1>2

\* Whatever a sender's request makes the server do, Next allows it.
LEMMA HandleIsNext ==
  ASSUME TInv, NEW s \in Sender, NEW req \in Request, Asked(s, req), Carries(req),
         NEW resp \in Responses, Handle(s, req, resp)
  PROVE  Next
<1>1. /\ IInv /\ Owner /\ Link(s) /\ requests \in Nat
  BY ChunksOK DEF TInv, Controller, IInv, TypeOK
<1>2. SomeConnectionIsFree
  BY <1>1 DEF Owner, SomeConnectionIsFree
<1>3. FilesIn(s) \in SUBSET File /\ FilesIn(s) # {}
  BY OwnFiles
<1>4. \A n \in SessionOf(s) : n \in Ids
  <2> SUFFICES ASSUME NEW n \in SessionOf(s) PROVE n \in Ids
    OBVIOUS
  <2>1. n \in 1 .. MaxRequests /\ accepted[n] # {}
    BY <1>3 DEF SessionOf
  <2>2. DOMAIN accepted = 1 .. MaxRequests
    BY <1>1 DEF IInv, TypeOK
  <2>3. ~(n > requests)
    BY <1>1, <2>1, <2>2 DEF IInv, FreshFiles
  <2> QED BY <1>1, <2>1, <2>3 DEF Ids
<1>5. 0 \in Ids /\ session_id \in Ids
  BY <1>1, ChunksOK DEF Ids, IInv, TypeOK, SessionShape
<1>6. CASE req.type = "request-send"
  <2>1. \E body \in RequestBodies : onRequestSend(s, FilesIn(s), body, resp)
    BY <1>6 DEF Handle, SentRequestBodies, RequestBodies
  <2> QED BY <1>3, <2>1 DEF Next
<1>7. CASE req.type = "send-chunk"
  <2>1. /\ req.sid \in Ids /\ req.token \in {0, req.sid} /\ req.file \in File
        /\ req.index \in Index
    BY <1>5, <1>7, ConstantsOK DEF Asked, Carries, Data, Request
  <2>2. PICK body \in SentChunkBodies(s) :
          onSendChunk(req.sid, req.token, req.file, req.index, body, resp)
    BY <1>7 DEF Handle
  <2>3. body \in ChunkBodies
    BY DEF SentChunkBodies, ChunkBodies
  <2>4. CASE IsValid(req.sid, req.token, req.file)
    BY <1>2, <2>1, <2>2, <2>3, <2>4 DEF Next
  <2>5. CASE ~IsValid(req.sid, req.token, req.file)
    <3>1. PICK b \in {"good", "malformed"} :
            onSendChunk(req.sid, req.token, req.file, 0, b, resp)
      BY <2>2, <2>5, InvalidChunk
    <3> QED BY <1>2, <2>1, <2>5, <3>1 DEF Next
  <2> QED BY <2>4, <2>5
<1>8. CASE req.type = "verify-integrity"
  <2>1. req.sid \in Ids /\ req.token \in {0, req.sid} /\ req.file \in File
    BY <1>5, <1>8 DEF Asked, Carries, Data, Request
  <2>2. PICK body \in SentVerifyBodies :
          onVerifyIntegrity(req.sid, req.token, req.file, body, resp)
    BY <1>8 DEF Handle
  <2>3. body \in VerifyBodies
    BY DEF SentVerifyBodies, VerifyBodies
  <2>4. CASE IsValid(req.sid, req.token, req.file)
    BY <1>2, <2>1, <2>2, <2>3, <2>4 DEF Next
  <2>5. CASE ~IsValid(req.sid, req.token, req.file)
    <3>1. PICK b \in {"good", "malformed"} :
            onVerifyIntegrity(req.sid, req.token, req.file, b, resp)
      BY <2>2, <2>5, InvalidVerification
    <3> QED BY <1>2, <2>1, <2>5, <3>1 DEF Next
  <2> QED BY <2>4, <2>5
<1>9. CASE req.type = "cancel-send"
  <2>1. req.sid \in Ids
    BY <1>4, <1>5, <1>9 DEF Asked
  <2>2. onCancelSend(req.sid, "good", resp)
    BY <1>9 DEF Handle
  <2> QED BY <1>2, <2>1, <2>2 DEF Next
<1> QED BY <1>6, <1>7, <1>8, <1>9 DEF Handle

LEMMA ReceiverStep == CarryInv /\ [TNext]_tvars => [Next]_vars
<1> SUFFICES ASSUME CarryInv, [TNext]_tvars PROVE [Next]_vars
  OBVIOUS
<1>1. TInv /\ SendTypeOK
  BY DEF CarryInv, TInv, Senders, TypeInv
<1>2. ASSUME NEW s \in Sender, Serve(s) PROVE Next
  <2>1. PICK req : req = Head(to_server[s])
    OBVIOUS
  <2>2. PICK resp \in Responses : Handle(s, req, resp)
    BY <1>2, <2>1 DEF Serve
  <2>3. req \in Request /\ req \in Items(to_server[s])
    BY <1>1, <1>2, <2>1, ItemsTail DEF Serve, SendTypeOK
  <2>4. Asked(s, req) /\ Carries(req)
    BY <1>1, <2>3 DEF CarryInv, Carrying, TInv, Link, Asks
  <2> QED BY <1>1, <2>2, <2>3, <2>4, HandleIsNext
<1>3. ASSUME NEW s \in Sender, ServerNoticesLoss(s) PROVE [Next]_vars
  <2>1. NotifySenderLost(s) \/ UNCHANGED vars
    BY <1>3 DEF ServerNoticesLoss
  <2> QED BY <2>1 DEF Next
<1>4. CASE User
  BY <1>4 DEF User, Next
<1>5. (\E s \in Sender : Side(s)) \/ UNCHANGED tvars => UNCHANGED vars
  BY DEF Side, tvars
<1> QED BY <1>2, <1>3, <1>4, <1>5 DEF TNext, ServerStep

\* The receiver within a transfer is a ReceiveController: it lets a sender send
\* any request, and the requests that reach handleRequest from real senders over
\* connections that break are among them.
THEOREM ReceiverInTransfer == TSpec => Spec
<1>1. TInit => Init
  BY DEF TInit
<1> QED BY <1>1, CarryInit, CarryNext, ReceiverStep, PTL DEF TSpec, Spec

\* So what a receiver promises whatever is sent to it, it keeps within transfers.
THEOREM PromiseInTransfer == TSpec => ImplementsPromise /\ DiskTouchedOnlyBySession
BY ReceiverInTransfer, Refinement, OthersUntouched
===============================================================================
