-------------------------- MODULE ReceiveController --------------------------
(***************************************************************************)
(* The receiving side of LanSend (src/src/core/network/server/controller/  *)
(* receive_controller.cc): one receive session at a time, fed by the HTTP  *)
(* handlers request-send, send-chunk, verify-integrity and cancel-send,    *)
(* by the loss of the sender's connection and by what the user interface   *)
(* posts to the event stream (src/src/ipc/ipc_event_stream.cc).            *)
(*                                                                         *)
(* The backend runs its io_context on a single thread, so a handler is     *)
(* atomic between two co_awaits.  Only onRequestSend suspends: it polls    *)
(* for the user's answer, and other handlers run between two polls.        *)
(*                                                                         *)
(* Here the senders are unconstrained: any sender may send any well formed *)
(* or malformed request, for a current, an old or the empty session id,    *)
(* with any list of files and any chunk index, in any order.  What is      *)
(* taken from a request as it stands: the ids of the files it offers are   *)
(* fresh, and TotalChunks is the number of chunks it declares for a file.  *)
(* Every handler takes the response it returns as its last parameter;      *)
(* modules that compose the controller with real senders put it on a       *)
(* connection.                                                             *)
(***************************************************************************)
EXTENDS LanSend, FiniteSets

CONSTANTS
  Index,       \* chunk indexes that requests carry, in range or not
  OffsetWrap   \* chunks until the 64 bits of a file offset wrap

Chunks(f) == 0 .. TotalChunks[f] - 1

ASSUME ConstantsOK ==
  /\ IsFiniteSet(File)
  /\ Index \subseteq Nat
  /\ \A f \in File : Chunks(f) \subseteq Index
  /\ OffsetWrap \in Nat \ {0}

VARIABLES
  session_status,       \* kIdle or kWorking
  session_id,           \* the request the session was opened for, 0 if empty
  received_files,       \* domain of the map of file contexts
  received_chunks,      \* chunks recorded in each file context
  completed_file_count,
  sender,               \* sender_ip_ and sender_port_
  wait_condition,       \* wait_condition_ is set, as the backend does at its start
  waiting,              \* request each suspended onRequestSend is for, or 0
  confirm_receive,      \* slot of the event stream for the user's answer
  cancel_receive,       \* flag of the event stream for the user's cancel
  parts,                \* files that have a temporary .part file on disk
  contents,             \* chunks in place in a file's latest .part file
  saved,                \* files renamed to their final path
  \* History, read by no guard of the code:
  requests,             \* RequestReceiveFiles feedbacks posted so far
  answered,             \* latest request the user has answered
  accepted,             \* files of each session ever opened
  outcome               \* how each session ended

session == <<session_status, session_id, received_files, received_chunks,
             completed_file_count, sender>>
stream  == <<wait_condition, confirm_receive, cancel_receive, answered>>
disk    == <<parts, contents, saved>>
vars    == <<session, waiting, stream, disk, requests, accepted, outcome>>

NoSender  == "none"
Answers   == {"accepted", "declined", "declined_no_list"}
Outcomes  == {"none", "open", "completed", "failed", "cancelled_by_sender",
              "cancelled_by_receiver", "sender_lost"}
Responses == {"pending", "200", "400", "500", "403 receiver busy",
              "403 declined", "403 sender cancelled",
              "403 receiver cancelled"}
RequestBodies == {"good", "malformed", "throws"}
ChunkBodies   == {"good", "other", "malformed", "corrupt", "open_fails",
                  "write_fails"}
VerifyBodies  == {"good", "malformed", "differs", "rename_fails"}

Init ==
  /\ session_status = "kIdle"
  /\ session_id = 0
  /\ received_files = {}
  /\ received_chunks = [f \in File |-> {}]
  /\ completed_file_count = 0
  /\ sender = NoSender
  /\ wait_condition \in BOOLEAN
  /\ waiting = [s \in Sender |-> 0]
  /\ confirm_receive = "empty"
  /\ cancel_receive = FALSE
  /\ parts = {}
  /\ contents = [f \in File |-> {}]
  /\ saved = {}
  /\ requests = 0
  /\ answered = 0
  /\ accepted = [n \in 1 .. MaxRequests |-> {}]
  /\ outcome = [n \in 1 .. MaxRequests |-> "none"]

-----------------------------------------------------------------------------
\* Shared helpers of the handlers.

\* Mutant: the map is cleared before it is looked through.
doCleanup_AfterClear(present) == parts' = present

\* Removes the first .part file of the session that exists, and only that one:
\* the map is unordered, so the first is any of them.  present is the set of
\* .part files on disk when the cleanup runs.
doCleanup(present) ==
  IF session_id = 0 \/ received_files \cap present = {}
  THEN parts' = present
  ELSE \E f \in received_files \cap present : parts' = present \ {f}

\* Mutants: one field is forgotten.
resetToIdle_KeepsCount(present) ==
  /\ doCleanup(present)
  /\ session_id' = 0
  /\ session_status' = "kIdle"
  /\ received_files' = {}
  /\ received_chunks' = [f \in File |-> {}]
  /\ UNCHANGED completed_file_count
  /\ sender' = NoSender

resetToIdle_KeepsFiles(present) ==
  /\ doCleanup(present)
  /\ session_id' = 0
  /\ session_status' = "kIdle"
  /\ UNCHANGED <<received_files, received_chunks>>
  /\ completed_file_count' = 0
  /\ sender' = NoSender

resetToIdle_LeavesWorking(present) ==
  /\ doCleanup(present)
  /\ session_id' = 0
  /\ UNCHANGED session_status
  /\ received_files' = {}
  /\ received_chunks' = [f \in File |-> {}]
  /\ completed_file_count' = 0
  /\ sender' = NoSender

resetToIdle(present) ==
  /\ doCleanup(present)
  /\ session_id' = 0
  /\ session_status' = "kIdle"
  /\ received_files' = {}
  /\ received_chunks' = [f \in File |-> {}]
  /\ completed_file_count' = 0
  /\ sender' = NoSender

\* Mutant: the status is recorded instead of the reason.
EndSession_RecordsStatus(how) ==
  outcome' = IF session_id = 0 THEN outcome
             ELSE [outcome EXCEPT ![session_id] = session_status']

\* The history of a session that ends here; while the user is still being
\* asked there is no session yet.
EndSession(how) ==
  outcome' = IF session_id = 0 THEN outcome
             ELSE [outcome EXCEPT ![session_id] = how]

\* The catch blocks of onSendChunk and onVerifyIntegrity: any throw, a request
\* of another session included, ends the session in progress.
FailSession(present, resp) ==
  /\ resp = "500"
  /\ resetToIdle(present)
  /\ EndSession("failed")
  /\ UNCHANGED <<contents, saved>>

\* The two checks that open onSendChunk and onVerifyIntegrity.  The second
\* consumes the cancel flag of the event stream.
RefuseIdle(resp) ==
  /\ session_status # "kWorking"
  /\ resp = "403 sender cancelled"
  /\ UNCHANGED vars

ReceiverCancels(resp) ==
  /\ session_status = "kWorking"
  /\ cancel_receive
  /\ resp = "403 receiver cancelled"
  /\ cancel_receive' = FALSE
  /\ resetToIdle(parts)
  /\ EndSession("cancelled_by_receiver")
  /\ UNCHANGED <<waiting, wait_condition, confirm_receive, answered, contents,
                 saved, requests, accepted>>

Proceeds == session_status = "kWorking" /\ ~cancel_receive

\* The token of a file context is drawn when its session opens, so a request
\* carries the right one when it got it in the answer to that request-send.
IsValid(sid, token, f) ==
  sid = session_id /\ f \in received_files /\ token = session_id

\* Where chunk i is written: index * chunk_size is computed in 64 bits.
Place(i) == i % OffsetWrap

\* The body of onSendChunk once every check has passed: an existing .part file
\* is opened in place, a missing one is created, that of a file which has been
\* renamed already included.  The index is not compared with the number of
\* chunks, and nothing ties the data to the place it is written to: "other"
\* data leaves a place of the file wrong, and past its end any data does.
StoreChunk(f, i, body) ==
  /\ parts' = parts \cup {f}
  /\ LET before == IF f \in parts THEN contents[f] ELSE {}
     IN contents' = [contents EXCEPT ![f] =
                       IF body = "other" /\ Place(i) \in Chunks(f)
                       THEN before \ {Place(i)} ELSE before \cup {Place(i)}]
  /\ received_chunks' = [received_chunks EXCEPT ![f] = @ \cup {i}]
  /\ UNCHANGED <<session_id, session_status, received_files,
                 completed_file_count, sender, saved, outcome>>

\* Mutant: more chunks than declared are enough.
IsComplete_AtLeast(f) == Cardinality(received_chunks[f]) >= TotalChunks[f]

IsComplete(f) == Cardinality(received_chunks[f]) = TotalChunks[f]

\* Reading a missing .part file throws, which refuses the file as well.
ChecksumMatches(f) == f \in parts /\ contents[f] = Chunks(f)

Verifies(sid, token, f) ==
  IsValid(sid, token, f) /\ IsComplete(f) /\ ChecksumMatches(f)

\* Mutants: the end is seen a file too early, or never.
AllFilesCompleted_OffByOne(count) ==
  received_files # {} /\ count >= Cardinality(received_files) - 1

AllFilesCompleted_Strict(count) ==
  received_files # {} /\ count > Cardinality(received_files)

\* checkSessionCompletion, for a count that has just been incremented.
AllFilesCompleted(count) ==
  received_files # {} /\ count = Cardinality(received_files)

\* The body of onVerifyIntegrity once every check has passed.
SaveFile(f) ==
  /\ saved' = saved \cup {f}
  /\ UNCHANGED contents
  /\ IF AllFilesCompleted(completed_file_count + 1)
     THEN /\ resetToIdle(parts \ {f})
          /\ EndSession("completed")
     ELSE /\ parts' = parts \ {f}
          /\ completed_file_count' = completed_file_count + 1
          /\ UNCHANGED <<session_id, session_status, received_files,
                         received_chunks, sender, outcome>>

-----------------------------------------------------------------------------
\* The handlers.

\* request-send of sender s for files with fresh ids.  The body is parsed before
\* the status is looked at.  It "throws" when an id or a token cannot be drawn
\* (random_generator), which only a request that is accepted at once comes to:
\* the catch block.  A session may be opened for no files at all.
onRequestSend(s, files, body, resp) ==
  /\ waiting[s] = 0
  /\ UNCHANGED <<stream, disk>>
  /\ \/ /\ body = "malformed"
        /\ resp = "400"
        /\ UNCHANGED <<session, waiting, requests, accepted, outcome>>
     \/ /\ body # "malformed"
        /\ session_status # "kIdle"
        /\ resp = "403 receiver busy"
        /\ UNCHANGED <<session, waiting, requests, accepted, outcome>>
     \/ /\ body = "throws"
        /\ session_status = "kIdle"
        /\ ~wait_condition
        /\ requests < MaxRequests
        /\ resp = "500"
        /\ requests' = requests + 1
        /\ resetToIdle(parts)
        /\ EndSession("failed")
        /\ UNCHANGED <<waiting, accepted>>
     \/ /\ body = "good"
        /\ session_status = "kIdle"
        /\ requests < MaxRequests
        /\ \A n \in 1 .. MaxRequests : files \cap accepted[n] = {}
        /\ requests' = requests + 1
        /\ session_status' = "kWorking"
        /\ sender' = s
        /\ IF wait_condition
           THEN /\ waiting' = [waiting EXCEPT ![s] = requests']
                /\ resp = "pending"
                /\ UNCHANGED <<session_id, received_files, received_chunks,
                               completed_file_count, accepted, outcome>>
           ELSE /\ session_id' = requests'
                /\ received_files' = received_files \cup files
                /\ received_chunks' = [f \in File |->
                     IF f \in files THEN {} ELSE received_chunks[f]]
                /\ accepted' = [accepted EXCEPT ![requests'] = files]
                /\ outcome' = [outcome EXCEPT ![requests'] = "open"]
                /\ resp = "200"
                /\ UNCHANGED <<completed_file_count, waiting>>

\* Mutant: there is no timeout.
WaitPoll_NoTimeout(s, resp) ==
  /\ waiting[s] # 0
  /\ confirm_receive \in {"accepted", "declined"}
  /\ waiting' = [waiting EXCEPT ![s] = 0]
  /\ confirm_receive' = "empty"
  /\ resetToIdle(parts)
  /\ EndSession("failed")
  /\ resp = "403 declined"
  /\ UNCHANGED <<wait_condition, cancel_receive, answered,
                 contents, saved, requests, accepted>>

\* One poll of waitForUserConfirmation that ends the wait, and the rest of
\* onRequestSend.  The names the user accepted are computed and dropped: the
\* result stays nullopt, so every answer and the timeout decline.  The status
\* is the only thing the coroutine looks at to know whether its request is
\* still the one in progress.
WaitPoll(s, resp) ==
  /\ waiting[s] # 0
  /\ waiting' = [waiting EXCEPT ![s] = 0]
  /\ UNCHANGED <<wait_condition, cancel_receive, answered,
                 contents, saved, requests, accepted>>
  /\ \/ /\ session_status # "kWorking"
        /\ resp = "403 sender cancelled"
        /\ UNCHANGED <<session, confirm_receive, parts, outcome>>
     \/ /\ session_status = "kWorking"
        /\ confirm_receive' = "empty"  \* an answer that lists files, or 30 s
        /\ resetToIdle(parts)
        /\ EndSession("failed")
        /\ resp = "403 declined"

\* A poll that finds an answer without a file list consumes it and goes on.
WaitPollNoList(s) ==
  /\ waiting[s] # 0
  /\ session_status = "kWorking"
  /\ confirm_receive = "declined_no_list"
  /\ confirm_receive' = "empty"
  /\ UNCHANGED <<session, waiting, wait_condition, cancel_receive, answered,
                 disk, requests, accepted, outcome>>

\* send-chunk with index i for file f.  body is "malformed" when it does not
\* parse and "corrupt" when its checksum does not match; "open_fails" and
\* "write_fails" are good bodies the file system does not take.
onSendChunk(sid, token, f, i, body, resp) ==
  \/ RefuseIdle(resp)
  \/ ReceiverCancels(resp)
  \/ /\ Proceeds
     /\ UNCHANGED <<waiting, stream, requests, accepted>>
     /\ \/ /\ body = "malformed"
           /\ resp = "400"
           /\ UNCHANGED <<session, disk, outcome>>
        \/ /\ body # "malformed"
           /\ ~IsValid(sid, token, f)
           /\ FailSession(parts, resp)
        \/ /\ body # "malformed"
           /\ IsValid(sid, token, f)
           /\ \/ /\ i \in received_chunks[f]
                 /\ resp = "200"
                 /\ UNCHANGED <<session, disk, outcome>>
              \/ /\ i \notin received_chunks[f]
                 /\ \/ /\ body \in {"corrupt", "open_fails"}
                       /\ FailSession(parts, resp)
                    \/ /\ body = "write_fails"
                       /\ FailSession(parts \cup {f}, resp)
                    \/ /\ body \in {"good", "other"}
                       /\ resp = "200"
                       /\ StoreChunk(f, i, body)

\* verify-integrity for file f.  The checksum of the temporary file matches
\* only if every chunk is in it, and not even then when the sender's file has
\* changed since its checksum was taken (body is "differs").  body is
\* "rename_fails" when the file system refuses the final path.
onVerifyIntegrity(sid, token, f, body, resp) ==
  \/ RefuseIdle(resp)
  \/ ReceiverCancels(resp)
  \/ /\ Proceeds
     /\ UNCHANGED <<waiting, stream, requests, accepted>>
     /\ \/ /\ body = "malformed"
           /\ resp = "400"
           /\ UNCHANGED <<session, disk, outcome>>
        \/ /\ body \in {"differs", "rename_fails"} \/ ~Verifies(sid, token, f)
           /\ body # "malformed"
           /\ FailSession(parts, resp)
        \/ /\ body = "good"
           /\ Verifies(sid, token, f)
           /\ resp = "200"
           /\ SaveFile(f)

\* Mutant: the session id is not looked at.
onCancelSend_AnySession(sid, body, resp) ==
  /\ UNCHANGED <<waiting, stream, contents, saved, requests, accepted>>
  /\ \/ /\ session_status # "kWorking"
        /\ resp = "200"
        /\ UNCHANGED <<session, parts, outcome>>
     \/ /\ session_status = "kWorking"
        /\ body = "malformed"
        /\ resp = "400"
        /\ UNCHANGED <<session, parts, outcome>>
     \/ /\ session_status = "kWorking"
        /\ body # "malformed"
        /\ resp = "200"
        /\ resetToIdle(parts)
        /\ EndSession("cancelled_by_sender")

\* cancel-send.  While the user is being asked session_id is empty, and so is
\* the session id of any sender that has no session yet.
onCancelSend(sid, body, resp) ==
  /\ UNCHANGED <<waiting, stream, contents, saved, requests, accepted>>
  /\ \/ /\ session_status # "kWorking"
        /\ resp = "200"
        /\ UNCHANGED <<session, parts, outcome>>
     \/ /\ session_status = "kWorking"
        /\ body = "malformed" \/ sid # session_id
        /\ resp = IF body = "malformed" THEN "400" ELSE "500"
        /\ UNCHANGED <<session, parts, outcome>>
     \/ /\ session_status = "kWorking"
        /\ body # "malformed"
        /\ sid = session_id
        /\ resp = "200"
        /\ resetToIdle(parts)
        /\ EndSession("cancelled_by_sender")

\* handleConnection of HttpServer: a read or write on the connection of s
\* fails.  It is not noticed while the handler of s is suspended.
NotifySenderLost(s) ==
  /\ waiting[s] = 0
  /\ session_status = "kWorking"
  /\ sender = s
  /\ resetToIdle(parts)
  /\ EndSession("sender_lost")
  /\ UNCHANGED <<waiting, stream, contents, saved, requests, accepted>>

-----------------------------------------------------------------------------
\* Operations of the user, posted to the event stream by PostOperation.

\* The user answers the latest request, once; the answer may come late.  The
\* slot is only modelled when it is polled.
ConfirmReceive(answer) ==
  /\ wait_condition
  /\ answered < requests
  /\ answered' = requests
  /\ confirm_receive' = answer
  /\ UNCHANGED <<session, waiting, wait_condition, cancel_receive, disk,
                 requests, accepted, outcome>>

\* The user cancels while a session is receiving.
CancelReceive ==
  /\ session_id # 0
  /\ cancel_receive' = TRUE
  /\ UNCHANGED <<session, waiting, wait_condition, confirm_receive, answered,
                 disk, requests, accepted, outcome>>

-----------------------------------------------------------------------------
\* A session is numbered like the request that opened it; 0 stands for the
\* empty string, which is also the token of a file the receiver did not accept.
Ids == 0 .. requests

\* A connection carries one request at a time, so a request arrives on one
\* whose handler is not suspended.
SomeConnectionIsFree == \E s \in Sender : waiting[s] = 0

Next ==
  \/ \E s \in Sender :
       \/ \E files \in SUBSET File, body \in RequestBodies, resp \in Responses :
            onRequestSend(s, files, body, resp)
       \/ \E resp \in Responses : WaitPoll(s, resp)
       \/ WaitPollNoList(s)
       \/ NotifySenderLost(s)
  \/ /\ SomeConnectionIsFree
     /\ \E sid \in Ids, resp \in Responses :
          \/ \E token \in {0, sid}, f \in File :
               \/ /\ IsValid(sid, token, f)
                  /\ \/ \E i \in Index, body \in ChunkBodies :
                          onSendChunk(sid, token, f, i, body, resp)
                     \/ \E body \in VerifyBodies :
                          onVerifyIntegrity(sid, token, f, body, resp)
               \/ /\ ~IsValid(sid, token, f)  \* the rest is not looked at
                  /\ \E body \in {"good", "malformed"} :
                       \/ onSendChunk(sid, token, f, 0, body, resp)
                       \/ onVerifyIntegrity(sid, token, f, body, resp)
          \/ \E body \in {"good", "malformed"} : onCancelSend(sid, body, resp)
  \/ \E answer \in Answers : ConfirmReceive(answer)
  \/ CancelReceive

Spec == Init /\ [][Next]_vars

\* The executor runs every posted coroutine and the timeout of 30 s passes, so
\* a wait ends unless the answer keeps it going.
FairSpec ==
  Spec /\ \A s \in Sender : WF_vars(\E resp \in Responses : WaitPoll(s, resp))

-----------------------------------------------------------------------------
\* Properties.

\* The type invariant.
TypeOK ==
  /\ session_status \in {"kIdle", "kWorking"}
  /\ session_id \in 0 .. MaxRequests
  /\ received_files \subseteq File
  /\ received_chunks \in [File -> SUBSET Nat]
  /\ completed_file_count \in Nat
  /\ sender \in Sender \cup {NoSender}
  /\ wait_condition \in BOOLEAN
  /\ waiting \in [Sender -> 0 .. MaxRequests]
  /\ confirm_receive \in Answers \cup {"empty"}
  /\ cancel_receive \in BOOLEAN
  /\ parts \subseteq File
  /\ contents \in [File -> SUBSET Nat]
  /\ saved \subseteq File
  /\ requests \in 0 .. MaxRequests
  /\ answered \in 0 .. MaxRequests
  /\ accepted \in [1 .. MaxRequests -> SUBSET File]
  /\ outcome \in [1 .. MaxRequests -> Outcomes]

\* A file of the session that has been saved is never verified again, whatever
\* chunks come after it.  onSendChunk creates its .part file anew for an index
\* it has not recorded, one out of range included, and onVerifyIntegrity would
\* rename and count the file a second time; it compares the number of recorded
\* chunks for equality, and that number is past the declared one by then.
SavedOnce ==
  \A f \in received_files \cap saved : f \in parts => ~IsComplete(f)

\* The counter that decides the end of the session counts each saved file of
\* the session once: a file verified twice is not counted twice.
CountMatchesSaved ==
  completed_file_count = Cardinality(received_files \cap saved)

\* A session reported to the user as successful has saved all its files.
SuccessMeansSaved ==
  \A n \in DOMAIN outcome : outcome[n] = "completed" => accepted[n] \subseteq saved

\* A session opened for some files has one left to save as long as it is open:
\* it never stays open, and the receiver busy, after its last file.  (A session
\* opened for no files has none from the start: only a cancel, the loss of its
\* sender or a request that fails ends it.)
OpenSessionHasWork ==
  session_id # 0 /\ accepted[session_id] # {} => received_files \ saved # {}

\* The receiver is busy only on behalf of an open session or of a request whose
\* coroutine is still polling for the user's answer: no path of onRequestSend
\* leaves it refusing every sender with nobody to reset it.
BusyHasCause ==
  session_status = "kWorking" =>
    session_id # 0 \/ \E s \in Sender : waiting[s] # 0

\* The history and the controller agree on which session is open.
OneOpenSession ==
  \A n \in DOMAIN outcome : outcome[n] = "open" <=> session_id = n

\* What the properties above rest on: the fields of an idle controller and of
\* an open session, the freshness of file ids, and that a saved file has as many
\* chunks recorded as were declared, and more once it has a .part file again.
SessionShape ==
  /\ session_status = "kIdle" => session_id = 0
  /\ session_id = 0 => received_files = {} /\ completed_file_count = 0
  /\ session_id # 0 => /\ session_id <= requests
                       /\ accepted[session_id] = received_files

FreshFiles ==
  /\ \A n \in DOMAIN accepted :
       n > requests => accepted[n] = {} /\ outcome[n] = "none"
  /\ \A f \in parts \cup saved : \E n \in DOMAIN accepted : f \in accepted[n]

SavedIsCounted ==
  /\ \A f \in File : IsFiniteSet(received_chunks[f])
  /\ \A f \in received_files \cap saved :
       /\ Cardinality(received_chunks[f]) >= TotalChunks[f]
       /\ f \in parts => Cardinality(received_chunks[f]) > TotalChunks[f]

\* The inductive invariant.
IInv ==
  /\ TypeOK
  /\ SessionShape
  /\ FreshFiles
  /\ SavedIsCounted
  /\ SavedOnce
  /\ CountMatchesSaved
  /\ SuccessMeansSaved
  /\ OpenSessionHasWork
  /\ BusyHasCause
  /\ OneOpenSession

\* A step creates, extends, removes or renames files of the session that is
\* open when it starts and no others: a late chunk or a cleanup never touches
\* the files of another session.
DiskTouchedOnlyBySession ==
  [][\A f \in File :
       (f \in parts) # (f \in parts') \/ contents[f] # contents'[f]
         \/ (f \in saved) # (f \in saved')
       => session_id # 0 /\ f \in accepted[session_id]]_vars

\* The controller implements what a receiver promises: see ReceiveSession.
Promise == INSTANCE ReceiveSession WITH open <- session_id

ImplementsPromise == Promise!Spec

\* With a wait condition set, whoever makes the receiver busy is answered or
\* dropped and the receiver becomes free again.
BusyEnds ==
  wait_condition /\ session_status = "kWorking" ~> session_status = "kIdle"

\* operation_type.h:11: the receiver decides on the current request.  A wait that
\* ends while the receiver is busy opens a session if and only if the user has
\* agreed to the request it is for.
UserDecides ==
  [][\A s \in Sender :
       waiting[s] # 0 /\ waiting'[s] = 0 /\ session_status = "kWorking" =>
         (session_id' = waiting[s] <=>
            answered = waiting[s] /\ confirm_receive = "accepted")]_vars
=============================================================================
