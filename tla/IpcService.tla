------------------------------ MODULE IpcService ------------------------------
(***************************************************************************)
(* The backend's two pipes to the Electron frontend                        *)
(* (src/src/ipc/ipc_service.cc), the event stream between the pipes and    *)
(* the rest of the backend (ipc_event_stream.cc), the loop that takes the  *)
(* user's operations from it (ipc_backend_service.cc), and the settings,   *)
(* which live in memory until the process ends (main.cc, config.cc).       *)
(*                                                                         *)
(* Three coroutines write to the output pipe: the greeting, the read loop  *)
(* when it has an error to tell, and the event loop.  Everything runs on   *)
(* one thread, so a coroutine that finds write_mutex_ taken does not wait  *)
(* for its turn: it stops the thread that would have to release it.        *)
(***************************************************************************)
EXTENDS Integers, SequencesExt

CONSTANTS
  MaxMessages,   \* bound on the messages the frontend writes
  MaxFeedbacks   \* bound on the feedbacks the backend posts

ASSUME BoundsOK == MaxMessages \in Nat /\ MaxFeedbacks \in Nat \ {0}

VARIABLES
  process,            \* "running", "stuck" in a lock(), "saving" once the
                      \* io_context has stopped, then "stopped", or "unsaved"
  input,              \* messages in the input pipe
  undrained,          \* messages main.js writes again on the next drain
  input_open,         \* the frontend holds its end of the input pipe
  output,             \* what was written to the output pipe
  output_open,        \* the frontend holds its end of the output pipe
  at,                 \* where each coroutine is suspended
  writing,            \* the message each coroutine is in send_message with
  write_mutex,        \* coroutine that holds write_mutex_
  running,            \* running_ of IpcService
  is_running,         \* is_running_ of IpcBackendService
  active_operations,
  confirm_receive,    \* confirm_receive_operation_ is set
  cancel_receive,     \* cancel_receive_operation_
  feedbacks,
  settings,           \* message that changed the settings last, 0 as loaded
  config_file,        \* the settings in config.toml, by the same number
  \* History, read by no guard of the code:
  sent,               \* messages the frontend has written, or is to write again
  arrived,            \* operations posted for the backend loop, in order
  dispatched,         \* operations it has dispatched, in order
  posted              \* feedbacks posted

pipes    == <<input, undrained, input_open, output, output_open>>
writers  == <<at, writing, write_mutex>>
queues   == <<active_operations, confirm_receive, cancel_receive, feedbacks>>
flags    == <<process, running, is_running>>
config   == <<settings, config_file>>
history  == <<sent, arrived, dispatched, posted>>
ivars    == <<pipes, writers, queues, flags, config, history>>

Coroutine == {"greeting", "reader", "events"}

\* What the frontend sends, by what handle_message makes of it: an operation
\* for the backend loop, an unknown name included, which the enum conversion
\* reads as SendFiles; "ModifySettings" with a known key and a value of its
\* type (any other is an "operation" without effect); "ExitApp"; the answer to
\* a receive request; a cancel; what is read and ignored, JSON without an
\* operation or an answer that does not parse; no JSON.
MessageType == {"operation", "ModifySettings", "ExitApp", "ConfirmReceive",
                "CancelReceive", "ignored", "no JSON"}

\* What the backend sends: the feedbacks, by their number, and two messages of
\* IpcService itself, "backend_started" and "error".
Feedback   == 1 .. MaxFeedbacks
Greeting   == 0
ErrorReply == -1
NoMessage  == -2

\* IpcBackendService::Start has posted the settings before the io_context runs.
IpcInit ==
  /\ process = "running"
  /\ input = <<>>
  /\ undrained = <<>>
  /\ input_open = TRUE
  /\ output = <<>>
  /\ output_open = TRUE
  /\ at = [greeting |-> "start", reader |-> "read", events |-> "wait"]
  /\ writing = [c \in Coroutine |-> NoMessage]
  /\ write_mutex = "none"
  /\ running = TRUE
  /\ is_running = TRUE
  /\ active_operations = <<>>
  /\ confirm_receive = FALSE
  /\ cancel_receive = FALSE
  /\ feedbacks = <<1>>
  /\ settings = 0
  /\ config_file = 0
  /\ sent = 0
  /\ arrived = <<>>
  /\ dispatched = <<>>
  /\ posted = 1

-----------------------------------------------------------------------------
\* send_message.

\* Mutant: there is no mutex.
SendMessage_Unlocked(c, m) ==
  /\ at' = [at EXCEPT ![c] = "length"]
  /\ writing' = [writing EXCEPT ![c] = m]
  /\ UNCHANGED <<write_mutex, process>>

\* The call, up to its first co_await.  std::mutex::lock blocks the thread.
SendMessage(c, m) ==
  IF write_mutex = "none"
  THEN /\ write_mutex' = c
       /\ at' = [at EXCEPT ![c] = "length"]
       /\ writing' = [writing EXCEPT ![c] = m]
       /\ UNCHANGED process
  ELSE /\ process' = "stuck"
       /\ UNCHANGED writers

\* Where a coroutine goes on after send_message, which does not tell whether
\* the message was sent.
After == [greeting |-> "done", reader |-> "read", events |-> "pause"]

\* The length has been written; the message follows.
WriteLength(c) ==
  /\ process = "running"
  /\ at[c] = "length"
  /\ output_open
  /\ output' = Append(output, [part |-> "length", of |-> writing[c]])
  /\ at' = [at EXCEPT ![c] = "body"]
  /\ UNCHANGED <<input, undrained, input_open, output_open, writing, write_mutex, queues,
                 flags, config, history>>

\* Mutant: every coroutine goes on like the event loop.
WriteBody_PausesAll(c) ==
  /\ process = "running"
  /\ at[c] = "body"
  /\ output_open
  /\ output' = Append(output, [part |-> "body", of |-> writing[c]])
  /\ at' = [at EXCEPT ![c] = "pause"]
  /\ writing' = [writing EXCEPT ![c] = NoMessage]
  /\ write_mutex' = "none"
  /\ UNCHANGED <<input, undrained, input_open, output_open, queues, flags, config, history>>

WriteBody(c) ==
  /\ process = "running"
  /\ at[c] = "body"
  /\ output_open
  /\ output' = Append(output, [part |-> "body", of |-> writing[c]])
  /\ at' = [at EXCEPT ![c] = After[c]]
  /\ writing' = [writing EXCEPT ![c] = NoMessage]
  /\ write_mutex' = "none"
  /\ UNCHANGED <<input, undrained, input_open, output_open, queues, flags, config, history>>

\* A write to a pipe that the frontend has closed throws, and the message is
\* dropped.
WriteFails(c) ==
  /\ process = "running"
  /\ at[c] \in {"length", "body"}
  /\ ~output_open
  /\ at' = [at EXCEPT ![c] = After[c]]
  /\ writing' = [writing EXCEPT ![c] = NoMessage]
  /\ write_mutex' = "none"
  /\ UNCHANGED <<pipes, queues, flags, config, history>>

-----------------------------------------------------------------------------
\* The coroutines of IpcService.

\* The first coroutine that start spawns.
Greet ==
  /\ process = "running"
  /\ at["greeting"] = "start"
  /\ SendMessage("greeting", Greeting)
  /\ UNCHANGED <<pipes, queues, running, is_running, config, history>>

\* Mutant: the cancel of a receiver is queued for the backend loop.
PostOperation_QueuesCancel(m) ==
  /\ active_operations' =
       IF m.type \in {"operation", "ModifySettings", "ExitApp", "CancelReceive"}
       THEN Append(active_operations, m) ELSE active_operations
  /\ arrived' = IF m.type \in {"operation", "ModifySettings", "ExitApp"}
                THEN Append(arrived, m) ELSE arrived
  /\ confirm_receive' = (confirm_receive \/ m.type = "ConfirmReceive")
  /\ UNCHANGED cancel_receive

\* IpcEventStream::PostOperation: the operations of a receiver have slots of
\* their own, which a later one overwrites.
PostOperation(m) ==
  LET queue == m.type \in {"operation", "ModifySettings", "ExitApp"}
  IN /\ active_operations' =
          IF queue THEN Append(active_operations, m) ELSE active_operations
     /\ arrived' = IF queue THEN Append(arrived, m) ELSE arrived
     /\ confirm_receive' = (confirm_receive \/ m.type = "ConfirmReceive")
     /\ cancel_receive' = (cancel_receive \/ m.type = "CancelReceive")

\* read_message_loop and handle_message, for one message.
ReadMessage ==
  /\ process = "running"
  /\ at["reader"] = "read"
  /\ input # <<>>
  /\ input' = Tail(input)
  /\ UNCHANGED <<undrained, input_open, output, output_open, feedbacks, running,
                 is_running, config, sent, dispatched, posted>>
  /\ IF Head(input).type = "no JSON"
     THEN /\ SendMessage("reader", ErrorReply)
          /\ UNCHANGED <<active_operations, confirm_receive, cancel_receive, arrived>>
     ELSE PostOperation(Head(input)) /\ UNCHANGED <<writers, process>>

\* Mutant: running_ stays set when the read loop ends.
ReadClosed_KeepsRunning ==
  /\ process = "running"
  /\ at["reader"] = "read"
  /\ input = <<>> /\ ~input_open
  /\ at' = [at EXCEPT !["reader"] = "done"]
  /\ UNCHANGED <<pipes, writing, write_mutex, queues, flags, config, history>>

\* The read fails because the frontend has closed the input pipe.
ReadClosed ==
  /\ process = "running"
  /\ at["reader"] = "read"
  /\ input = <<>> /\ ~input_open
  /\ running' = FALSE
  /\ at' = [at EXCEPT !["reader"] = "done"]
  /\ UNCHANGED <<pipes, writing, write_mutex, queues, process, is_running,
                 config, history>>

LoopOrLeave == IF running THEN "wait" ELSE "done"

\* Mutants: the newest feedback is polled; the loop ends when there is none.
EventsPoll_Newest ==
  /\ process = "running"
  /\ at["events"] = "wait"
  /\ UNCHANGED <<pipes, active_operations, confirm_receive, cancel_receive,
                 running, is_running, config, history>>
  /\ IF feedbacks = <<>>
     THEN /\ at' = [at EXCEPT !["events"] = LoopOrLeave]
          /\ UNCHANGED <<process, writing, write_mutex, feedbacks>>
     ELSE /\ feedbacks' = SubSeq(feedbacks, 1, Len(feedbacks) - 1)
          /\ SendMessage("events", feedbacks[Len(feedbacks)])

EventsPoll_LeavesWhenEmpty ==
  /\ process = "running"
  /\ at["events"] = "wait"
  /\ UNCHANGED <<pipes, active_operations, confirm_receive, cancel_receive,
                 running, is_running, config, history>>
  /\ IF feedbacks = <<>>
     THEN /\ at' = [at EXCEPT !["events"] = "done"]
          /\ UNCHANGED <<process, writing, write_mutex, feedbacks>>
     ELSE /\ feedbacks' = Tail(feedbacks)
          /\ SendMessage("events", Head(feedbacks))

\* read_event_stream_loop: 10 ms have passed and a feedback is polled for.
EventsPoll ==
  /\ process = "running"
  /\ at["events"] = "wait"
  /\ UNCHANGED <<pipes, active_operations, confirm_receive, cancel_receive,
                 running, is_running, config, history>>
  /\ IF feedbacks = <<>>
     THEN /\ at' = [at EXCEPT !["events"] = LoopOrLeave]
          /\ UNCHANGED <<process, writing, write_mutex, feedbacks>>
     ELSE /\ feedbacks' = Tail(feedbacks)
          /\ SendMessage("events", Head(feedbacks))

\* The 100 ms after a feedback have passed.
EventsPause ==
  /\ process = "running"
  /\ at["events"] = "pause"
  /\ at' = [at EXCEPT !["events"] = LoopOrLeave]
  /\ UNCHANGED <<pipes, writing, write_mutex, queues, flags, config, history>>

-----------------------------------------------------------------------------
\* The rest of the backend.

\* The settings after an operation.
modifySettings(op) == IF op.type = "ModifySettings" THEN op.n ELSE settings

\* The loop and the io_context are stopped.
exitApp == is_running' = FALSE /\ process' = "saving"

\* Mutant: the loop ends and the io_context goes on.
Dispatch_ExitKeepsContext ==
  /\ process = "running"
  /\ is_running
  /\ active_operations # <<>>
  /\ active_operations' = Tail(active_operations)
  /\ dispatched' = Append(dispatched, Head(active_operations))
  /\ settings' = modifySettings(Head(active_operations))
  /\ is_running' = (Head(active_operations).type # "ExitApp")
  /\ UNCHANGED <<pipes, writers, confirm_receive, cancel_receive, feedbacks,
                 process, running, config_file, sent, arrived, posted>>

\* IpcBackendService::start and dispatchOperation.  ExitApp stops the loop and
\* the io_context, with whatever the coroutines have not done yet.
Dispatch ==
  /\ process = "running"
  /\ is_running
  /\ active_operations # <<>>
  /\ active_operations' = Tail(active_operations)
  /\ dispatched' = Append(dispatched, Head(active_operations))
  /\ IF Head(active_operations).type = "ExitApp"
     THEN exitApp
     ELSE UNCHANGED <<is_running, process>>
  /\ settings' = modifySettings(Head(active_operations))
  /\ UNCHANGED <<pipes, writers, confirm_receive, cancel_receive, feedbacks,
                 running, config_file, sent, arrived, posted>>

\* The loop finds nothing to do and posts itself again.
BackendIdles ==
  /\ process = "running"
  /\ is_running
  /\ active_operations = <<>>
  /\ UNCHANGED ivars

\* Mutant: the configuration is saved as it was loaded.
SaveConfig_AsLoaded ==
  /\ process = "saving"
  /\ process' = "stopped"
  /\ UNCHANGED <<pipes, writers, queues, running, is_running, config, history>>

\* main, when the stopped io_context has returned from run: the file is
\* written over, unless it cannot be opened.
SaveConfig ==
  /\ process = "saving"
  /\ \/ process' = "stopped" /\ config_file' = settings
     \/ process' = "unsaved" /\ UNCHANGED config_file
  /\ UNCHANGED <<pipes, writers, queues, running, is_running, settings, history>>

\* A component posts a feedback.
PostFeedback ==
  /\ process = "running"
  /\ posted < MaxFeedbacks
  /\ posted' = posted + 1
  /\ feedbacks' = Append(feedbacks, posted')
  /\ UNCHANGED <<pipes, writers, active_operations, confirm_receive,
                 cancel_receive, flags, config, sent, arrived, dispatched>>

\* ReceiveController polls the slots.
PollSlots ==
  /\ process = "running"
  /\ \/ confirm_receive /\ confirm_receive' = FALSE /\ UNCHANGED cancel_receive
     \/ cancel_receive /\ cancel_receive' = FALSE /\ UNCHANGED confirm_receive
  /\ UNCHANGED <<pipes, writers, active_operations, feedbacks, flags, config,
                 history>>

-----------------------------------------------------------------------------
\* The frontend.

\* sendToBackend of main.js.  A write that reports a full buffer has taken the
\* message all the same.
sendToBackend ==
  /\ input_open
  /\ \E t \in MessageType, full \in BOOLEAN :
       LET m == [type |-> t, n |-> sent + 1]
       IN /\ input' = Append(input, m)
          /\ undrained' = IF full THEN Append(undrained, m) ELSE undrained
          /\ sent' = sent + (IF full THEN 2 ELSE 1)
  /\ sent' <= MaxMessages
  /\ UNCHANGED <<input_open, output, output_open, writers, queues, flags, config,
                 arrived, dispatched, posted>>

\* The drain event: every listener writes its message once more.
Drain ==
  /\ input_open
  /\ undrained # <<>>
  /\ input' = input \o undrained
  /\ undrained' = <<>>
  /\ UNCHANGED <<input_open, output, output_open, writers, queues, flags, config,
                 history>>

FrontendCloses ==
  /\ input_open \/ output_open
  /\ input_open' \in {input_open, FALSE}
  /\ output_open' \in {output_open, FALSE}
  /\ undrained' = IF input_open' THEN undrained ELSE <<>>
  /\ UNCHANGED <<input, output, writers, queues, flags, config, history>>

\* A process that is stuck or stopped stays so.
Ended == process \in {"stuck", "stopped", "unsaved"} /\ UNCHANGED ivars

Events == EventsPoll \/ EventsPause
Reads  == ReadMessage \/ ReadClosed
Write(c) == WriteLength(c) \/ WriteBody(c) \/ WriteFails(c)

IpcNext ==
  \/ Greet
  \/ Reads
  \/ Events
  \/ \E c \in Coroutine : Write(c)
  \/ Dispatch
  \/ SaveConfig
  \/ BackendIdles
  \/ PostFeedback
  \/ PollSlots
  \/ sendToBackend
  \/ Drain
  \/ FrontendCloses
  \/ Ended

IpcSpec == IpcInit /\ [][IpcNext]_ivars

\* The executor resumes every coroutine that is ready, timers expire, and the
\* frontend reads the pipe as long as it holds it.
IpcFairSpec ==
  /\ IpcSpec
  /\ WF_ivars(Greet)
  /\ WF_ivars(Reads)
  /\ WF_ivars(Events)
  /\ WF_ivars(Dispatch)
  /\ WF_ivars(SaveConfig)
  /\ \A c \in Coroutine : WF_ivars(Write(c))

-----------------------------------------------------------------------------
\* Properties.

Message   == {Greeting, ErrorReply} \cup Feedback
Operation == [type : MessageType, n : 1 .. MaxMessages]

\* The type invariant.
IpcTypeOK ==
  /\ process \in {"running", "stuck", "saving", "stopped", "unsaved"}
  /\ input \in Seq(Operation)
  /\ undrained \in Seq(Operation)
  /\ output \in Seq([part : {"length", "body"}, of : Message])
  /\ at["greeting"] \in {"start", "length", "body", "done"}
  /\ at["reader"] \in {"read", "length", "body", "done"}
  /\ at["events"] \in {"wait", "length", "body", "pause", "done"}
  /\ writing \in [Coroutine -> Message \cup {NoMessage}]
  /\ write_mutex \in Coroutine \cup {"none"}
  /\ active_operations \in Seq(Operation)
  /\ feedbacks \in Seq(1 .. posted)
  /\ settings \in 0 .. MaxMessages
  /\ config_file \in 0 .. MaxMessages

\* Whoever writes and whatever fails, what reaches the frontend is framed: each
\* length is followed by the message it belongs to, so the frontend never
\* reads one message's bytes as the length of another (send_message).
MessagesAreFramed ==
  \A i \in DOMAIN output :
    IF i % 2 = 1 THEN output[i].part = "length"
    ELSE output[i].part = "body" /\ output[i].of = output[i - 1].of

\* Where the frontend finds feedbacks in what it reads, and which.
Bodies    == {i \in DOMAIN output : output[i].part = "body" /\ output[i].of \in Feedback}
Delivered == {output[i].of : i \in Bodies}

\* Feedbacks that are queued, and the one in send_message.
Waiting == Len(feedbacks) + (IF writing["events"] = NoMessage THEN 0 ELSE 1)

\* Feedbacks reach the frontend once each and in the order they were posted, the
\* settings first, and none is passed over while the pipe and the thread are
\* alive.
FeedbacksInOrder ==
  /\ \A i, j \in Bodies : i < j => output[i].of < output[j].of
  /\ \A n \in Delivered : 1 .. n \subseteq Delivered
  /\ output_open /\ process = "running" => Delivered = 1 .. posted - Waiting

\* The settings that a sequence of operations leaves behind.
SettingsAfter(ops) ==
  LET changes == {i \in DOMAIN ops : ops[i].type = "ModifySettings"}
  IN IF changes = {} THEN 0 ELSE ops[Max(changes)].n

\* The backend loop dispatches the operations posted for it, once each and in
\* order, and never one that belongs to a slot of the receiver ("should not be
\* polled here", ipc_backend_service.cc:136, 141); and the file that a process
\* leaves when the user has ended it holds the last change of the settings
\* that had arrived before that end, however many operations were queued
\* between the change and ExitApp.
OperationsTakeEffect ==
  /\ dispatched \o active_operations = arrived
  /\ process = "stopped" => config_file = SettingsAfter(dispatched)

\* A frontend that is gone ends both loops, or the thread was stuck before.
LoopsEndWithPipe ==
  ~input_open ~> (at["reader"] = "done" /\ at["events"] = "done")
                 \/ process # "running"

\* A posted feedback is delivered, unless the pipe was closed, the process
\* stopped or its thread got stuck.
FeedbackIsDelivered ==
  \A n \in Feedback :
    posted >= n ~> n \in Delivered \/ process # "running" \/ ~output_open \/ ~input_open

\* The user's ExitApp ends the process, unless its thread is stuck.
ExitEnds ==
  (\E i \in DOMAIN arrived : arrived[i].type = "ExitApp") ~>
    process \in {"stopped", "unsaved", "stuck"}

\* ipc_service.cc:170: the mutex makes the writes to the pipe happen one after
\* the other.  A coroutine that finds another one writing gets its turn later
\* and does not stop the thread for good.
WritersTakeTurns == process # "stuck"
===============================================================================
