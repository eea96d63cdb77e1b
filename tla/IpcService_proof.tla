--------------------------- MODULE IpcService_proof ---------------------------
(***************************************************************************)
(* Machine-checked proofs about IpcService, for any number of messages and *)
(* feedbacks: its type correctness; that what reaches the frontend is      *)
(* framed, whoever writes and whatever fails; that the backend loop        *)
(* dispatches every operation posted for it, once and in order, and a      *)
(* process that the user has ended leaves the last settings; and that the  *)
(* feedbacks arrive in the order they were posted, with none passed over.  *)
(***************************************************************************)
EXTENDS IpcService, WellFoundedInduction, TLAPS

\* A coroutine is in send_message exactly when it holds the mutex.
WriterHoldsMutex ==
  \A c \in Coroutine : at[c] \in {"length", "body"} <=> write_mutex = c

\* As long as the frontend holds its pipe, the last thing written is a length
\* exactly when the message that it is the length of is still to be written.
LengthAwaitsBody ==
  output_open =>
    /\ (\E c \in Coroutine : at[c] = "body") <=> Len(output) % 2 = 1
    /\ \A c \in Coroutine : at[c] = "body" => output[Len(output)].of = writing[c]

\* The part of the type invariant that framing needs.
WritersType ==
  /\ output \in Seq([part : {"length", "body"}, of : Message \cup {NoMessage}])
  /\ DOMAIN at = Coroutine
  /\ writing \in [Coroutine -> Message \cup {NoMessage}]
  /\ write_mutex \in Coroutine \cup {"none"}

FramingInv ==
  /\ WritersType
  /\ WriterHoldsMutex
  /\ LengthAwaitsBody
  /\ MessagesAreFramed

framing_vars == <<output, output_open, at, writing, write_mutex>>

\* Whoever calls send_message: the mutex is taken with the call.
LEMMA SendMessageKeeps ==
  ASSUME FramingInv, NEW c \in Coroutine, NEW m \in Message,
         at[c] \notin {"length", "body"}, SendMessage(c, m),
         UNCHANGED <<output, output_open>>
  PROVE  FramingInv'
<1>1. CASE write_mutex = "none"
  <2>1. /\ at' = [at EXCEPT ![c] = "length"] /\ write_mutex' = c
        /\ writing' = [writing EXCEPT ![c] = m]
    BY <1>1 DEF SendMessage
  <2>2. \A d \in Coroutine : at[d] \notin {"length", "body"}
    BY <1>1 DEF FramingInv, WriterHoldsMutex, Coroutine
  <2>3. WritersType' /\ WriterHoldsMutex' /\ MessagesAreFramed'
    BY <2>1, <2>2 DEF FramingInv, WritersType, WriterHoldsMutex, MessagesAreFramed
  <2>4. \A d \in Coroutine : at'[d] # "body"
    BY <2>1, <2>2 DEF FramingInv, WritersType
  <2>5. LengthAwaitsBody'
    BY <2>2, <2>4 DEF FramingInv, LengthAwaitsBody
  <2> QED BY <2>3, <2>5 DEF FramingInv
<1>2. CASE write_mutex # "none"
  BY <1>2 DEF SendMessage, writers, FramingInv, WritersType, WriterHoldsMutex,
              LengthAwaitsBody, MessagesAreFramed
<1> QED BY <1>1, <1>2

\* What is appended to a framed output leaves it framed, if it is a length
\* where one is due, or the body that belongs to the length before it.
LEMMA AppendKeepsFrames ==
  ASSUME NEW S, output \in Seq(S), MessagesAreFramed, NEW entry,
         output' = Append(output, entry),
         IF Len(output) % 2 = 0 THEN entry.part = "length"
         ELSE entry.part = "body" /\ entry.of = output[Len(output)].of
  PROVE  MessagesAreFramed'
<1> DEFINE n == Len(output)
<1>1. /\ n \in Nat /\ Len(output') = n + 1 /\ output'[n + 1] = entry
      /\ DOMAIN output' = 1 .. n + 1 /\ DOMAIN output = 1 .. n
      /\ \A i \in 1 .. n : output'[i] = output[i]
  OBVIOUS
<1>2. n % 2 = 0 => entry.part = "length"
  OBVIOUS
<1>3. n % 2 # 0 => entry.part = "body" /\ entry.of = output[n].of
  OBVIOUS
<1> HIDE DEF n
<1> SUFFICES ASSUME NEW i \in 1 .. n + 1
             PROVE IF i % 2 = 1 THEN output'[i].part = "length"
                   ELSE output'[i].part = "body" /\ output'[i].of = output'[i - 1].of
  BY <1>1 DEF MessagesAreFramed
<1>4. CASE i = n + 1
  <2>1. CASE n % 2 = 0
    <3>1. i % 2 = 1
      BY <1>1, <1>4, <2>1
    <3> QED BY <1>1, <1>2, <1>4, <2>1, <3>1
  <2>2. CASE n % 2 # 0
    <3>1. i % 2 # 1 /\ i - 1 = n /\ n \in 1 .. n
      BY <1>1, <1>4, <2>2
    <3> QED BY <1>1, <1>3, <1>4, <2>2, <3>1
  <2> QED BY <2>1, <2>2
<1>5. CASE i \in 1 .. n
  <2>1. i % 2 = 1 \/ (i % 2 # 1 /\ i - 1 \in 1 .. n)
    BY <1>1, <1>5
  <2>2. output'[i] = output[i]
    BY <1>1, <1>5
  <2>3. i - 1 \in 1 .. n => output'[i - 1] = output[i - 1]
    BY <1>1
  <2>4. IF i % 2 = 1 THEN output[i].part = "length"
        ELSE output[i].part = "body" /\ output[i].of = output[i - 1].of
    BY <1>1, <1>5 DEF MessagesAreFramed
  <2> QED BY <2>1, <2>2, <2>3, <2>4
<1> QED BY <1>1, <1>4, <1>5

LEMMA WriteLengthKeeps ==
  ASSUME FramingInv, NEW c \in Coroutine, WriteLength(c)
  PROVE  FramingInv'
<1> DEFINE entry == [part |-> "length", of |-> writing[c]]
           S     == [part : {"length", "body"}, of : Message \cup {NoMessage}]
<1>1. /\ output' = Append(output, entry) /\ output_open' = output_open /\ output_open
      /\ at' = [at EXCEPT ![c] = "body"] /\ at[c] = "length"
      /\ UNCHANGED <<writing, write_mutex>>
  BY DEF WriteLength
<1>2. /\ output \in Seq(S) /\ entry \in S
      /\ entry.part = "length" /\ entry.of = writing[c]
  BY DEF FramingInv, WritersType
<1> HIDE DEF entry, S
<1>3. \A d \in Coroutine : at[d] \in {"length", "body"} => d = c
  BY <1>1 DEF FramingInv, WriterHoldsMutex
<1>4. /\ at'[c] = "body" /\ \A d \in Coroutine : at'[d] = "body" => d = c
      /\ DOMAIN at' = Coroutine
  BY <1>1, <1>3 DEF FramingInv, WritersType
<1>5. Len(output) % 2 # 1
  BY <1>1, <1>3 DEF FramingInv, LengthAwaitsBody
<1>6. /\ Len(output) \in Nat /\ Len(output') = Len(output) + 1
      /\ output'[Len(output')] = entry
  BY <1>1, <1>2
<1>7. Len(output) % 2 = 0 /\ Len(output') % 2 = 1
  BY <1>5, <1>6
<1>8. MessagesAreFramed'
  BY <1>1, <1>2, <1>7, AppendKeepsFrames DEF FramingInv
<1>9. WritersType'
  BY <1>1, <1>2, <1>4 DEF FramingInv, WritersType, S
<1>10. WriterHoldsMutex'
  BY <1>1, <1>3, <1>4 DEF FramingInv, WriterHoldsMutex, WritersType
<1>11. LengthAwaitsBody'
  BY <1>1, <1>2, <1>4, <1>6, <1>7 DEF LengthAwaitsBody
<1> QED BY <1>8, <1>9, <1>10, <1>11 DEF FramingInv

LEMMA WriteBodyKeeps ==
  ASSUME FramingInv, NEW c \in Coroutine, WriteBody(c)
  PROVE  FramingInv'
<1> DEFINE entry == [part |-> "body", of |-> writing[c]]
           S     == [part : {"length", "body"}, of : Message \cup {NoMessage}]
<1>1. /\ output' = Append(output, entry) /\ output_open' = output_open /\ output_open
      /\ at' = [at EXCEPT ![c] = After[c]] /\ at[c] = "body"
      /\ writing' = [writing EXCEPT ![c] = NoMessage]
      /\ write_mutex' = "none"
  BY DEF WriteBody
<1>2. /\ output \in Seq(S) /\ entry \in S
      /\ entry.part = "body" /\ entry.of = writing[c]
  BY DEF FramingInv, WritersType
<1> HIDE DEF entry, S
<1>3. \A d \in Coroutine : at'[d] \notin {"length", "body"}
  <2>1. \A d \in Coroutine : at[d] \in {"length", "body"} => d = c
    BY <1>1 DEF FramingInv, WriterHoldsMutex
  <2>2. After[c] \notin {"length", "body"}
    BY DEF After, Coroutine
  <2> QED BY <1>1, <2>1, <2>2 DEF FramingInv, WritersType
<1>4. Len(output) % 2 = 1 /\ output[Len(output)].of = writing[c]
  BY <1>1 DEF FramingInv, LengthAwaitsBody
<1>5. Len(output) \in Nat /\ Len(output') = Len(output) + 1
  BY <1>1, <1>2
<1>6. Len(output) % 2 # 0 /\ Len(output') % 2 # 1
  BY <1>4, <1>5
<1>7. MessagesAreFramed'
  BY <1>1, <1>2, <1>4, <1>6, AppendKeepsFrames DEF FramingInv
<1>8. WritersType'
  BY <1>1, <1>2 DEF FramingInv, WritersType, S
<1>9. WriterHoldsMutex'
  BY <1>1, <1>3 DEF WriterHoldsMutex, Coroutine
<1>10. LengthAwaitsBody'
  BY <1>3, <1>6 DEF LengthAwaitsBody
<1> QED BY <1>7, <1>8, <1>9, <1>10 DEF FramingInv

\* What ends without a write: a failed one, which only a closed pipe causes, or
\* a coroutine that was not in send_message.
LEMMA AsideKeeps ==
  ASSUME FramingInv, NEW c \in Coroutine, NEW to, to \notin {"length", "body"},
         at' = [at EXCEPT ![c] = to], UNCHANGED <<output, output_open>>,
         \/ /\ at[c] \notin {"length", "body"}
            /\ UNCHANGED <<writing, write_mutex>>
         \/ /\ at[c] \in {"length", "body"} /\ ~output_open
            /\ writing' = [writing EXCEPT ![c] = NoMessage]
            /\ write_mutex' = "none"
  PROVE  FramingInv'
<1> USE DEF FramingInv
<1>1. /\ DOMAIN at' = Coroutine /\ at'[c] = to
      /\ \A d \in Coroutine \ {c} : at'[d] = at[d]
  BY DEF WritersType
<1>2. WritersType' /\ MessagesAreFramed'
  BY DEF WritersType, MessagesAreFramed
<1>3. WriterHoldsMutex'
  BY <1>1 DEF WriterHoldsMutex, Coroutine
<1>4. LengthAwaitsBody'
  BY <1>1 DEF LengthAwaitsBody
<1> QED BY <1>2, <1>3, <1>4

LEMMA QuietKeeps ==
  ASSUME FramingInv, UNCHANGED framing_vars
  PROVE  FramingInv'
BY DEF FramingInv, framing_vars, WritersType, WriterHoldsMutex, LengthAwaitsBody,
       MessagesAreFramed

-----------------------------------------------------------------------------
\* Types.

\* What the type invariant needs to be inductive.
TypeInv ==
  /\ IpcTypeOK
  /\ DOMAIN at = Coroutine
  /\ \A c \in Coroutine : at[c] \in {"length", "body"} => writing[c] \in Message
  /\ posted \in 1 .. MaxFeedbacks
  /\ sent \in 0 .. MaxMessages
  /\ arrived \in Seq(Operation)
  /\ dispatched \in Seq(Operation)

LEMMA TypeInit == IpcInit => TypeInv
BY BoundsOK, SMT DEF IpcInit, TypeInv, IpcTypeOK, Coroutine, Message, Greeting,
     ErrorReply, NoMessage, Feedback

LEMMA SendMessageTypes ==
  ASSUME TypeInv, NEW c \in Coroutine, NEW m \in Message, SendMessage(c, m)
  PROVE  /\ process' \in {"running", "stuck", "saving", "stopped", "unsaved"}
         /\ at'["greeting"] \in {"start", "length", "body", "done"}
         /\ at'["reader"] \in {"read", "length", "body", "done"}
         /\ at'["events"] \in {"wait", "length", "body", "pause", "done"}
         /\ writing' \in [Coroutine -> Message \cup {NoMessage}]
         /\ write_mutex' \in Coroutine \cup {"none"}
         /\ DOMAIN at' = Coroutine
         /\ \A d \in Coroutine : at'[d] \in {"length", "body"} => writing'[d] \in Message
BY DEF TypeInv, IpcTypeOK, SendMessage, writers, Coroutine

LEMMA WriteTypes ==
  ASSUME TypeInv, NEW c \in Coroutine, Write(c)
  PROVE  TypeInv'
<1>1. at[c] \in {"length", "body"} /\ writing[c] \in Message
  BY DEF Write, WriteLength, WriteBody, WriteFails, TypeInv
<1>2. /\ \A p \in {"length", "body"} :
           Append(output, [part |-> p, of |-> writing[c]])
             \in Seq([part : {"length", "body"}, of : Message])
  BY <1>1 DEF TypeInv, IpcTypeOK
<1>3. After[c] \notin {"length", "body"}
  BY DEF After, Coroutine
<1>4. CASE WriteLength(c)
  BY <1>1, <1>2, <1>4 DEF WriteLength, TypeInv, IpcTypeOK, queues, flags, config,
     history, Coroutine
<1>5. CASE WriteBody(c)
  BY <1>2, <1>3, <1>5 DEF WriteBody, TypeInv, IpcTypeOK, queues, flags, config,
     history, Coroutine, After
<1>6. CASE WriteFails(c)
  BY <1>3, <1>6 DEF WriteFails, TypeInv, IpcTypeOK, queues, flags, config,
     history, Coroutine, After, pipes
<1> QED BY <1>4, <1>5, <1>6 DEF Write

LEMMA ReadTypes ==
  ASSUME TypeInv, ReadMessage
  PROVE  TypeInv'
<1>1. /\ input # <<>> /\ input' = Tail(input) /\ Head(input) \in Operation
      /\ input' \in Seq(Operation)
      /\ UNCHANGED <<undrained, output, feedbacks, settings, config_file, sent,
                     dispatched, posted>>
  <2>1. /\ input # <<>> /\ input' = Tail(input)
        /\ UNCHANGED <<undrained, output, feedbacks, config, sent, dispatched, posted>>
    BY DEF ReadMessage
  <2>2. input \in Seq(Operation)
    BY DEF TypeInv, IpcTypeOK
  <2>3. Head(input) \in Operation /\ Tail(input) \in Seq(Operation)
    BY <2>1, <2>2
  <2> QED BY <2>1, <2>3 DEF config
<1>2. CASE Head(input).type = "no JSON"
  <2>1. SendMessage("reader", ErrorReply) /\ UNCHANGED <<active_operations, arrived>>
    BY <1>2 DEF ReadMessage
  <2>2. "reader" \in Coroutine /\ ErrorReply \in Message
    BY DEF Coroutine, Message
  <2> QED BY <1>1, <2>1, <2>2, SendMessageTypes DEF TypeInv, IpcTypeOK
<1>3. CASE Head(input).type # "no JSON"
  <2>1. PostOperation(Head(input)) /\ UNCHANGED <<writers, process>>
    BY <1>3 DEF ReadMessage
  <2>2. active_operations' \in Seq(Operation) /\ arrived' \in Seq(Operation)
    BY <1>1, <2>1 DEF PostOperation, TypeInv, IpcTypeOK
  <2> QED BY <1>1, <2>1, <2>2 DEF TypeInv, IpcTypeOK, writers
<1> QED BY <1>2, <1>3

LEMMA EventsPollTypes ==
  ASSUME TypeInv, EventsPoll
  PROVE  TypeInv'
<1>1. UNCHANGED <<input, undrained, output, active_operations, settings,
                  config_file, sent, arrived, dispatched, posted>>
  BY DEF EventsPoll, pipes, config, history
<1>2. CASE feedbacks = <<>>
  BY <1>1, <1>2 DEF EventsPoll, TypeInv, IpcTypeOK, LoopOrLeave, Coroutine
<1>3. CASE feedbacks # <<>>
  <2>1. feedbacks' = Tail(feedbacks) /\ SendMessage("events", Head(feedbacks))
    BY <1>3 DEF EventsPoll
  <2>2. feedbacks' \in Seq(1 .. posted) /\ Head(feedbacks) \in 1 .. posted
    BY <1>3, <2>1 DEF TypeInv, IpcTypeOK
  <2>3. "events" \in Coroutine /\ Head(feedbacks) \in Message
    BY <2>2, BoundsOK DEF Coroutine, Message, Feedback, TypeInv
  <2> QED BY <1>1, <2>1, <2>2, <2>3, SendMessageTypes DEF TypeInv, IpcTypeOK
<1> QED BY <1>2, <1>3

LEMMA DispatchTypes ==
  ASSUME TypeInv, Dispatch
  PROVE  TypeInv'
<1>1. /\ active_operations # <<>>
      /\ active_operations' = Tail(active_operations)
      /\ dispatched' = Append(dispatched, Head(active_operations))
      /\ settings' = modifySettings(Head(active_operations))
      /\ process' \in {process, "saving"}
      /\ UNCHANGED <<input, undrained, output, at, writing, write_mutex,
                     feedbacks, config_file, sent, arrived, posted>>
  BY DEF Dispatch, exitApp, pipes, writers
<1>2. Head(active_operations) \in Operation /\ active_operations' \in Seq(Operation)
  BY <1>1 DEF TypeInv, IpcTypeOK
<1>3. settings' \in 0 .. MaxMessages
  BY <1>1, <1>2 DEF modifySettings, Operation, TypeInv, IpcTypeOK
<1> QED BY <1>1, <1>2, <1>3 DEF TypeInv, IpcTypeOK

LEMMA PostTypes ==
  ASSUME TypeInv, PostFeedback
  PROVE  TypeInv'
<1>1. posted' \in 1 .. MaxFeedbacks /\ posted' = posted + 1
  BY BoundsOK DEF PostFeedback, TypeInv
<1>2. feedbacks' \in Seq(1 .. posted')
  <2>1. feedbacks \in Seq(1 .. posted')
    BY <1>1 DEF TypeInv, IpcTypeOK
  <2> QED BY <1>1, <2>1 DEF PostFeedback, TypeInv
<1> QED BY <1>1, <1>2 DEF PostFeedback, TypeInv, IpcTypeOK, pipes, writers, flags,
     config

LEMMA FrontendTypes ==
  ASSUME TypeInv, sendToBackend \/ Drain \/ FrontendCloses
  PROVE  TypeInv'
<1>1. CASE sendToBackend
  <2>1. PICK t \in MessageType, full \in BOOLEAN :
          LET m == [type |-> t, n |-> sent + 1]
          IN /\ input' = Append(input, m)
             /\ undrained' = IF full THEN Append(undrained, m) ELSE undrained
             /\ sent' = sent + (IF full THEN 2 ELSE 1)
    BY <1>1 DEF sendToBackend
  <2>2. sent' \in 0 .. MaxMessages /\ sent + 1 \in 1 .. MaxMessages
    BY <1>1, <2>1, BoundsOK DEF sendToBackend, TypeInv
  <2>3. [type |-> t, n |-> sent + 1] \in Operation
    BY <2>2 DEF Operation
  <2>4. input' \in Seq(Operation) /\ undrained' \in Seq(Operation)
    BY <2>1, <2>3 DEF TypeInv, IpcTypeOK
  <2> QED BY <1>1, <2>2, <2>4 DEF sendToBackend, TypeInv, IpcTypeOK, writers, queues,
       flags, config
<1>2. CASE Drain
  BY <1>2 DEF Drain, TypeInv, IpcTypeOK, writers, queues, flags, config, history
<1>3. CASE FrontendCloses
  BY <1>3 DEF FrontendCloses, TypeInv, IpcTypeOK, writers, queues, flags, config,
     history
<1> QED BY <1>1, <1>2, <1>3

LEMMA TypeStep == TypeInv /\ [IpcNext]_ivars => TypeInv'
<1> SUFFICES ASSUME TypeInv, [IpcNext]_ivars PROVE TypeInv'
  OBVIOUS
<1>1. CASE Greet
  <2>1. "greeting" \in Coroutine /\ Greeting \in Message
    BY DEF Coroutine, Message
  <2> QED BY <1>1, <2>1, SendMessageTypes DEF Greet, TypeInv, IpcTypeOK, pipes,
       queues, config, history
<1>2. CASE ReadClosed
  BY <1>2 DEF ReadClosed, TypeInv, IpcTypeOK, pipes, queues, config, history,
     Coroutine
<1>3. CASE EventsPause
  BY <1>3 DEF EventsPause, TypeInv, IpcTypeOK, pipes, queues, flags, config, history,
     Coroutine, LoopOrLeave
<1>4. CASE SaveConfig
  BY <1>4 DEF SaveConfig, TypeInv, IpcTypeOK, pipes, writers, queues, history
<1>5. CASE PollSlots
  BY <1>5 DEF PollSlots, TypeInv, IpcTypeOK, pipes, writers, flags, config, history
<1>6. CASE BackendIdles \/ Ended \/ UNCHANGED ivars
  BY <1>6 DEF BackendIdles, Ended, ivars, TypeInv, IpcTypeOK, pipes, writers, queues,
     flags, config, history
<1> QED
  BY <1>1, <1>2, <1>3, <1>4, <1>5, <1>6, ReadTypes, EventsPollTypes, WriteTypes,
     DispatchTypes, PostTypes, FrontendTypes
  DEF IpcNext, Reads, Events

\* Every variable of the pipe service keeps its type, however many messages and
\* feedbacks there are.
THEOREM IpcTypes == IpcSpec => []IpcTypeOK
<1>1. TypeInv => IpcTypeOK
  BY DEF TypeInv
<1> QED BY <1>1, TypeInit, TypeStep, PTL DEF IpcSpec

-----------------------------------------------------------------------------
\* Framing.

LEMMA FramingInit == IpcInit => FramingInv
<1> SUFFICES ASSUME IpcInit PROVE FramingInv
  OBVIOUS
<1>1. WritersType
  BY DEF IpcInit, WritersType, Coroutine
<1>2. output = <<>> /\ \A c \in Coroutine : at[c] \notin {"length", "body"}
  BY DEF IpcInit, Coroutine
<1>3. WriterHoldsMutex
  BY <1>2 DEF IpcInit, WriterHoldsMutex, Coroutine
<1>4. LengthAwaitsBody /\ MessagesAreFramed
  BY <1>2 DEF LengthAwaitsBody, MessagesAreFramed
<1> QED BY <1>1, <1>3, <1>4 DEF FramingInv

LEMMA CoroutinesKeepFrames ==
  ASSUME FramingInv, TypeInv, Greet \/ Reads \/ Events
  PROVE  FramingInv'
<1>1. CASE Greet
  <2>1. "greeting" \in Coroutine /\ Greeting \in Message
    BY DEF Coroutine, Message
  <2> QED BY <1>1, <2>1, SendMessageKeeps DEF Greet, pipes
<1>2. CASE ReadMessage
  <2>1. "reader" \in Coroutine /\ ErrorReply \in Message
    BY DEF Coroutine, Message
  <2>2. CASE Head(input).type = "no JSON"
    BY <1>2, <2>1, <2>2, SendMessageKeeps DEF ReadMessage
  <2>3. CASE Head(input).type # "no JSON"
    BY <1>2, <2>3, QuietKeeps DEF ReadMessage, writers, framing_vars
  <2> QED BY <2>2, <2>3
<1>3. CASE ReadClosed
  <2>1. "reader" \in Coroutine
    BY DEF Coroutine
  <2> QED BY <1>3, <2>1, AsideKeeps DEF ReadClosed, pipes
<1>4. CASE EventsPoll /\ feedbacks = <<>>
  <2>1. /\ "events" \in Coroutine /\ LoopOrLeave \notin {"length", "body"}
        /\ at' = [at EXCEPT !["events"] = LoopOrLeave] /\ at["events"] = "wait"
        /\ UNCHANGED <<writing, write_mutex, output, output_open>>
    BY <1>4 DEF Coroutine, LoopOrLeave, EventsPoll, pipes
  <2> QED BY <2>1, AsideKeeps
<1>5. CASE EventsPoll /\ feedbacks # <<>>
  <2>1. feedbacks \in Seq(1 .. posted) /\ posted \in 1 .. MaxFeedbacks
    BY DEF TypeInv, IpcTypeOK
  <2>2. Head(feedbacks) \in 1 .. posted
    BY <1>5, <2>1
  <2>3. "events" \in Coroutine /\ Head(feedbacks) \in Message
    BY <2>1, <2>2, BoundsOK DEF Coroutine, Message, Feedback
  <2> QED BY <1>5, <2>3, SendMessageKeeps DEF EventsPoll, pipes
<1>6. CASE EventsPause
  <2>1. /\ "events" \in Coroutine /\ LoopOrLeave \notin {"length", "body"}
        /\ at' = [at EXCEPT !["events"] = LoopOrLeave] /\ at["events"] = "pause"
        /\ UNCHANGED <<writing, write_mutex, output, output_open>>
    BY <1>6 DEF Coroutine, LoopOrLeave, EventsPause, pipes
  <2> QED BY <2>1, AsideKeeps
<1> QED BY <1>1, <1>2, <1>3, <1>4, <1>5, <1>6 DEF Reads, Events

LEMMA ClosingKeepsFrames ==
  ASSUME FramingInv, FrontendCloses
  PROVE  FramingInv'
<1>1. /\ UNCHANGED <<output, at, writing, write_mutex>>
      /\ output_open' => output_open
  <2>1. output_open' = output_open \/ output_open' = FALSE
    BY Zenon DEF FrontendCloses
  <2>2. UNCHANGED <<output, at, writing, write_mutex>>
    BY DEF FrontendCloses, writers
  <2>3. output_open' => output_open
    BY <2>1, Zenon
  <2> QED BY <2>2, <2>3
<1>2. LengthAwaitsBody'
  BY <1>1 DEF FramingInv, LengthAwaitsBody
<1>3. WritersType' /\ WriterHoldsMutex' /\ MessagesAreFramed'
  BY <1>1 DEF FramingInv, WritersType, WriterHoldsMutex, MessagesAreFramed
<1> QED BY <1>2, <1>3 DEF FramingInv

LEMMA FramingStep == FramingInv /\ TypeInv /\ [IpcNext]_ivars => FramingInv'
<1> SUFFICES ASSUME FramingInv, TypeInv, [IpcNext]_ivars PROVE FramingInv'
  OBVIOUS
<1>1. ASSUME NEW c \in Coroutine, WriteFails(c) PROVE FramingInv'
  <2>1. After[c] \notin {"length", "body"}
    BY DEF After, Coroutine
  <2> QED BY <1>1, <2>1, AsideKeeps DEF WriteFails, pipes
<1>2. CASE Dispatch \/ SaveConfig \/ BackendIdles \/ PostFeedback \/ PollSlots
           \/ Ended \/ UNCHANGED ivars
  BY <1>2, QuietKeeps DEF Dispatch, SaveConfig, BackendIdles, PostFeedback, PollSlots,
     Ended, ivars, pipes, writers, framing_vars
<1>3. CASE sendToBackend \/ Drain
  BY <1>3, QuietKeeps DEF sendToBackend, Drain, writers, framing_vars
<1> QED
  BY <1>1, <1>2, <1>3, CoroutinesKeepFrames, WriteLengthKeeps, WriteBodyKeeps,
     ClosingKeepsFrames DEF IpcNext, Write

\* What reaches the frontend is framed, whichever coroutines write and whatever
\* fails: the holder of write_mutex_ is the only one in send_message.
THEOREM FramesAreWhole == IpcSpec => []MessagesAreFramed
<1>1. FramingInv => MessagesAreFramed
  BY DEF FramingInv
<1> QED BY <1>1, TypeInit, TypeStep, FramingInit, FramingStep, PTL DEF IpcSpec

-----------------------------------------------------------------------------
\* Operations.

LEMMA AppendAfter ==
  ASSUME NEW S, NEW s \in Seq(S), NEW t \in Seq(S), NEW e \in S
  PROVE  s \o Append(t, e) = Append(s \o t, e)
OBVIOUS

LEMMA MoveHead ==
  ASSUME NEW S, NEW s \in Seq(S), NEW t \in Seq(S), t # <<>>
  PROVE  Append(s, Head(t)) \o Tail(t) = s \o t
OBVIOUS

\* The operations dispatched and those queued are those that arrived.
InOrder == dispatched \o active_operations = arrived

LEMMA OrderStep == InOrder /\ TypeInv /\ [IpcNext]_ivars => InOrder'
<1> SUFFICES ASSUME InOrder, TypeInv, [IpcNext]_ivars PROVE InOrder'
  OBVIOUS
<1> USE DEF InOrder
<1>1. /\ dispatched \in Seq(Operation) /\ active_operations \in Seq(Operation)
      /\ arrived \in Seq(Operation) /\ input \in Seq(Operation)
  BY DEF TypeInv, IpcTypeOK
<1>2. CASE ReadMessage
  <2>1. /\ input # <<>> /\ UNCHANGED dispatched
        /\ \/ UNCHANGED <<active_operations, arrived>>
           \/ PostOperation(Head(input))
    BY <1>2 DEF ReadMessage
  <2>2. \/ UNCHANGED <<active_operations, arrived>>
        \/ /\ active_operations' = Append(active_operations, Head(input))
           /\ arrived' = Append(arrived, Head(input))
    BY <2>1 DEF PostOperation
  <2>3. Head(input) \in Operation
    BY <1>1, <2>1
  <2> HIDE DEF InOrder
  <2>4. CASE UNCHANGED <<active_operations, arrived>>
    BY <2>1, <2>4 DEF InOrder
  <2>5. CASE /\ active_operations' = Append(active_operations, Head(input))
             /\ arrived' = Append(arrived, Head(input))
    <3>1. dispatched \o Append(active_operations, Head(input))
            = Append(dispatched \o active_operations, Head(input))
      BY <1>1, <2>3, AppendAfter
    <3> QED BY <2>1, <2>5, <3>1 DEF InOrder
  <2> QED BY <2>2, <2>4, <2>5
<1>3. CASE Dispatch
  <2>1. /\ active_operations # <<>> /\ active_operations' = Tail(active_operations)
        /\ dispatched' = Append(dispatched, Head(active_operations))
        /\ UNCHANGED arrived
    BY <1>3 DEF Dispatch
  <2> QED BY <1>1, <2>1, MoveHead
<1>4. UNCHANGED <<dispatched, active_operations, arrived>> => InOrder'
  OBVIOUS
<1>5. CASE Greet \/ ReadClosed \/ EventsPoll \/ EventsPause \/ SaveConfig
           \/ BackendIdles \/ PostFeedback \/ PollSlots \/ sendToBackend \/ Drain
           \/ FrontendCloses \/ Ended \/ UNCHANGED ivars
  BY <1>4, <1>5 DEF Greet, ReadClosed, EventsPoll, EventsPause, SaveConfig,
     BackendIdles, PostFeedback, PollSlots, sendToBackend, Drain, FrontendCloses,
     Ended, ivars, queues, history
<1>6. ASSUME NEW c \in Coroutine, Write(c) PROVE InOrder'
  BY <1>4, <1>6 DEF Write, WriteLength, WriteBody, WriteFails, queues, history
<1> QED BY <1>2, <1>3, <1>5, <1>6 DEF IpcNext, Reads, Events


-----------------------------------------------------------------------------
\* The settings.

\* A bounded set of naturals that is not empty has a greatest element.
LEMMA HasGreatest ==
  ASSUME NEW n \in Nat, NEW S \in SUBSET (1 .. n), S # {}
  PROVE  \E m \in S : \A i \in S : m >= i
<1> DEFINE T == {d \in Nat : n - d \in S}
<1>1. T # {} /\ T \subseteq Nat
  <2>1. PICK i \in S : TRUE
    OBVIOUS
  <2>2. n - i \in Nat /\ n - (n - i) = i
    OBVIOUS
  <2> QED BY <2>1, <2>2
<1>2. PICK d \in T : \A e \in T : <<e, d>> \notin OpToRel(<, Nat)
  BY <1>1, NatLessThanWellFounded, WFMin
<1>3. ASSUME NEW i \in S PROVE n - d >= i
  <2>1. SUFFICES ASSUME ~(n - d >= i) PROVE FALSE
    OBVIOUS
  <2>2. n - i \in T /\ n - i < d /\ n - i \in Nat /\ d \in Nat
    BY <2>1
  <2>3. <<n - i, d>> \in OpToRel(<, Nat)
    BY <2>2 DEF OpToRel
  <2> QED BY <1>2, <2>2, <2>3
<1> QED BY <1>3

LEMMA SettingsNone == SettingsAfter(<<>>) = 0
BY DEF SettingsAfter

\* The last change of the settings counts.
LEMMA SettingsAppend ==
  ASSUME NEW ops \in Seq(Operation), NEW op \in Operation
  PROVE  SettingsAfter(Append(ops, op))
           = IF op.type = "ModifySettings" THEN op.n ELSE SettingsAfter(ops)
<1> DEFINE all == Append(ops, op)
           last == Len(ops) + 1
           before == {i \in DOMAIN ops : ops[i].type = "ModifySettings"}
           after  == {i \in DOMAIN all : all[i].type = "ModifySettings"}
<1>1. /\ Len(ops) \in Nat /\ DOMAIN ops = 1 .. Len(ops) /\ DOMAIN all = 1 .. last
      /\ all[last] = op /\ \A i \in 1 .. Len(ops) : all[i] = ops[i]
  OBVIOUS
<1>2. \A i \in 1 .. last : i \in 1 .. Len(ops) \/ i = last
  BY <1>1
<1>3. last \in 1 .. last /\ \A i \in 1 .. Len(ops) : i \in 1 .. last /\ last >= i
  BY <1>1
<1>4. last >= last
  BY <1>1
<1> HIDE DEF all, last
<1>5. SettingsAfter(all) = IF after = {} THEN 0 ELSE all[Max(after)].n
  BY DEF SettingsAfter
<1>6. SettingsAfter(ops) = IF before = {} THEN 0 ELSE ops[Max(before)].n
  BY DEF SettingsAfter
<1>7. CASE op.type = "ModifySettings"
  <2>1. /\ last \in after /\ \A i \in after : last >= i
    BY <1>1, <1>2, <1>3, <1>4, <1>7
  <2>2. \A i, j \in after : i >= j /\ j >= i => i = j
    BY <1>1 DEF last
  <2> HIDE DEF after
  <2>3. Max(after) = last
    BY <2>1, <2>2 DEF Max
  <2> QED BY <1>1, <1>5, <1>7, <2>1, <2>3 DEF all
<1>8. CASE op.type # "ModifySettings"
  <2>1. after = before
    BY <1>1, <1>2, <1>3, <1>8
  <2>2. before # {} => Max(before) \in DOMAIN ops
    <3>1. before \in SUBSET (1 .. Len(ops))
      BY <1>1
    <3> HIDE DEF before
    <3>2. before # {} => Max(before) \in before
      BY <1>1, <3>1, HasGreatest DEF Max
    <3> QED BY <1>1, <3>1, <3>2
  <2>3. before # {} => all[Max(before)] = ops[Max(before)]
    BY <1>1, <2>2
  <2> QED BY <1>5, <1>6, <1>8, <2>1, <2>3 DEF all
<1> QED BY <1>7, <1>8 DEF all

\* The settings are those of the last change that was dispatched, and a process
\* that stopped has saved them.
SettingsCurrent ==
  /\ settings = SettingsAfter(dispatched)
  /\ process = "stopped" => config_file = settings

LEMMA SettingsStep == SettingsCurrent /\ TypeInv /\ [IpcNext]_ivars => SettingsCurrent'
<1> SUFFICES ASSUME SettingsCurrent, TypeInv, [IpcNext]_ivars PROVE SettingsCurrent'
  OBVIOUS
<1>1. dispatched \in Seq(Operation) /\ active_operations \in Seq(Operation)
  BY DEF TypeInv, IpcTypeOK
<1>2. CASE Dispatch
  <2>1. /\ active_operations # <<>> /\ UNCHANGED config_file
        /\ dispatched' = Append(dispatched, Head(active_operations))
        /\ settings' = IF Head(active_operations).type = "ModifySettings"
                       THEN Head(active_operations).n ELSE settings
        /\ process' \in {"running", "saving"}
    BY <1>2 DEF Dispatch, exitApp, modifySettings
  <2>2. PICK op \in Operation : op = Head(active_operations)
    BY <1>1, <2>1
  <2>3. SettingsAfter(Append(dispatched, op))
          = IF op.type = "ModifySettings" THEN op.n ELSE SettingsAfter(dispatched)
    BY <1>1, SettingsAppend
  <2> QED BY <2>1, <2>2, <2>3 DEF SettingsCurrent
<1>3. CASE SaveConfig
  BY <1>3 DEF SaveConfig, SettingsCurrent, history
<1>4. UNCHANGED <<config, dispatched>> /\ (process' = process \/ process' = "stuck")
        => SettingsCurrent'
  BY DEF SettingsCurrent, config
<1>5. CASE Greet \/ Reads \/ Events
  BY <1>4, <1>5 DEF Greet, Reads, ReadMessage, ReadClosed, Events, EventsPoll, EventsPause,
     SendMessage, history, flags
<1>6. ASSUME NEW c \in Coroutine, Write(c) PROVE SettingsCurrent'
  BY <1>4, <1>6 DEF Write, WriteLength, WriteBody, WriteFails, history, flags
<1>7. CASE BackendIdles \/ PostFeedback \/ PollSlots \/ sendToBackend \/ Drain
           \/ FrontendCloses \/ Ended \/ UNCHANGED ivars
  BY <1>4, <1>7 DEF BackendIdles, PostFeedback, PollSlots, sendToBackend, Drain,
     FrontendCloses, Ended, ivars, flags, history
<1> QED BY <1>2, <1>3, <1>5, <1>6, <1>7 DEF IpcNext

\* The backend loop dispatches the operations posted for it, once each and in the
\* order of their arrival, and a process that the user has ended leaves the last
\* settings that it dispatched.
THEOREM OperationsCount == IpcSpec => []OperationsTakeEffect
<1>1. IpcInit => InOrder /\ SettingsCurrent
  BY SettingsNone DEF IpcInit, InOrder, SettingsCurrent
<1>2. InOrder /\ SettingsCurrent => OperationsTakeEffect
  BY DEF InOrder, SettingsCurrent, OperationsTakeEffect
<1> QED BY <1>1, <1>2, TypeInit, TypeStep, OrderStep, SettingsStep, PTL DEF IpcSpec


-----------------------------------------------------------------------------
\* Feedbacks.

\* What is queued is what was posted last, in order.
QueueInOrder ==
  /\ Len(feedbacks) <= posted
  /\ \A i \in 1 .. Len(feedbacks) : feedbacks[i] = posted - Len(feedbacks) + i

\* Only the event loop writes feedbacks, the one before those that are queued.
EventsWrites ==
  /\ at["events"] \in {"length", "body"} <=> writing["events"] # NoMessage
  /\ writing["events"] # NoMessage =>
       writing["events"] = posted - Len(feedbacks) /\ writing["events"] \in Feedback
  /\ \A c \in Coroutine \ {"events"} : writing[c] \notin Feedback

\* What was delivered are the first, except those that were lost with the pipe or
\* the thread.
DeliveredFirst ==
  /\ \A i, j \in Bodies : i < j => output[i].of < output[j].of
  /\ \E k \in Nat : /\ Delivered = 1 .. k /\ k <= posted - Waiting
                    /\ output_open /\ process = "running" => k = posted - Waiting

FeedbackInv == QueueInOrder /\ EventsWrites /\ DeliveredFirst

LEMMA FeedbackInit == IpcInit => FeedbackInv
<1> SUFFICES ASSUME IpcInit PROVE FeedbackInv
  OBVIOUS
<1>1. /\ feedbacks = <<1>> /\ posted = 1 /\ output = <<>> /\ at["events"] = "wait"
      /\ writing = [c \in Coroutine |-> NoMessage]
  BY DEF IpcInit
<1>2. Len(feedbacks) = 1 /\ feedbacks[1] = 1
  BY <1>1
<1>3. QueueInOrder
  BY <1>1, <1>2 DEF QueueInOrder
<1>4. EventsWrites
  BY <1>1, BoundsOK DEF EventsWrites, Coroutine, NoMessage, Feedback
<1>5. Bodies = {} /\ Delivered = {} /\ Waiting = 1
  BY <1>1, <1>2 DEF Bodies, Delivered, Waiting, Coroutine
<1>6. 0 \in Nat /\ Delivered = 1 .. 0 /\ 0 = posted - Waiting
  BY <1>1, <1>5
<1>7. DeliveredFirst
  BY <1>5, <1>6 DEF DeliveredFirst
<1> QED BY <1>3, <1>4, <1>7 DEF FeedbackInv

\* What a coroutine appends to the output.
LEMMA OutputGrows ==
  ASSUME NEW S, output \in Seq(S), NEW e \in S, output' = Append(output, e)
  PROVE  /\ Bodies' = IF e.part = "body" /\ e.of \in Feedback
                      THEN Bodies \cup {Len(output) + 1} ELSE Bodies
         /\ Delivered' = IF e.part = "body" /\ e.of \in Feedback
                         THEN Delivered \cup {e.of} ELSE Delivered
         /\ \A i \in Bodies : i < Len(output) + 1 /\ output'[i] = output[i]
         /\ output'[Len(output) + 1] = e
<1> DEFINE n == Len(output)
<1>1. /\ n \in Nat /\ DOMAIN output = 1 .. n /\ DOMAIN output' = 1 .. n + 1
      /\ output'[n + 1] = e /\ \A i \in 1 .. n : output'[i] = output[i]
  OBVIOUS
<1> HIDE DEF n
<1>2. /\ \A i \in 1 .. n + 1 : i \in 1 .. n \/ i = n + 1
      /\ n + 1 \in 1 .. n + 1 /\ n + 1 \notin 1 .. n
      /\ \A i \in 1 .. n : i \in 1 .. n + 1 /\ i < n + 1
  BY <1>1
<1>3. Bodies' = IF e.part = "body" /\ e.of \in Feedback THEN Bodies \cup {n + 1} ELSE Bodies
  BY <1>1, <1>2 DEF Bodies
<1>4. \A i \in Bodies : i < n + 1 /\ output'[i] = output[i]
  BY <1>1, <1>2 DEF Bodies
<1>5. Delivered' = IF e.part = "body" /\ e.of \in Feedback
                   THEN Delivered \cup {e.of} ELSE Delivered
  <2>1. Delivered' = {output'[i].of : i \in Bodies'}
    BY DEF Delivered
  <2> QED BY <1>1, <1>3, <1>4, <2>1 DEF Delivered
<1> QED BY <1>1, <1>3, <1>4, <1>5 DEF n

\* A step that neither writes a body nor posts nor takes a feedback: the frontend
\* may have gone, or the process ended, or the pipe lost the message in
\* send_message.
LEMMA NothingDelivered ==
  ASSUME DeliveredFirst, UNCHANGED <<Bodies, Delivered>>,
         \A i \in Bodies : output'[i] = output[i],
         NEW p \in Int, p = posted - Waiting, NEW q \in Int, q = posted' - Waiting', q >= p,
         output_open' /\ process' = "running" => output_open /\ process = "running" /\ q = p
  PROVE  DeliveredFirst'
<1>1. \A i, j \in Bodies' : i < j => output'[i].of < output'[j].of
  BY DEF DeliveredFirst
<1>2. PICK k \in Nat : /\ Delivered = 1 .. k /\ k <= p
                       /\ output_open /\ process = "running" => k = p
  BY DEF DeliveredFirst
<1>3. Delivered' = 1 .. k
  BY <1>2
<1>4. k <= q
  BY <1>2
<1>5. output_open' /\ process' = "running" => k = q
  BY <1>2, Zenon
<1> QED BY <1>1, <1>3, <1>4, <1>5 DEF DeliveredFirst

LEMMA WaitingType ==
  ASSUME TypeInv
  PROVE  posted \in Nat /\ Len(feedbacks) \in Nat /\ Waiting \in Nat
BY DEF TypeInv, IpcTypeOK, Waiting

LEMMA WritePartKeeps ==
  ASSUME FeedbackInv, TypeInv, TypeInv', NEW c \in Coroutine, Write(c)
  PROVE  FeedbackInv'
<1> DEFINE S == [part : {"length", "body"}, of : Message]
<1>1. /\ output \in Seq(S) /\ writing[c] \in Message /\ at[c] \in {"length", "body"}
      /\ writing \in [Coroutine -> Message \cup {NoMessage}] /\ DOMAIN at = Coroutine
      /\ posted \in Nat /\ posted' \in Nat /\ Waiting \in Nat /\ Waiting' \in Nat
      /\ Len(feedbacks) \in Nat
  <2>1. feedbacks' \in Seq(1 .. posted') /\ posted' \in Nat
    BY DEF TypeInv, IpcTypeOK
  <2>2. Len(feedbacks') \in Nat
    BY <2>1
  <2>3. Waiting' \in Nat
    BY <2>2 DEF Waiting
  <2> QED BY <2>1, <2>3, WaitingType DEF Write, WriteLength, WriteBody, WriteFails, TypeInv, IpcTypeOK
<1>2. UNCHANGED <<feedbacks, posted, process, output_open>>
  BY DEF Write, WriteLength, WriteBody, WriteFails, queues, flags, history, pipes
<1>3. QueueInOrder'
  BY <1>2 DEF FeedbackInv, QueueInOrder
<1>4. After[c] \notin {"length", "body"}
  BY DEF After, Coroutine
<1>5. CASE WriteLength(c)
  <2> DEFINE e == [part |-> "length", of |-> writing[c]]
  <2>1. /\ output' = Append(output, e) /\ UNCHANGED writing
        /\ at' = [at EXCEPT ![c] = "body"] /\ at[c] = "length"
    BY <1>5 DEF WriteLength
  <2>2. e \in S /\ e.part # "body"
    BY <1>1
  <2> HIDE DEF e, S
  <2>3. UNCHANGED <<Bodies, Delivered>> /\ \A i \in Bodies : output'[i] = output[i]
    BY <1>1, <2>1, <2>2, OutputGrows
  <2>4. EventsWrites'
    BY <1>1, <1>2, <2>1 DEF FeedbackInv, EventsWrites
  <2>5. UNCHANGED Waiting
    BY <1>2, <2>1 DEF Waiting
  <2>6. DeliveredFirst'
    <3>1. posted - Waiting \in Int /\ posted' - Waiting' = posted - Waiting
      BY <1>1, <1>2, <2>5
    <3> QED BY <1>2, <2>3, <3>1, NothingDelivered DEF FeedbackInv
  <2> QED BY <1>3, <2>4, <2>6 DEF FeedbackInv
<1>6. CASE WriteBody(c) \/ WriteFails(c)
  <2>1. /\ at' = [at EXCEPT ![c] = After[c]]
        /\ writing' = [writing EXCEPT ![c] = NoMessage]
    BY <1>6 DEF WriteBody, WriteFails
  <2>2. EventsWrites'
    BY <1>1, <1>2, <1>4, <2>1 DEF FeedbackInv, EventsWrites, Feedback, NoMessage
  <2>3. /\ c = "events" => Waiting' = Waiting - 1 /\ writing[c] = posted - Waiting + 1
        /\ c # "events" => Waiting' = Waiting
    BY <1>1, <1>2, <2>1 DEF FeedbackInv, EventsWrites, Waiting, Coroutine
  <2>4. CASE WriteFails(c)
    <3>1. UNCHANGED output /\ ~output_open
      BY <2>4 DEF WriteFails, pipes
    <3>2. UNCHANGED <<Bodies, Delivered>>
      BY <3>1 DEF Bodies, Delivered
    <3>3. /\ posted - Waiting \in Int /\ posted' - Waiting' \in Int
          /\ posted' - Waiting' >= posted - Waiting
      <4>1. posted' = posted /\ (Waiting' = Waiting \/ Waiting' = Waiting - 1)
        BY <1>2, <2>3
      <4>2. posted \in Nat /\ posted' \in Nat /\ Waiting \in Nat /\ Waiting' \in Nat
        BY <1>1
      <4>3. posted - Waiting \in Int /\ posted' - Waiting' \in Int
        BY <4>2
      <4>4. CASE Waiting' = Waiting
        BY <4>1, <4>2, <4>4
      <4>5. CASE Waiting' = Waiting - 1
        BY <4>1, <4>2, <4>5
      <4> QED BY <4>1, <4>3, <4>4, <4>5
    <3>4. DeliveredFirst
      BY DEF FeedbackInv
    <3>5. /\ ~output_open' /\ (output_open' => output_open)
          /\ process' = "running" => process = "running"
          /\ \A i \in Bodies : output'[i] = output[i]
      BY <1>2, <3>1
    <3>6. DeliveredFirst'
      BY <1>1, <3>2, <3>3, <3>4, <3>5, NothingDelivered
    <3> QED BY <1>3, <2>2, <3>6 DEF FeedbackInv
  <2>5. CASE WriteBody(c)
    <3> DEFINE e == [part |-> "body", of |-> writing[c]]
    <3>1. /\ output' = Append(output, e) /\ output_open /\ process = "running"
      BY <2>5 DEF WriteBody
    <3>2. e \in S /\ e.part = "body" /\ e.of = writing[c]
      BY <1>1
    <3> HIDE DEF e, S
    <3>3. CASE c # "events"
      <4>1. writing[c] \notin Feedback
        BY <3>3 DEF FeedbackInv, EventsWrites
      <4>2. UNCHANGED <<Bodies, Delivered>> /\ \A i \in Bodies : output'[i] = output[i]
        BY <1>1, <3>1, <3>2, <4>1, OutputGrows
      <4>3. DeliveredFirst'
        <5>1. posted - Waiting \in Int /\ posted' - Waiting' = posted - Waiting
          BY <1>1, <1>2, <2>3, <3>3
        <5> QED BY <1>2, <4>2, <5>1, NothingDelivered DEF FeedbackInv
      <4> QED BY <1>3, <2>2, <4>3 DEF FeedbackInv
    <3>4. CASE c = "events"
      <4>1. writing[c] \in Feedback
        BY <1>1, <3>4 DEF FeedbackInv, EventsWrites
      <4>2. PICK k \in Nat : Delivered = 1 .. k /\ k = posted - Waiting
        BY <3>1 DEF FeedbackInv, DeliveredFirst
      <4>3. /\ Bodies' = Bodies \cup {Len(output) + 1}
            /\ Delivered' = Delivered \cup {writing[c]}
            /\ \A i \in Bodies : i < Len(output) + 1 /\ output'[i] = output[i]
            /\ output'[Len(output) + 1].of = writing[c]
        BY <1>1, <3>1, <3>2, <4>1, OutputGrows
      <4>4. writing[c] = k + 1
        BY <2>3, <3>4, <4>2
      <4>5. Delivered' = 1 .. k + 1 /\ k + 1 = posted' - Waiting' /\ k + 1 \in Nat
        BY <1>1, <1>2, <2>3, <3>4, <4>2, <4>3, <4>4
      <4>6. \A i, j \in Bodies' : i < j => output'[i].of < output'[j].of
        <5>1. \A i \in Bodies : output[i].of \in 1 .. k
          BY <4>2 DEF Delivered
        <5>2. \A i \in Bodies : output'[i].of < k + 1 /\ i \in Nat
          BY <1>1, <4>3, <5>1 DEF Bodies
        <5>3. \A i, j \in Bodies : i < j => output'[i].of < output'[j].of
          BY <4>3 DEF FeedbackInv, DeliveredFirst
        <5>4. Len(output) \in Nat /\ ~(Len(output) + 1 < Len(output) + 1)
          BY <1>1
        <5>5. \A i \in Bodies : ~(Len(output) + 1 < i)
          BY <4>3, <5>2, <5>4
        <5> QED BY <4>3, <4>4, <5>2, <5>3, <5>4, <5>5
      <4>7. DeliveredFirst'
        BY <4>5, <4>6 DEF DeliveredFirst
      <4> QED BY <1>3, <2>2, <4>7 DEF FeedbackInv
    <3> QED BY <3>3, <3>4
  <2> QED BY <1>6, <2>4, <2>5
<1> QED BY <1>5, <1>6 DEF Write


\* Who does not write, post or take a feedback only ends the process or the pipe.
LEMMA OthersKeep ==
  ASSUME FeedbackInv, TypeInv, UNCHANGED <<output, feedbacks, posted>>,
         writing'["events"] = writing["events"],
         at'["events"] \in {"length", "body"} <=> at["events"] \in {"length", "body"},
         \A c \in Coroutine \ {"events"} : writing'[c] \notin Feedback,
         output_open' => output_open, process' = "running" => process = "running"
  PROVE  FeedbackInv'
<1>1. QueueInOrder'
  BY DEF FeedbackInv, QueueInOrder
<1>2. EventsWrites'
  BY DEF FeedbackInv, EventsWrites
<1>3. UNCHANGED <<Bodies, Delivered, Waiting>>
  BY DEF Bodies, Delivered, Waiting
<1>4. posted \in Nat /\ Waiting \in Nat
  BY WaitingType
<1>5. posted - Waiting \in Int /\ posted' - Waiting' = posted - Waiting
  BY <1>3, <1>4
<1>6. posted' - Waiting' >= posted - Waiting
  BY <1>5
<1>7. DeliveredFirst
  BY DEF FeedbackInv
<1>8. DeliveredFirst'
  BY <1>3, <1>5, <1>6, <1>7, NothingDelivered
<1> QED BY <1>1, <1>2, <1>8 DEF FeedbackInv

\* The greeting and the reply to what is no JSON are no feedbacks.
LEMMA OtherSends ==
  ASSUME FeedbackInv, TypeInv, UNCHANGED <<output, output_open, feedbacks, posted>>,
         NEW c \in Coroutine \ {"events"}, NEW m, m \notin Feedback,
         process = "running", SendMessage(c, m)
  PROVE  FeedbackInv'
<1>1. DOMAIN at = Coroutine /\ writing \in [Coroutine -> Message \cup {NoMessage}]
      /\ "events" \in Coroutine
  BY DEF TypeInv, IpcTypeOK, Coroutine
<1>2. \A d \in Coroutine \ {"events"} : writing[d] \notin Feedback
  BY DEF FeedbackInv, EventsWrites
<1>3. /\ writing'["events"] = writing["events"] /\ at'["events"] = at["events"]
      /\ \A d \in Coroutine \ {"events"} : writing'[d] \notin Feedback
  BY <1>1, <1>2 DEF SendMessage, writers
<1> QED BY <1>3, OthersKeep

\* The event loop takes the feedback that was posted first.
LEMMA PollKeeps ==
  ASSUME FeedbackInv, TypeInv, TypeInv', EventsPoll
  PROVE  FeedbackInv'
<1>1. /\ UNCHANGED <<output, output_open, posted>> /\ at["events"] = "wait"
      /\ process = "running"
  BY DEF EventsPoll, pipes, history
<1>2. /\ DOMAIN at = Coroutine /\ writing \in [Coroutine -> Message \cup {NoMessage}]
      /\ "events" \in Coroutine /\ feedbacks \in Seq(1 .. posted)
      /\ posted \in 1 .. MaxFeedbacks
  BY DEF TypeInv, IpcTypeOK, Coroutine
<1>3. /\ writing["events"] = NoMessage
      /\ \A c \in Coroutine \ {"events"} : writing[c] \notin Feedback
  BY <1>1 DEF FeedbackInv, EventsWrites
<1>4. CASE feedbacks = <<>>
  <2>1. /\ UNCHANGED <<process, writing, feedbacks>>
        /\ at' = [at EXCEPT !["events"] = LoopOrLeave]
    BY <1>4 DEF EventsPoll
  <2>2. at'["events"] \notin {"length", "body"}
    BY <1>2, <2>1 DEF LoopOrLeave
  <2> QED BY <1>1, <1>3, <2>1, <2>2, OthersKeep
<1>5. CASE feedbacks # <<>>
  <2> DEFINE n == Len(feedbacks)
  <2>1. feedbacks' = Tail(feedbacks) /\ SendMessage("events", Head(feedbacks))
    BY <1>5 DEF EventsPoll
  <2>2. /\ n \in Nat /\ n >= 1 /\ Len(feedbacks') = n - 1 /\ Head(feedbacks) = feedbacks[1]
        /\ Head(feedbacks) \in 1 .. posted
        /\ \A i \in 1 .. n - 1 : feedbacks'[i] = feedbacks[i + 1] /\ i + 1 \in 1 .. n
    BY <1>2, <1>5, <2>1
  <2> HIDE DEF n
  <2>3. /\ n <= posted /\ \A i \in 1 .. n : feedbacks[i] = posted - n + i
    BY DEF FeedbackInv, QueueInOrder, n
  <2>4. Head(feedbacks) = posted - (n - 1) /\ Head(feedbacks) \in Feedback
        /\ Head(feedbacks) # NoMessage
    BY <1>2, <2>2, <2>3, BoundsOK DEF Feedback, NoMessage
  <2>5. /\ n - 1 <= posted
        /\ \A i \in 1 .. n - 1 : feedbacks'[i] = posted - (n - 1) + i
    BY <1>2, <2>2, <2>3
  <2>6. QueueInOrder'
    BY <1>1, <2>2, <2>5 DEF QueueInOrder
  <2>7. Waiting = n /\ posted \in Nat
    BY <1>2, <1>3 DEF Waiting, n
  <2>8. UNCHANGED <<Bodies, Delivered>>
    BY <1>1 DEF Bodies, Delivered
  <2>9. DeliveredFirst
    BY DEF FeedbackInv
  <2>10. CASE write_mutex = "none"
    <3>1. /\ at' = [at EXCEPT !["events"] = "length"] /\ UNCHANGED process
          /\ writing' = [writing EXCEPT !["events"] = Head(feedbacks)]
      BY <2>1, <2>10 DEF SendMessage
    <3>2. /\ at'["events"] = "length" /\ writing'["events"] = Head(feedbacks)
          /\ \A c \in Coroutine \ {"events"} : writing'[c] = writing[c]
      BY <1>2, <3>1
    <3>3. EventsWrites'
      BY <1>1, <1>3, <2>2, <2>4, <3>2 DEF EventsWrites
    <3>4. Waiting' = n
      BY <2>2, <2>4, <3>2 DEF Waiting
    <3>5. posted - Waiting \in Int /\ posted' - Waiting' = posted - Waiting
      BY <1>1, <2>2, <2>7, <3>4
    <3>6. posted' - Waiting' >= posted - Waiting
      BY <3>5
    <3>7. DeliveredFirst'
      BY <1>1, <2>8, <2>9, <3>1, <3>5, <3>6, NothingDelivered
    <3> QED BY <2>6, <3>3, <3>7 DEF FeedbackInv
  <2>11. CASE write_mutex # "none"
    <3>1. process' = "stuck" /\ UNCHANGED <<at, writing>>
      BY <2>1, <2>11 DEF SendMessage, writers
    <3>2. EventsWrites'
      BY <1>1, <1>3, <3>1 DEF EventsWrites
    <3>3. Waiting' = n - 1
      BY <1>3, <2>2, <3>1 DEF Waiting
    <3>4. /\ posted - Waiting \in Int /\ posted' - Waiting' \in Int
          /\ posted' - Waiting' >= posted - Waiting
      BY <1>1, <2>2, <2>7, <3>3
    <3>5. DeliveredFirst'
      BY <1>1, <2>8, <2>9, <3>1, <3>4, NothingDelivered
    <3> QED BY <2>6, <3>2, <3>5 DEF FeedbackInv
  <2> QED BY <2>10, <2>11
<1> QED BY <1>4, <1>5

LEMMA PostKeeps ==
  ASSUME FeedbackInv, TypeInv, PostFeedback
  PROVE  FeedbackInv'
<1> DEFINE n == Len(feedbacks)
<1>1. /\ UNCHANGED <<output, output_open, process, at, writing>>
      /\ posted' = posted + 1 /\ feedbacks' = Append(feedbacks, posted + 1)
  BY DEF PostFeedback, pipes, writers, flags
<1>2. feedbacks \in Seq(1 .. posted) /\ posted \in Nat
  BY DEF TypeInv, IpcTypeOK
<1>3. /\ n \in Nat /\ Len(feedbacks') = n + 1 /\ feedbacks'[n + 1] = posted + 1
      /\ \A i \in 1 .. n : feedbacks'[i] = feedbacks[i]
  BY <1>1, <1>2
<1> HIDE DEF n
<1>4. n <= posted /\ \A i \in 1 .. n : feedbacks[i] = posted - n + i
  BY DEF FeedbackInv, QueueInOrder, n
<1>5. n + 1 <= posted + 1
  BY <1>2, <1>3, <1>4
<1>6. \A i \in 1 .. n + 1 : feedbacks'[i] = (posted + 1) - (n + 1) + i
  BY <1>2, <1>3, <1>4
<1>7. QueueInOrder'
  BY <1>1, <1>3, <1>5, <1>6 DEF QueueInOrder
<1>8. posted - n = (posted + 1) - (n + 1)
  BY <1>2, <1>3
<1>9. EventsWrites'
  BY <1>1, <1>3, <1>8 DEF FeedbackInv, EventsWrites, n
<1>10. Waiting \in Nat /\ Waiting' = Waiting + 1
  BY <1>1, <1>3, WaitingType DEF Waiting, n
<1>11. posted - Waiting \in Int /\ posted' - Waiting' = posted - Waiting
  BY <1>1, <1>2, <1>10
<1>12. posted' - Waiting' >= posted - Waiting
  BY <1>11
<1>13. UNCHANGED <<Bodies, Delivered>> /\ DeliveredFirst
  BY <1>1 DEF Bodies, Delivered, FeedbackInv
<1>14. DeliveredFirst'
  BY <1>1, <1>11, <1>12, <1>13, NothingDelivered
<1> QED BY <1>7, <1>9, <1>14 DEF FeedbackInv


LEMMA FeedbackStep ==
  FeedbackInv /\ TypeInv /\ TypeInv' /\ [IpcNext]_ivars => FeedbackInv'
<1> SUFFICES ASSUME FeedbackInv, TypeInv, TypeInv', [IpcNext]_ivars PROVE FeedbackInv'
  OBVIOUS
<1>1. \A c \in Coroutine \ {"events"} : writing[c] \notin Feedback
  BY DEF FeedbackInv, EventsWrites
<1>2. /\ "greeting" \in Coroutine \ {"events"} /\ "reader" \in Coroutine \ {"events"}
      /\ Greeting \notin Feedback /\ ErrorReply \notin Feedback
  BY BoundsOK DEF Coroutine, Greeting, ErrorReply, Feedback
<1>3. CASE Greet
  <2>1. /\ SendMessage("greeting", Greeting) /\ process = "running"
        /\ UNCHANGED <<output, output_open, feedbacks, posted>>
    BY <1>3 DEF Greet, pipes, queues, history
  <2> QED BY <1>2, <2>1, OtherSends
<1>4. CASE ReadMessage
  <2>1. process = "running" /\ UNCHANGED <<output, output_open, feedbacks, posted>>
    BY <1>4 DEF ReadMessage
  <2>2. CASE Head(input).type = "no JSON"
    <3>1. SendMessage("reader", ErrorReply)
      BY <1>4, <2>2 DEF ReadMessage
    <3> QED BY <1>2, <2>1, <3>1, OtherSends
  <2>3. CASE Head(input).type # "no JSON"
    <3>1. UNCHANGED <<at, writing, process>>
      BY <1>4, <2>3 DEF ReadMessage, writers
    <3> QED BY <1>1, <2>1, <3>1, OthersKeep
  <2> QED BY <2>2, <2>3
<1>5. CASE ReadClosed
  <2>1. /\ UNCHANGED <<output, output_open, feedbacks, posted, writing, process>>
        /\ at' = [at EXCEPT !["reader"] = "done"]
    BY <1>5 DEF ReadClosed, pipes, queues, history
  <2>2. at'["events"] = at["events"]
    BY <2>1 DEF TypeInv, Coroutine
  <2> QED BY <1>1, <2>1, <2>2, OthersKeep
<1>6. CASE EventsPoll
  BY <1>6, PollKeeps
<1>7. CASE EventsPause
  <2>1. /\ UNCHANGED <<output, output_open, feedbacks, posted, writing, process>>
        /\ at["events"] = "pause" /\ at' = [at EXCEPT !["events"] = LoopOrLeave]
    BY <1>7 DEF EventsPause, pipes, queues, flags, history
  <2>2. at'["events"] \notin {"length", "body"}
    BY <2>1 DEF TypeInv, Coroutine, LoopOrLeave
  <2> QED BY <1>1, <2>1, <2>2, OthersKeep
<1>8. ASSUME NEW c \in Coroutine, Write(c) PROVE FeedbackInv'
  BY <1>8, WritePartKeeps
<1>9. CASE PostFeedback
  BY <1>9, PostKeeps
<1>10. CASE Dispatch \/ SaveConfig
  <2>1. /\ UNCHANGED <<output, output_open, feedbacks, posted, writing, at>>
        /\ process' = "running" => process = "running"
    BY <1>10 DEF Dispatch, SaveConfig, pipes, writers, queues, history
  <2> QED BY <1>1, <2>1, OthersKeep
<1>11. CASE FrontendCloses
  <2>1. UNCHANGED <<output, feedbacks, posted, writing, at, process>>
    BY <1>11 DEF FrontendCloses, writers, queues, flags, history
  <2>2. output_open' => output_open
    BY <1>11, Zenon DEF FrontendCloses
  <2> QED BY <1>1, <2>1, <2>2, OthersKeep
<1>12. CASE BackendIdles \/ PollSlots \/ sendToBackend \/ Drain \/ Ended \/ UNCHANGED ivars
  <2>1. UNCHANGED <<output, output_open, feedbacks, posted, writing, at, process>>
    BY <1>12 DEF BackendIdles, PollSlots, sendToBackend, Drain, Ended, ivars, pipes,
       writers, queues, flags, history
  <2> QED BY <1>1, <2>1, OthersKeep
<1> QED BY <1>3, <1>4, <1>5, <1>6, <1>7, <1>8, <1>9, <1>10, <1>11, <1>12
        DEF IpcNext, Reads, Events

\* Feedbacks reach the frontend once each and in the order they were posted, and
\* none is passed over while the pipe and the thread are alive.
THEOREM FeedbacksArriveInOrder == IpcSpec => []FeedbacksInOrder
<1>1. FeedbackInv => FeedbacksInOrder
  <2> SUFFICES ASSUME FeedbackInv PROVE FeedbacksInOrder
    OBVIOUS
  <2>1. PICK k \in Nat : /\ Delivered = 1 .. k
                         /\ output_open /\ process = "running" => k = posted - Waiting
    BY DEF FeedbackInv, DeliveredFirst
  <2>2. \A n \in Delivered : 1 .. n \subseteq Delivered
    BY <2>1
  <2>3. output_open /\ process = "running" => Delivered = 1 .. posted - Waiting
    BY <2>1, Zenon
  <2>4. \A i, j \in Bodies : i < j => output[i].of < output[j].of
    BY DEF FeedbackInv, DeliveredFirst
  <2> QED BY <2>2, <2>3, <2>4 DEF FeedbacksInOrder
<1> QED BY <1>1, FeedbackInit, FeedbackStep, TypeInit, TypeStep, PTL DEF IpcSpec
===============================================================================
