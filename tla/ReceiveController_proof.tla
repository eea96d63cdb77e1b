----------------------- MODULE ReceiveController_proof -----------------------
(***************************************************************************)
(* Machine-checked proof that IInv is an invariant of the receive          *)
(* controller for every set of senders, every finite set of files, every   *)
(* number of chunks and every bound on the requests, with and without a    *)
(* wait condition, and the safety properties that follow from it.          *)
(***************************************************************************)
EXTENDS ReceiveController, FiniteSetTheorems, TLAPS

\* The type invariant holds before the first request.
LEMMA TypesAtStart == Init => TypeOK
<1> SUFFICES ASSUME Init PROVE TypeOK
  OBVIOUS
<1>1. MaxRequests \in Nat /\ 0 \in 0 .. MaxRequests
  BY ConstantsOK, ChunksOK
<1>2. /\ received_chunks \in [File -> SUBSET Nat]
      /\ contents \in [File -> SUBSET Nat]
      /\ waiting \in [Sender -> 0 .. MaxRequests]
      /\ accepted \in [1 .. MaxRequests -> SUBSET File]
      /\ outcome \in [1 .. MaxRequests -> Outcomes]
  BY <1>1 DEF Init, Outcomes
<1> QED BY <1>1, <1>2 DEF Init, TypeOK, NoSender

\* The invariant holds before the first request.
LEMMA IInvInit == Init => IInv
<1> SUFFICES ASSUME Init PROVE IInv
  OBVIOUS
<1>1. TypeOK
  BY TypesAtStart
<1>2. completed_file_count = Cardinality(received_files \cap saved)
  <2>1. received_files \cap saved = {}
    BY DEF Init
  <2> QED BY <2>1, FS_EmptySet DEF Init
<1>3. SavedIsCounted /\ SavedOnce
  BY FS_EmptySet DEF Init, SavedIsCounted, SavedOnce
<1> QED BY <1>1, <1>2, <1>3
     DEF Init, IInv, SessionShape, FreshFiles, CountMatchesSaved,
         SuccessMeansSaved, OpenSessionHasWork, BusyHasCause, OneOpenSession

\* Whatever ends the session or the wait in progress keeps the invariant, if
\* success is only claimed for files that are all saved.  present is what is
\* on disk when the cleanup runs: a .part file of the session may have been
\* created or renamed in the same step.
LEMMA ResetKeeps ==
  ASSUME IInv, NEW present \in SUBSET File, NEW how \in Outcomes \ {"none", "open"},
         present \subseteq parts \cup received_files,
         resetToIdle(present), EndSession(how),
         saved \subseteq saved', saved' \subseteq saved \cup received_files,
         how = "completed" => session_id = 0 \/ received_files \subseteq saved',
         contents' = contents, requests' = requests, accepted' = accepted,
         waiting' \in [Sender -> 0 .. MaxRequests],
         confirm_receive' \in Answers \cup {"empty"}, cancel_receive' \in BOOLEAN,
         answered' \in 0 .. MaxRequests, UNCHANGED wait_condition
  PROVE  IInv'
<1> USE DEF IInv
<1>1. parts' \subseteq present
  BY DEF resetToIdle, doCleanup
<1>2. outcome' \in [1 .. MaxRequests -> Outcomes]
  BY DEF EndSession, TypeOK
<1>3. TypeOK'
  <2>1. received_chunks' \in [File -> SUBSET Nat]
    BY DEF resetToIdle
  <2>2. 0 \in 0 .. MaxRequests
    BY ConstantsOK, ChunksOK
  <2>3. parts' \subseteq File /\ saved' \subseteq File
    BY <1>1 DEF TypeOK
  <2> QED BY <1>2, <2>1, <2>2, <2>3 DEF TypeOK, resetToIdle, NoSender
<1>4. SessionShape' /\ OpenSessionHasWork' /\ BusyHasCause'
  BY DEF resetToIdle, SessionShape, OpenSessionHasWork, BusyHasCause
<1>5. FreshFiles'
  <2>1. session_id # 0 => session_id <= requests /\ session_id \in 1 .. MaxRequests
                          /\ accepted[session_id] = received_files
    BY DEF SessionShape, TypeOK
  <2>2. ASSUME NEW f \in received_files
        PROVE  \E n \in DOMAIN accepted : f \in accepted[n]
    BY <2>1, <2>2 DEF SessionShape, TypeOK
  <2>3. \A f \in parts' \cup saved' : \E n \in DOMAIN accepted' : f \in accepted'[n]
    BY <1>1, <2>2 DEF FreshFiles
  <2>4. ASSUME NEW n \in DOMAIN accepted, n > requests
        PROVE  accepted[n] = {} /\ outcome'[n] = "none"
    BY <2>1, <2>4 DEF FreshFiles, EndSession, TypeOK
  <2> QED BY <2>3, <2>4 DEF FreshFiles
<1>6. SavedIsCounted' /\ SavedOnce'
  BY FS_EmptySet DEF SavedIsCounted, SavedOnce, resetToIdle
<1>7. CountMatchesSaved'
  <2>1. received_files' = {} /\ completed_file_count' = 0
    BY DEF resetToIdle
  <2>2. (received_files \cap saved)' = {}
    BY <2>1
  <2> QED BY <2>1, <2>2, FS_EmptySet DEF CountMatchesSaved
<1>8. SuccessMeansSaved'
  BY DEF SuccessMeansSaved, EndSession, SessionShape, TypeOK
<1>9. OneOpenSession'
  BY DEF OneOpenSession, EndSession, resetToIdle, TypeOK
<1> QED BY <1>3, <1>4, <1>5, <1>6, <1>7, <1>8, <1>9

\* A reset that saves nothing: every way to end a session but its success.
LEMMA PlainResetKeeps ==
  ASSUME IInv, NEW how \in Outcomes \ {"none", "open", "completed"},
         resetToIdle(parts), EndSession(how),
         UNCHANGED <<contents, saved, requests, accepted>>,
         waiting' \in [Sender -> 0 .. MaxRequests],
         confirm_receive' \in Answers \cup {"empty"}, cancel_receive' \in BOOLEAN,
         UNCHANGED <<answered, wait_condition>>
  PROVE  IInv'
<1>1. parts \in SUBSET File /\ answered' \in 0 .. MaxRequests
  BY DEF IInv, TypeOK
<1> QED BY <1>1, ResetKeeps

\* Steps that change only the stream and the coroutines keep it too, as long
\* as a busy receiver keeps a cause.
LEMMA StreamKeeps ==
  ASSUME IInv, UNCHANGED <<session, disk, requests, accepted, outcome, waiting>>,
         confirm_receive' \in Answers \cup {"empty"}, cancel_receive' \in BOOLEAN,
         answered' \in 0 .. MaxRequests, UNCHANGED wait_condition
  PROVE  IInv'
  BY DEF IInv, TypeOK, session, disk, SessionShape, FreshFiles, SavedIsCounted,
         SavedOnce, CountMatchesSaved, SuccessMeansSaved,
         OpenSessionHasWork, BusyHasCause, OneOpenSession, IsComplete

\* A stuttering step changes nothing the invariant speaks of.
LEMMA StutterKeeps == ASSUME IInv, UNCHANGED vars PROVE IInv'
  BY DEF IInv, TypeOK, vars, session, stream, disk, SessionShape, FreshFiles,
         SavedIsCounted, SavedOnce, CountMatchesSaved,
         SuccessMeansSaved, OpenSessionHasWork, BusyHasCause, OneOpenSession, IsComplete

-----------------------------------------------------------------------------
\* The handlers, one lemma each.

\* The catch block of request-send, which only an idle receiver comes to: there
\* is nothing to reset.
LEMMA ThrowingRequestKeeps ==
  ASSUME IInv, session_status = "kIdle", requests < MaxRequests,
         requests' = requests + 1, resetToIdle(parts), EndSession("failed"),
         UNCHANGED <<stream, disk, waiting, accepted>>
  PROVE  IInv'
<1> USE DEF IInv
<1>1. /\ session_id = 0 /\ received_files = {} /\ completed_file_count = 0
      /\ UNCHANGED <<session_id, session_status, received_files,
                     completed_file_count, outcome>>
      /\ sender' = NoSender /\ received_chunks' = [f \in File |-> {}]
  BY DEF SessionShape, resetToIdle, EndSession
<1>2. requests' \in 0 .. MaxRequests
  BY ConstantsOK, ChunksOK DEF TypeOK
<1>3. TypeOK'
  <2>1. received_chunks' \in [File -> SUBSET Nat]
    BY <1>1
  <2> QED BY <1>1, <1>2, <2>1 DEF TypeOK, stream, disk
<1>4. SavedIsCounted' /\ SavedOnce'
  BY <1>1, FS_EmptySet DEF SavedIsCounted, SavedOnce
<1>5. FreshFiles'
  BY <1>1, ConstantsOK, ChunksOK DEF FreshFiles, TypeOK, disk
<1> QED BY <1>1, <1>3, <1>4, <1>5
     DEF disk, SessionShape, CountMatchesSaved, SuccessMeansSaved,
         OpenSessionHasWork, BusyHasCause, OneOpenSession

\* request-send: a fresh session starts with no chunk, no counter, no file of
\* an earlier session.
LEMMA RequestSendKeeps ==
  ASSUME IInv, NEW s \in Sender, NEW files \in SUBSET File, NEW body, NEW resp,
         onRequestSend(s, files, body, resp)
  PROVE  IInv'
<1> USE DEF IInv
<1>1. CASE body = "malformed" \/ session_status # "kIdle"
  BY <1>1, StutterKeeps DEF onRequestSend, vars
<1>2. CASE body = "throws" /\ session_status = "kIdle"
  <2>1. /\ requests < MaxRequests /\ requests' = requests + 1
        /\ resetToIdle(parts) /\ EndSession("failed")
        /\ UNCHANGED <<stream, disk, waiting, accepted>>
    BY <1>2 DEF onRequestSend
  <2> HIDE DEF IInv
  <2> QED BY <1>2, <2>1, ThrowingRequestKeeps
<1>3. CASE body = "good" /\ session_status = "kIdle"
  <2>1. /\ session_id = 0 /\ received_files = {} /\ completed_file_count = 0
        /\ requests' = requests + 1 /\ requests' \in 1 .. MaxRequests
        /\ requests' # requests
        /\ session_status' = "kWorking" /\ sender' = s
        /\ UNCHANGED <<stream, disk, completed_file_count>>
        /\ files \subseteq File
    <3>1. session_id = 0 /\ received_files = {} /\ completed_file_count = 0
      BY <1>3 DEF SessionShape
    <3>2. /\ requests < MaxRequests /\ requests' = requests + 1
          /\ session_status' = "kWorking" /\ sender' = s
          /\ UNCHANGED <<stream, disk, completed_file_count>>
      BY <1>3 DEF onRequestSend
    <3>3. requests' \in 1 .. MaxRequests /\ requests' # requests
      BY <3>2, ConstantsOK, ChunksOK DEF TypeOK
    <3>4. files \subseteq File
      OBVIOUS
    <3> HIDE DEF IInv
    <3> QED BY <3>1, <3>2, <3>3, <3>4
  <2>2. \A n \in 1 .. MaxRequests : files \cap accepted[n] = {}
    BY <1>3 DEF onRequestSend
  <2>3. files \cap (parts \cup saved) = {}
    BY <2>2 DEF FreshFiles, TypeOK
  <2>4. CASE wait_condition
    <3>1. /\ waiting' = [waiting EXCEPT ![s] = requests']
          /\ UNCHANGED <<session_id, received_files, received_chunks,
                         completed_file_count, accepted, outcome>>
      BY <1>3, <2>4 DEF onRequestSend
    <3>2. TypeOK'
      BY <2>1, <3>1 DEF TypeOK, stream, disk
    <3>3. BusyHasCause'
      BY <2>1, <3>1 DEF BusyHasCause, TypeOK
    <3> QED BY <2>1, <3>1, <3>2, <3>3
         DEF stream, disk, SessionShape, FreshFiles, SavedIsCounted, SavedOnce,
             CountMatchesSaved, SuccessMeansSaved,
             OpenSessionHasWork, OneOpenSession, IsComplete, TypeOK
  <2>5. CASE ~wait_condition
    <3>1. /\ session_id' = requests'
          /\ received_files' = files
          /\ received_chunks' = [f \in File |-> IF f \in files THEN {} ELSE received_chunks[f]]
          /\ accepted' = [accepted EXCEPT ![requests'] = files]
          /\ outcome' = [outcome EXCEPT ![requests'] = "open"]
          /\ UNCHANGED waiting
      BY <1>3, <2>1, <2>5 DEF onRequestSend
    <3>2. TypeOK'
      BY <2>1, <3>1 DEF TypeOK, stream, disk, Outcomes
    <3>3. SessionShape' /\ OpenSessionHasWork' /\ BusyHasCause'
      BY <2>1, <2>3, <3>1
         DEF SessionShape, OpenSessionHasWork, BusyHasCause, TypeOK, disk
    <3>4. FreshFiles'
      BY <2>1, <3>1 DEF FreshFiles, TypeOK, disk
    <3>5. SavedIsCounted' /\ SavedOnce'
      BY <2>1, <2>3, <3>1, FS_EmptySet DEF SavedIsCounted, SavedOnce, disk, TypeOK
    <3>6. CountMatchesSaved'
      <4>1. (received_files \cap saved)' = {}
        BY <2>1, <2>3, <3>1 DEF disk
      <4> QED BY <2>1, <4>1, FS_EmptySet DEF CountMatchesSaved
    <3>7. SuccessMeansSaved'
      BY <2>1, <3>1 DEF SuccessMeansSaved, TypeOK, disk
    <3>8. OneOpenSession'
      BY <2>1, <3>1 DEF OneOpenSession, TypeOK
    <3> QED BY <3>2, <3>3, <3>4, <3>5, <3>6, <3>7, <3>8
  <2> QED BY <2>4, <2>5, ConstantsOK, ChunksOK
<1> QED BY <1>1, <1>2, <1>3 DEF onRequestSend

\* The poll that ends a wait either finds an idle receiver or resets it.
LEMMA WaitPollKeeps ==
  ASSUME IInv, NEW s \in Sender, NEW resp, WaitPoll(s, resp)
  PROVE  IInv'
<1> USE DEF IInv
<1>1. waiting' \in [Sender -> 0 .. MaxRequests]
  <2>1. 0 \in 0 .. MaxRequests
    BY ConstantsOK, ChunksOK
  <2> QED BY <2>1 DEF WaitPoll, TypeOK
<1>2. CASE session_status # "kWorking"
  <2>1. UNCHANGED <<session, stream, disk, requests, accepted, outcome>>
    BY <1>2 DEF WaitPoll, stream, disk
  <2>2. TypeOK' /\ BusyHasCause'
    BY <1>1, <1>2, <2>1 DEF TypeOK, BusyHasCause, session, stream, disk
  <2> QED BY <2>1, <2>2
       DEF session, stream, disk, SessionShape, FreshFiles, SavedIsCounted,
           SavedOnce, CountMatchesSaved, SuccessMeansSaved,
           OpenSessionHasWork, OneOpenSession, IsComplete
<1>3. CASE session_status = "kWorking"
  <2>1. /\ resetToIdle(parts) /\ EndSession("failed")
        /\ confirm_receive' = "empty" /\ cancel_receive' = cancel_receive
        /\ UNCHANGED <<contents, saved, requests, accepted>>
        /\ UNCHANGED <<answered, wait_condition>>
    BY <1>3 DEF WaitPoll
  <2>2. cancel_receive' \in BOOLEAN
    BY <2>1 DEF TypeOK
  <2> QED BY <1>1, <2>1, <2>2, PlainResetKeeps DEF Outcomes
<1> QED BY <1>2, <1>3

\* A saved file of the session has more chunks recorded than were declared
\* once it has a .part file again.
LEMMA CountedIsOnce ==
  ASSUME TypeOK', SavedIsCounted'
  PROVE  SavedOnce'
<1> SUFFICES ASSUME NEW f \in (received_files \cap saved)', f \in parts'
             PROVE  ~IsComplete(f)'
  BY DEF SavedOnce
<1>1. f \in File /\ TotalChunks[f] \in Nat
  BY ChunksOK DEF TypeOK
<1>2. Cardinality(received_chunks'[f]) \in Nat
  BY <1>1, FS_CardinalityType DEF SavedIsCounted
<1> QED BY <1>1, <1>2 DEF SavedIsCounted, IsComplete

\* A chunk that passes every check is recorded as one more, in range or not.
LEMMA StoreChunkKeeps ==
  ASSUME IInv, NEW f \in received_files, NEW i \in Nat, NEW body,
         i \notin received_chunks[f], session_id # 0, StoreChunk(f, i, body),
         UNCHANGED <<waiting, stream, requests, accepted>>
  PROVE  IInv'
<1> USE DEF IInv
<1>1. f \in File /\ Place(i) \in Nat /\ TotalChunks[f] \in Nat
  BY ConstantsOK, ChunksOK DEF TypeOK, Place
<1>2. /\ parts' = parts \cup {f}
      /\ received_chunks' = [received_chunks EXCEPT ![f] = @ \cup {i}]
      /\ UNCHANGED <<session_id, session_status, received_files,
                     completed_file_count, sender, saved, outcome>>
  BY DEF StoreChunk
<1>3. contents' \in [File -> SUBSET Nat]
  <2>1. PICK places \in SUBSET Nat : contents' = [contents EXCEPT ![f] = places]
    BY <1>1 DEF StoreChunk, TypeOK
  <2> QED BY <2>1 DEF TypeOK
<1>4. TypeOK'
  BY <1>1, <1>2, <1>3 DEF TypeOK, stream
<1>5. SessionShape' /\ OpenSessionHasWork' /\ BusyHasCause' /\ OneOpenSession'
  BY <1>2 DEF SessionShape, OpenSessionHasWork, BusyHasCause, OneOpenSession
<1>6. FreshFiles'
  <2>1. session_id \in DOMAIN accepted /\ f \in accepted[session_id]
    BY DEF SessionShape, TypeOK
  <2> QED BY <1>2, <2>1 DEF FreshFiles
<1>7. SavedIsCounted'
  <2>1. /\ received_chunks'[f] = received_chunks[f] \cup {i}
        /\ \A g \in File \ {f} : received_chunks'[g] = received_chunks[g]
    BY <1>1, <1>2 DEF TypeOK
  <2>2. /\ IsFiniteSet(received_chunks'[f])
        /\ Cardinality(received_chunks'[f]) = Cardinality(received_chunks[f]) + 1
    <3>1. IsFiniteSet(received_chunks[f]) /\ i \notin received_chunks[f]
      BY <1>1 DEF SavedIsCounted
    <3>2. /\ IsFiniteSet(received_chunks[f] \cup {i})
          /\ Cardinality(received_chunks[f] \cup {i}) = Cardinality(received_chunks[f]) + 1
      BY <3>1, FS_AddElement
    <3> QED BY <2>1, <3>2
  <2>3. Cardinality(received_chunks[f]) \in Nat
    BY <1>1, FS_CardinalityType DEF SavedIsCounted
  <2>4. f \in saved => Cardinality(received_chunks'[f]) > TotalChunks[f]
    BY <1>1, <2>2, <2>3 DEF SavedIsCounted
  <2>5. \A g \in File : IsFiniteSet(received_chunks'[g])
    BY <2>1, <2>2 DEF SavedIsCounted
  <2>6. ASSUME NEW g \in received_files' \cap saved'
        PROVE  /\ Cardinality(received_chunks'[g]) >= TotalChunks[g]
               /\ g \in parts' => Cardinality(received_chunks'[g]) > TotalChunks[g]
    <3>1. g \in File /\ g \in received_files \cap saved
      BY <1>2, <2>6 DEF TypeOK
    <3>2. CASE g = f
      BY <1>1, <2>2, <2>3, <2>4, <3>1, <3>2
    <3>3. CASE g # f
      BY <1>2, <2>1, <3>1, <3>3 DEF SavedIsCounted
    <3> QED BY <3>2, <3>3
  <2> QED BY <2>5, <2>6 DEF SavedIsCounted
<1>8. SavedOnce'
  BY <1>4, <1>7, CountedIsOnce
<1>9. CountMatchesSaved' /\ SuccessMeansSaved'
  BY <1>2 DEF CountMatchesSaved, SuccessMeansSaved
<1> QED BY <1>4, <1>5, <1>6, <1>7, <1>8, <1>9

\* The counter after one more file, and what it says about the session.
LEMMA CountAfterSave ==
  ASSUME IInv, NEW f \in received_files, f \notin saved
  PROVE  /\ completed_file_count + 1 = Cardinality(received_files \cap (saved \cup {f}))
         /\ AllFilesCompleted(completed_file_count + 1)
              <=> received_files \subseteq saved \cup {f}
<1> DEFINE done == received_files \cap saved
           next == received_files \cap (saved \cup {f})
<1>1. IsFiniteSet(received_files)
  <2>1. IsFiniteSet(File) /\ received_files \in SUBSET File
    BY ConstantsOK, ChunksOK DEF IInv, TypeOK
  <2> QED BY <2>1, FS_Subset
<1>2. IsFiniteSet(done)
  <2>1. done \in SUBSET received_files
    OBVIOUS
  <2> QED BY <1>1, <2>1, FS_Subset
<1>3. next = done \cup {f} /\ f \notin done /\ next \in SUBSET received_files
  OBVIOUS
<1>4. Cardinality(next) = Cardinality(done) + 1
  BY <1>2, <1>3, FS_AddElement
<1>5. completed_file_count = Cardinality(done)
  BY DEF IInv, CountMatchesSaved
<1>6. Cardinality(received_files) = Cardinality(next) => received_files = next
  BY <1>1, <1>3, FS_Subset
<1>7. received_files # {}
  OBVIOUS
<1>8. received_files \subseteq saved \cup {f} <=> received_files = next
  OBVIOUS
<1>9. completed_file_count + 1 = Cardinality(next)
  BY <1>4, <1>5
<1>10. AllFilesCompleted(completed_file_count + 1)
         <=> completed_file_count + 1 = Cardinality(received_files)
  BY <1>7 DEF AllFilesCompleted
<1> HIDE DEF next, done
<1>11. AllFilesCompleted(completed_file_count + 1) <=> received_files = next
  BY <1>6, <1>9, <1>10
<1> QED BY <1>8, <1>9, <1>11 DEF next

\* A verified file is saved once, and the session ends with its last file.
LEMMA SaveFileKeeps ==
  ASSUME IInv, NEW f \in received_files, IsComplete(f), ChecksumMatches(f),
         session_id # 0, SaveFile(f),
         UNCHANGED <<waiting, stream, requests, accepted>>
  PROVE  f \notin saved /\ IInv'
<1>1. f \in File /\ f \in parts /\ f \notin saved
  BY DEF IInv, TypeOK, ChecksumMatches, SavedOnce
<1>2. saved' = saved \cup {f} /\ contents' = contents
  BY DEF SaveFile
<1>4. CASE AllFilesCompleted(completed_file_count + 1)
  <2>1. resetToIdle(parts \ {f}) /\ EndSession("completed")
    BY <1>4 DEF SaveFile
  <2>2. received_files \subseteq saved'
    BY <1>1, <1>2, <1>4, CountAfterSave
  <2>3. /\ parts \ {f} \in SUBSET File
        /\ parts \ {f} \subseteq parts \cup received_files
    BY DEF IInv, TypeOK
  <2>4. /\ waiting' \in [Sender -> 0 .. MaxRequests]
        /\ confirm_receive' \in Answers \cup {"empty"}
        /\ cancel_receive' \in BOOLEAN
        /\ answered' \in 0 .. MaxRequests /\ UNCHANGED wait_condition
    BY DEF IInv, TypeOK, stream
  <2>5. saved \subseteq saved' /\ saved' \subseteq saved \cup received_files
    BY <1>2
  <2>6. "completed" \in Outcomes \ {"none", "open"}
    BY DEF Outcomes
  <2> QED BY <1>1, <1>2, <2>1, <2>2, <2>3, <2>4, <2>5, <2>6, ResetKeeps
<1>5. CASE ~AllFilesCompleted(completed_file_count + 1)
  <2>1. /\ parts' = parts \ {f}
        /\ completed_file_count' = completed_file_count + 1
        /\ UNCHANGED <<session_id, session_status, received_files,
                       received_chunks, sender, outcome>>
    BY <1>5 DEF SaveFile
  <2>2. ~(received_files \subseteq saved')
    BY <1>1, <1>2, <1>5, CountAfterSave
  <2>3. CountMatchesSaved'
    BY <1>1, <1>2, <2>1, CountAfterSave DEF CountMatchesSaved
  <2> USE DEF IInv
  <2>4. TypeOK'
    BY <1>1, <1>2, <2>1 DEF TypeOK, stream
  <2>5. SessionShape' /\ BusyHasCause' /\ OneOpenSession' /\ OpenSessionHasWork'
    BY <2>1, <2>2
       DEF SessionShape, BusyHasCause, OneOpenSession, OpenSessionHasWork
  <2>6. FreshFiles'
    BY <1>1, <1>2, <2>1 DEF FreshFiles
  <2>7. SavedIsCounted'
    <3>1. Cardinality(received_chunks[f]) = TotalChunks[f] /\ TotalChunks[f] \in Nat
      BY <1>1, ChunksOK DEF IsComplete
    <3> QED BY <1>2, <2>1, <3>1 DEF SavedIsCounted
  <2>8. SavedOnce' /\ SuccessMeansSaved'
    BY <1>2, <2>1 DEF SavedOnce, SuccessMeansSaved, IsComplete
  <2> QED BY <1>1, <2>3, <2>4, <2>5, <2>6, <2>7, <2>8
<1> QED BY <1>1, <1>4, <1>5

\* The refusals and the catch block shared by send-chunk and verify-integrity.
LEMMA ReceiverCancelsKeeps ==
  ASSUME IInv, NEW resp, ReceiverCancels(resp)
  PROVE  IInv'
<1>1. /\ resetToIdle(parts) /\ EndSession("cancelled_by_receiver")
      /\ UNCHANGED <<contents, saved, requests, accepted>>
      /\ UNCHANGED <<answered, wait_condition>>
      /\ cancel_receive' = FALSE
      /\ UNCHANGED <<waiting, confirm_receive>>
  BY DEF ReceiverCancels
<1>2. /\ waiting' \in [Sender -> 0 .. MaxRequests]
      /\ confirm_receive' \in Answers \cup {"empty"}
      /\ cancel_receive' \in BOOLEAN
  BY <1>1 DEF IInv, TypeOK
<1> QED BY <1>1, <1>2, PlainResetKeeps DEF Outcomes

\* The catch block that resets the session after a throw, with or without a
\* .part file just created.
LEMMA ThrowKeeps ==
  ASSUME IInv, NEW present \in SUBSET File, NEW resp, FailSession(present, resp),
         present \subseteq parts \cup received_files,
         UNCHANGED <<waiting, stream, requests, accepted>>
  PROVE  IInv'
<1>1. resetToIdle(present) /\ EndSession("failed") /\ UNCHANGED <<contents, saved>>
  BY DEF FailSession
<1>3. /\ waiting' \in [Sender -> 0 .. MaxRequests]
      /\ confirm_receive' \in Answers \cup {"empty"}
      /\ cancel_receive' \in BOOLEAN
      /\ answered' \in 0 .. MaxRequests /\ UNCHANGED wait_condition
  BY DEF IInv, TypeOK, stream
<1>4. "failed" \in Outcomes \ {"none", "open"} /\ "failed" # "completed"
  BY DEF Outcomes
<1> QED BY <1>1, <1>3, <1>4, ResetKeeps

\* send-chunk: refused, thrown out, answered as a duplicate, or stored.
LEMMA SendChunkKeeps ==
  ASSUME IInv, NEW sid, NEW token, NEW f \in File, NEW i \in Nat,
         NEW body, NEW resp,
         onSendChunk(sid, token, f, i, body, resp)
  PROVE  IInv'
<1>1. CASE RefuseIdle(resp)
  BY <1>1, StutterKeeps DEF RefuseIdle
<1>2. CASE ReceiverCancels(resp)
  BY <1>2, ReceiverCancelsKeeps
<1>3. CASE ~RefuseIdle(resp) /\ ~ReceiverCancels(resp)
  <2>1. UNCHANGED <<waiting, stream, requests, accepted>>
    BY <1>3 DEF onSendChunk
  <2>2. CASE UNCHANGED <<session, disk, outcome>>
    BY <2>1, <2>2, StutterKeeps DEF vars
  <2>3. CASE FailSession(parts, resp)
    <3>1. parts \in SUBSET File
      BY DEF IInv, TypeOK
    <3> QED BY <2>1, <2>3, <3>1, ThrowKeeps
  <2>4. CASE /\ IsValid(sid, token, f) /\ i \notin received_chunks[f]
             /\ FailSession(parts \cup {f}, resp)
    <3>1. f \in received_files
      BY <2>4 DEF IsValid
    <3>2. parts \cup {f} \in SUBSET File
      BY <3>1 DEF IInv, TypeOK
    <3> QED BY <2>1, <2>4, <3>1, <3>2, ThrowKeeps
  <2>5. CASE /\ IsValid(sid, token, f) /\ i \notin received_chunks[f]
             /\ StoreChunk(f, i, body)
    <3>1. f \in received_files /\ session_id # 0
      BY <2>5 DEF IsValid, IInv, SessionShape
    <3> QED BY <2>1, <2>5, <3>1, StoreChunkKeeps
  <2> QED BY <1>3, <2>2, <2>3, <2>4, <2>5 DEF onSendChunk
<1> QED BY <1>1, <1>2, <1>3

\* verify-integrity: refused, thrown out, or the file is saved.
LEMMA VerifyIntegrityKeeps ==
  ASSUME IInv, NEW sid, NEW token, NEW f \in File, NEW body,
         NEW resp, onVerifyIntegrity(sid, token, f, body, resp)
  PROVE  IInv'
<1>1. CASE RefuseIdle(resp)
  BY <1>1, StutterKeeps DEF RefuseIdle
<1>2. CASE ReceiverCancels(resp)
  BY <1>2, ReceiverCancelsKeeps
<1>3. CASE ~RefuseIdle(resp) /\ ~ReceiverCancels(resp)
  <2>1. UNCHANGED <<waiting, stream, requests, accepted>>
    BY <1>3 DEF onVerifyIntegrity
  <2>2. CASE UNCHANGED <<session, disk, outcome>>
    BY <2>1, <2>2, StutterKeeps DEF vars
  <2>3. CASE FailSession(parts, resp)
    <3>1. parts \in SUBSET File
      BY DEF IInv, TypeOK
    <3> QED BY <2>1, <2>3, <3>1, ThrowKeeps
  <2>4. CASE Verifies(sid, token, f) /\ SaveFile(f)
    <3>1. /\ f \in received_files /\ session_id # 0
          /\ IsComplete(f) /\ ChecksumMatches(f)
      BY <2>4 DEF Verifies, IsValid, IInv, SessionShape
    <3> QED BY <2>1, <2>4, <3>1, SaveFileKeeps
  <2> QED BY <1>3, <2>2, <2>3, <2>4 DEF onVerifyIntegrity
<1> QED BY <1>1, <1>2, <1>3

\* cancel-send and the loss of the sender.
LEMMA CancelSendKeeps ==
  ASSUME IInv, NEW sid, NEW body, NEW resp, onCancelSend(sid, body, resp)
  PROVE  IInv'
<1>1. UNCHANGED <<waiting, stream, contents, saved, requests, accepted>>
  BY DEF onCancelSend
<1>2. CASE UNCHANGED <<session, parts, outcome>>
  BY <1>1, <1>2, StutterKeeps DEF vars, disk
<1>3. CASE resetToIdle(parts) /\ EndSession("cancelled_by_sender")
  <2>1. /\ waiting' \in [Sender -> 0 .. MaxRequests]
        /\ confirm_receive' \in Answers \cup {"empty"}
        /\ cancel_receive' \in BOOLEAN
        /\ UNCHANGED <<answered, wait_condition>>
    BY <1>1 DEF IInv, TypeOK, stream
  <2> QED BY <1>1, <1>3, <2>1, PlainResetKeeps DEF Outcomes
<1> QED BY <1>2, <1>3 DEF onCancelSend

\* The loss of the sender's connection resets the session.
LEMMA NotifySenderLostKeeps ==
  ASSUME IInv, NEW s \in Sender, NotifySenderLost(s)
  PROVE  IInv'
<1>1. /\ UNCHANGED <<waiting, stream, contents, saved, requests, accepted>>
      /\ resetToIdle(parts) /\ EndSession("sender_lost")
  BY DEF NotifySenderLost
<1>2. /\ waiting' \in [Sender -> 0 .. MaxRequests]
      /\ confirm_receive' \in Answers \cup {"empty"}
      /\ cancel_receive' \in BOOLEAN
      /\ UNCHANGED <<answered, wait_condition>>
  BY <1>1 DEF IInv, TypeOK, stream
<1> QED BY <1>1, <1>2, PlainResetKeeps DEF Outcomes

\* The user's operations and the poll that goes on change the stream only.
LEMMA UserKeeps ==
  ASSUME IInv,
         \/ \E s \in Sender : WaitPollNoList(s)
         \/ \E answer \in Answers : ConfirmReceive(answer)
         \/ CancelReceive
  PROVE  IInv'
<1>1. UNCHANGED <<session, disk, requests, accepted, outcome, waiting>>
  BY DEF WaitPollNoList, ConfirmReceive, CancelReceive
<1>2. /\ confirm_receive' \in Answers \cup {"empty"}
      /\ cancel_receive' \in BOOLEAN
      /\ answered' \in 0 .. MaxRequests /\ UNCHANGED wait_condition
  BY DEF WaitPollNoList, ConfirmReceive, CancelReceive, IInv, TypeOK
<1> QED BY <1>1, <1>2, StreamKeeps

-----------------------------------------------------------------------------
\* Every step keeps the invariant.
LEMMA IInvNext == IInv /\ [Next]_vars => IInv'
<1> SUFFICES ASSUME IInv, [Next]_vars PROVE IInv'
  OBVIOUS
<1>1. CASE UNCHANGED vars
  BY <1>1, StutterKeeps
<1>2. ASSUME NEW s \in Sender, NEW resp \in Responses,
             NEW files \in SUBSET File, NEW body, onRequestSend(s, files, body, resp)
      PROVE  IInv'
  BY <1>2, RequestSendKeeps
<1>3. ASSUME NEW s \in Sender, NEW resp \in Responses, WaitPoll(s, resp)
      PROVE  IInv'
  BY <1>3, WaitPollKeeps
<1>4. ASSUME NEW s \in Sender, NotifySenderLost(s) PROVE IInv'
  BY <1>4, NotifySenderLostKeeps
<1>5. ASSUME NEW sid \in Ids, NEW resp \in Responses, NEW token \in {0, sid},
             NEW f \in File, NEW i \in Nat, NEW body,
             onSendChunk(sid, token, f, i, body, resp)
      PROVE  IInv'
  BY <1>5, SendChunkKeeps
<1>6. ASSUME NEW sid \in Ids, NEW resp \in Responses, NEW token \in {0, sid},
             NEW f \in File, NEW body,
             onVerifyIntegrity(sid, token, f, body, resp)
      PROVE  IInv'
  BY <1>6, VerifyIntegrityKeeps
<1>7. ASSUME NEW sid \in Ids, NEW resp \in Responses,
             NEW body \in {"good", "malformed"}, onCancelSend(sid, body, resp)
      PROVE  IInv'
  BY <1>7, CancelSendKeeps
<1>8. CASE \/ \E s \in Sender : WaitPollNoList(s)
           \/ \E answer \in Answers : ConfirmReceive(answer)
           \/ CancelReceive
  BY <1>8, UserKeeps
<1> QED BY <1>1, <1>2, <1>3, <1>4, <1>5, <1>6, <1>7, <1>8, ConstantsOK DEF Next

\* IInv is an invariant of the receive controller: the types, the shape of the
\* session, the counter, what is recorded, written and saved.
THEOREM Invariance == Spec => []IInv
<1> QED BY IInvInit, IInvNext, PTL DEF Spec

\* The variables keep their types.
THEOREM TypeCorrect == Spec => []TypeOK
<1>1. IInv => TypeOK
  BY DEF IInv
<1> QED BY <1>1, Invariance, PTL

\* A session reported as successful has saved every file it accepted, and no
\* saved file is verified again, whatever chunks come after it, for any number of
\* files and chunks and any indexes.
THEOREM SavedCorrect == Spec => [](SuccessMeansSaved /\ SavedOnce)
<1>1. IInv => SuccessMeansSaved /\ SavedOnce
  BY DEF IInv
<1> QED BY <1>1, Invariance, PTL

\* A session opened for some files has one left to save as long as it is open.
THEOREM NeverStuckOpen == Spec => []OpenSessionHasWork
<1>1. IInv => OpenSessionHasWork
  BY DEF IInv
<1> QED BY <1>1, Invariance, PTL

\* A busy receiver always has a session or a polling coroutine that will free it.
THEOREM NeverStuckBusy == Spec => []BusyHasCause
<1>1. IInv => BusyHasCause
  BY DEF IInv
<1> QED BY <1>1, Invariance, PTL

-----------------------------------------------------------------------------
\* The controller implements the abstract receive session.

\* A reset either finds no session, which the abstraction does not see, or
\* aborts the open one.
LEMMA ResetAborts ==
  ASSUME IInv, NEW present, NEW how \in Promise!Aborts,
         resetToIdle(present), EndSession(how), UNCHANGED <<saved, accepted>>
  PROVE  Promise!Next \/ UNCHANGED Promise!vars
<1>1. session_id' = 0
  BY DEF resetToIdle
<1>2. CASE session_id = 0
  BY <1>1, <1>2 DEF EndSession, Promise!vars
<1>3. CASE session_id # 0
  <2>1. Promise!Abort(how)
    BY <1>1, <1>3 DEF EndSession, Promise!Abort
  <2> QED BY <2>1 DEF Promise!Next
<1> QED BY <1>2, <1>3

\* A verified file is a new file of the open session; it completes the session
\* exactly when it is the last.
LEMMA SaveFileSaves ==
  ASSUME IInv, NEW f \in received_files, IsComplete(f), ChecksumMatches(f),
         session_id # 0, SaveFile(f), UNCHANGED <<requests, accepted>>
  PROVE  Promise!Next
<1>1. /\ f \in File /\ f \notin saved
      /\ accepted[session_id] = received_files
  BY DEF IInv, TypeOK, ChecksumMatches, SavedOnce, SessionShape
<1>2. saved' = saved \cup {f}
  BY DEF SaveFile
<1>3. CASE AllFilesCompleted(completed_file_count + 1)
  <2>1. accepted[session_id] \subseteq saved'
    BY <1>1, <1>2, <1>3, CountAfterSave
  <2>2. session_id' = 0 /\ outcome' = [outcome EXCEPT ![session_id] = "completed"]
    BY <1>3 DEF SaveFile, resetToIdle, EndSession
  <2>3. Promise!Complete(f)
    BY <1>1, <1>2, <2>1, <2>2 DEF Promise!Complete
  <2> QED BY <1>1, <2>3 DEF Promise!Next
<1>4. CASE ~AllFilesCompleted(completed_file_count + 1)
  <2>1. ~(accepted[session_id] \subseteq saved')
    BY <1>1, <1>2, <1>4, CountAfterSave
  <2>2. UNCHANGED <<session_id, outcome>>
    BY <1>4 DEF SaveFile
  <2>3. Promise!Save(f)
    BY <1>1, <1>2, <2>1, <2>2 DEF Promise!Save
  <2> QED BY <1>1, <2>3 DEF Promise!Next
<1> QED BY <1>3, <1>4

\* An accepted request opens a session of files nobody offered before.
LEMMA RequestSendOpens ==
  ASSUME IInv, NEW s \in Sender, NEW files \in SUBSET File, NEW body, NEW resp,
         onRequestSend(s, files, body, resp)
  PROVE  Promise!Next \/ UNCHANGED Promise!vars
<1>1. CASE body # "throws" /\ (body = "malformed" \/ session_status # "kIdle" \/ wait_condition)
  BY <1>1 DEF onRequestSend, Promise!vars, session, disk
<1>2. CASE body = "throws"
  <2>1. CASE session_status # "kIdle"
    BY <1>2, <2>1 DEF onRequestSend, Promise!vars, session, disk
  <2>2. CASE session_status = "kIdle"
    <3>1. resetToIdle(parts) /\ EndSession("failed") /\ UNCHANGED <<saved, accepted>>
      BY <1>2, <2>2 DEF onRequestSend, disk
    <3> QED BY <3>1, ResetAborts DEF Promise!Aborts
  <2> QED BY <2>1, <2>2
<1>3. CASE body = "good" /\ session_status = "kIdle" /\ ~wait_condition
  <2>1. /\ requests' = requests + 1 /\ requests < MaxRequests
        /\ session_id' = requests'
        /\ accepted' = [accepted EXCEPT ![requests'] = files]
        /\ outcome' = [outcome EXCEPT ![requests'] = "open"]
        /\ \A m \in 1 .. MaxRequests : files \cap accepted[m] = {}
        /\ UNCHANGED disk
    BY <1>3 DEF onRequestSend
  <2>2. session_id = 0
    BY <1>3 DEF IInv, SessionShape
  <2>3. requests' \in 1 .. MaxRequests /\ requests' > requests
    BY <2>1, ConstantsOK, ChunksOK DEF IInv, TypeOK
  <2>4. outcome[requests'] = "none"
    BY <2>3 DEF IInv, FreshFiles, TypeOK
  <2>5. Promise!Open(requests', files)
    BY <2>1, <2>2, <2>4 DEF Promise!Open, Promise!Session, disk
  <2> QED BY <2>3, <2>5 DEF Promise!Next, Promise!Session
<1> QED BY <1>1, <1>2, <1>3 DEF onRequestSend

\* Every step of the controller is a step of the abstract session or none.
LEMMA StepsImplement ==
  IInv /\ [Next]_vars => [Promise!Next]_(Promise!vars)
<1> SUFFICES ASSUME IInv, [Next]_vars
             PROVE  Promise!Next \/ UNCHANGED Promise!vars
  OBVIOUS
<1>1. CASE UNCHANGED vars
  BY <1>1 DEF vars, session, disk, Promise!vars
<1>2. ASSUME NEW s \in Sender, NEW resp \in Responses,
             NEW files \in SUBSET File, NEW body, onRequestSend(s, files, body, resp)
      PROVE  Promise!Next \/ UNCHANGED Promise!vars
  BY <1>2, RequestSendOpens
<1>3. ASSUME NEW s \in Sender, NEW resp \in Responses, WaitPoll(s, resp)
      PROVE  Promise!Next \/ UNCHANGED Promise!vars
  <2>1. CASE session_status # "kWorking"
    BY <1>3, <2>1 DEF WaitPoll, Promise!vars, session
  <2>2. CASE session_status = "kWorking"
    <3>1. /\ resetToIdle(parts) /\ EndSession("failed")
          /\ UNCHANGED <<saved, accepted>>
      BY <1>3, <2>2 DEF WaitPoll
    <3> QED BY <3>1, ResetAborts DEF Promise!Aborts
  <2> QED BY <2>1, <2>2
<1>4. ASSUME NEW s \in Sender, NotifySenderLost(s)
      PROVE  Promise!Next \/ UNCHANGED Promise!vars
  <2>1. /\ resetToIdle(parts) /\ EndSession("sender_lost")
        /\ UNCHANGED <<saved, accepted>>
    BY <1>4 DEF NotifySenderLost
  <2> QED BY <2>1, ResetAborts DEF Promise!Aborts
<1>5. ASSUME NEW sid \in Ids, NEW resp \in Responses, NEW token \in {0, sid},
             NEW f \in File, NEW i \in Nat, NEW body,
             onSendChunk(sid, token, f, i, body, resp)
      PROVE  Promise!Next \/ UNCHANGED Promise!vars
  <2>1. CASE RefuseIdle(resp)
    BY <2>1 DEF RefuseIdle, vars, session, disk, Promise!vars
  <2>2. CASE ReceiverCancels(resp)
    BY <2>2, ResetAborts DEF ReceiverCancels, Promise!Aborts
  <2>3. CASE UNCHANGED <<session, disk, outcome, accepted>>
    BY <2>3 DEF session, disk, Promise!vars
  <2>4. ASSUME NEW present, FailSession(present, resp), UNCHANGED accepted
        PROVE  Promise!Next \/ UNCHANGED Promise!vars
    BY <2>4, ResetAborts DEF FailSession, Promise!Aborts
  <2>5. CASE StoreChunk(f, i, body) /\ UNCHANGED accepted
    BY <2>5 DEF StoreChunk, Promise!vars
  <2> QED BY <1>5, <2>1, <2>2, <2>3, <2>4, <2>5 DEF onSendChunk
<1>6. ASSUME NEW sid \in Ids, NEW resp \in Responses, NEW token \in {0, sid},
             NEW f \in File, NEW body,
             onVerifyIntegrity(sid, token, f, body, resp)
      PROVE  Promise!Next \/ UNCHANGED Promise!vars
  <2>1. CASE RefuseIdle(resp)
    BY <2>1 DEF RefuseIdle, vars, session, disk, Promise!vars
  <2>2. CASE ReceiverCancels(resp)
    BY <2>2, ResetAborts DEF ReceiverCancels, Promise!Aborts
  <2>3. CASE UNCHANGED <<session, disk, outcome, accepted>>
    BY <2>3 DEF session, disk, Promise!vars
  <2>4. CASE FailSession(parts, resp) /\ UNCHANGED accepted
    BY <2>4, ResetAborts DEF FailSession, Promise!Aborts
  <2>5. CASE /\ Verifies(sid, token, f) /\ SaveFile(f)
             /\ UNCHANGED <<requests, accepted>>
    <3>1. /\ f \in received_files /\ session_id # 0
          /\ IsComplete(f) /\ ChecksumMatches(f)
      BY <2>5 DEF Verifies, IsValid, IInv, SessionShape
    <3> QED BY <2>5, <3>1, SaveFileSaves
  <2> QED BY <1>6, <2>1, <2>2, <2>3, <2>4, <2>5 DEF onVerifyIntegrity
<1>7. ASSUME NEW sid \in Ids, NEW resp \in Responses,
             NEW body \in {"good", "malformed"}, onCancelSend(sid, body, resp)
      PROVE  Promise!Next \/ UNCHANGED Promise!vars
  <2>1. CASE UNCHANGED <<session, outcome, accepted, saved>>
    BY <2>1 DEF session, Promise!vars
  <2>2. CASE /\ resetToIdle(parts) /\ EndSession("cancelled_by_sender")
             /\ UNCHANGED <<saved, accepted>>
    BY <2>2, ResetAborts DEF Promise!Aborts
  <2> QED BY <1>7, <2>1, <2>2 DEF onCancelSend
<1>8. CASE \/ \E s \in Sender : WaitPollNoList(s)
           \/ \E answer \in Answers : ConfirmReceive(answer)
           \/ CancelReceive
  BY <1>8 DEF WaitPollNoList, ConfirmReceive, CancelReceive, session, disk,
              Promise!vars
<1> QED BY <1>1, <1>2, <1>3, <1>4, <1>5, <1>6, <1>7, <1>8, ConstantsOK DEF Next

\* For every set of files and senders, in both configurations, the receive
\* controller behaves as the abstract receive session.
THEOREM Refinement == Spec => ImplementsPromise
<1>1. Init => Promise!Init
  BY DEF Init, Promise!Init, Promise!Session
<1> QED BY <1>1, Invariance, StepsImplement, PTL
     DEF Spec, ImplementsPromise, Promise!Spec

-----------------------------------------------------------------------------
\* The files of other sessions are left alone.

\* The only files a step changes are files of the open session.
TouchesOwnFiles ==
  \A f \in File :
    (f \in parts) # (f \in parts') \/ contents[f] # contents'[f]
      \/ (f \in saved) # (f \in saved')
    => session_id # 0 /\ f \in accepted[session_id]

\* A cleanup only removes a .part file that is in the map of the session.
LEMMA ResetTouchesOwn ==
  ASSUME IInv, resetToIdle(parts), UNCHANGED <<contents, saved>>
  PROVE  TouchesOwnFiles
<1>1. parts' = parts \/ (session_id # 0 /\ \E f \in received_files : parts' = parts \ {f})
  BY DEF resetToIdle, doCleanup
<1>2. session_id # 0 => accepted[session_id] = received_files
  BY DEF IInv, SessionShape
<1> QED BY <1>1, <1>2 DEF TouchesOwnFiles

\* So does one that follows a write that failed in the middle.
LEMMA FailedWriteTouchesOwn ==
  ASSUME IInv, NEW f \in received_files, resetToIdle(parts \cup {f}),
         UNCHANGED <<contents, saved>>
  PROVE  TouchesOwnFiles
<1>1. session_id # 0 /\ accepted[session_id] = received_files
  BY DEF IInv, SessionShape
<1>2. \A g \in File : (g \in parts) # (g \in parts') => g \in received_files
  BY DEF resetToIdle, doCleanup
<1> QED BY <1>1, <1>2 DEF TouchesOwnFiles

\* A chunk is written to, and a save renames, a file of the session.
LEMMA StoreTouchesOwn ==
  ASSUME IInv, NEW f \in received_files, NEW i \in Nat, NEW body, StoreChunk(f, i, body)
  PROVE  TouchesOwnFiles
<1>1. session_id # 0 /\ accepted[session_id] = received_files
  BY DEF IInv, SessionShape
<1>2. contents \in [File -> SUBSET Nat]
  BY DEF IInv, TypeOK
<1> QED BY <1>1, <1>2 DEF TouchesOwnFiles, StoreChunk

LEMMA SaveTouchesOwn ==
  ASSUME IInv, NEW f \in received_files, SaveFile(f)
  PROVE  TouchesOwnFiles
<1>1. session_id # 0 /\ accepted[session_id] = received_files
  BY DEF IInv, SessionShape
<1>2. \A g \in File : (g \in parts) # (g \in parts') => g \in received_files
  <2>1. parts' = parts \ {f} \/ resetToIdle(parts \ {f})
    BY DEF SaveFile
  <2> QED BY <2>1 DEF resetToIdle, doCleanup
<1>3. saved' = saved \cup {f} /\ contents' = contents
  BY DEF SaveFile
<1> QED BY <1>1, <1>2, <1>3 DEF TouchesOwnFiles

\* A step that leaves the disk alone touches nothing.
LEMMA NothingTouched == ASSUME UNCHANGED disk PROVE TouchesOwnFiles
  BY DEF TouchesOwnFiles, disk

LEMMA StepTouchesOwn ==
  ASSUME IInv, [Next]_vars
  PROVE  TouchesOwnFiles
<1>1. CASE UNCHANGED vars
  BY <1>1, NothingTouched DEF vars
<1>2. ASSUME NEW s \in Sender, NEW resp \in Responses, WaitPoll(s, resp)
      PROVE  TouchesOwnFiles
  <2>1. CASE session_status # "kWorking"
    BY <1>2, <2>1, NothingTouched DEF WaitPoll, disk
  <2>2. CASE session_status = "kWorking"
    BY <1>2, <2>2, ResetTouchesOwn DEF WaitPoll
  <2> QED BY <2>1, <2>2
<1>3. ASSUME NEW s \in Sender, NotifySenderLost(s) PROVE TouchesOwnFiles
  BY <1>3, ResetTouchesOwn DEF NotifySenderLost
<1>4. ASSUME NEW sid \in Ids, NEW resp \in Responses, NEW token \in {0, sid},
             NEW f \in File, NEW i \in Nat, NEW body,
             onSendChunk(sid, token, f, i, body, resp)
      PROVE  TouchesOwnFiles
  <2>1. CASE RefuseIdle(resp)
    BY <2>1, NothingTouched DEF RefuseIdle, vars
  <2>2. CASE ReceiverCancels(resp)
    BY <2>2, ResetTouchesOwn DEF ReceiverCancels
  <2>3. CASE UNCHANGED disk
    BY <2>3, NothingTouched
  <2>4. CASE FailSession(parts, resp)
    BY <2>4, ResetTouchesOwn DEF FailSession
  <2>5. CASE IsValid(sid, token, f) /\ FailSession(parts \cup {f}, resp)
    BY <2>5, FailedWriteTouchesOwn DEF FailSession, IsValid
  <2>6. CASE IsValid(sid, token, f) /\ StoreChunk(f, i, body)
    BY <2>6, StoreTouchesOwn DEF IsValid
  <2> QED BY <1>4, <2>1, <2>2, <2>3, <2>4, <2>5, <2>6 DEF onSendChunk
<1>5. ASSUME NEW sid \in Ids, NEW resp \in Responses, NEW token \in {0, sid},
             NEW f \in File, NEW body,
             onVerifyIntegrity(sid, token, f, body, resp)
      PROVE  TouchesOwnFiles
  <2>1. CASE RefuseIdle(resp)
    BY <2>1, NothingTouched DEF RefuseIdle, vars
  <2>2. CASE ReceiverCancels(resp)
    BY <2>2, ResetTouchesOwn DEF ReceiverCancels
  <2>3. CASE UNCHANGED disk
    BY <2>3, NothingTouched
  <2>4. CASE FailSession(parts, resp)
    BY <2>4, ResetTouchesOwn DEF FailSession
  <2>5. CASE Verifies(sid, token, f) /\ SaveFile(f)
    BY <2>5, SaveTouchesOwn DEF Verifies, IsValid
  <2> QED BY <1>5, <2>1, <2>2, <2>3, <2>4, <2>5 DEF onVerifyIntegrity
<1>6. ASSUME NEW sid \in Ids, NEW resp \in Responses,
             NEW body \in {"good", "malformed"}, onCancelSend(sid, body, resp)
      PROVE  TouchesOwnFiles
  <2>1. CASE UNCHANGED disk
    BY <2>1, NothingTouched
  <2>2. CASE resetToIdle(parts) /\ UNCHANGED <<contents, saved>>
    BY <2>2, ResetTouchesOwn
  <2> QED BY <1>6, <2>1, <2>2 DEF onCancelSend, disk
<1>7. CASE \/ \E s \in Sender, files \in SUBSET File, body \in RequestBodies,
                 resp \in Responses : onRequestSend(s, files, body, resp)
           \/ \E s \in Sender : WaitPollNoList(s)
           \/ \E answer \in Answers : ConfirmReceive(answer)
           \/ CancelReceive
  BY <1>7, NothingTouched DEF onRequestSend, WaitPollNoList, ConfirmReceive, CancelReceive
<1> QED BY <1>1, <1>2, <1>3, <1>4, <1>5, <1>6, <1>7, ConstantsOK DEF Next

\* For every set of files and senders, no request, late, repeated or foreign, no
\* cleanup and no failure changes a file on disk that is not the open session's.
THEOREM OthersUntouched == Spec => DiskTouchedOnlyBySession
<1>1. IInv /\ [Next]_vars => [TouchesOwnFiles]_vars
  BY StepTouchesOwn
<1> QED BY <1>1, Invariance, PTL DEF Spec, DiskTouchedOnlyBySession, TouchesOwnFiles
=============================================================================
