\* Two messages from the frontend, or one written twice, and two feedbacks, the
\* settings included.
CONSTANTS
  MaxMessages = 2
  MaxFeedbacks = 2
SPECIFICATION IpcFairSpec
INVARIANTS
  IpcTypeOK
  MessagesAreFramed
  FeedbacksInOrder
  OperationsTakeEffect
PROPERTIES
  LoopsEndWithPipe
  FeedbackIsDelivered
  ExitEnds
