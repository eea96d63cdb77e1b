\* Two coroutines that write to the pipe at once.
CONSTANTS
  MaxMessages = 1
  MaxFeedbacks = 1
SPECIFICATION IpcSpec
INVARIANTS
  WritersTakeTurns
