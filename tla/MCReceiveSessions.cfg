\* Any senders; the receiver accepts at once or asks its user.
CONSTANTS
  s1 = s1
  s2 = s2
  f1 = f1
  f2 = f2
  Sender = {s1, s2}
  File = {f1, f2}
  TotalChunks <- MCChunks
  MaxRequests = 2
  Index = {0, 1, 2}
  OffsetWrap = 2
  file_name <- MCNames
  Directories <- MCDirectories
  MaxInt = 2
SPECIFICATION NFairSpec
INVARIANTS
  SavedOnce
  OpenSessionHasWork
  BusyHasCause
  IInv
  SavedHasItsName
PROPERTIES
  DiskTouchedOnlyBySession
  ImplementsPromise
  NothingIsOverwritten
  BusyEnds
