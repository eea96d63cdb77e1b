\* Two senders and an auto-accepting receiver.
CONSTANTS
  s1 = s1
  s2 = s2
  f1 = f1
  f2 = f2
  f3 = f3
  Sender = {s1, s2}
  File = {f1, f2, f3}
  TotalChunks <- MCChunks
  FilesOf <- MCFilesOf
  Index = {0, 1}
  OffsetWrap = 4
  LongChunks = {f1}
  LongRequests = {}
  CancelWhileWaiting = FALSE
  MaxRequests = 2
SPECIFICATION TSpec
INVARIANTS
  VerdictsAgree
  NoPartOutlivesItsSession
PROPERTIES
  OthersCannotEndIt
  ImplementsTransfer
