\* A cancel that comes before the session id is known.
CONSTANTS
  s1 = s1
  s2 = s2
  f1 = f1
  f2 = f2
  f3 = f3
  Sender = {s1, s2}
  File = {f1, f3}
  TotalChunks <- MCSmallChunks
  FilesOf <- MCSmallFiles
  Index = {0, 1}
  OffsetWrap = 4
  LongChunks = {f1}
  LongRequests = {}
  CancelWhileWaiting = TRUE
  MaxRequests = 2
SPECIFICATION TFairSpec
PROPERTIES
  ReceiverIsFreed
