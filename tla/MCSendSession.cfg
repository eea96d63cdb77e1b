\* One sender and any receiver; a cancel comes once the session is known.
CONSTANTS
  s1 = s1
  f0 = f0
  f1 = f1
  Sender = {s1}
  File = {f0, f1}
  FilesOf <- MCFilesOf
  TotalChunks <- MCChunks
  LongChunks = {f1}
  LongRequests = {}
  CancelWhileWaiting = FALSE
  MaxRequests = 1
SPECIFICATION SendSpec
INVARIANTS
  SendTypeOK
  AnswersReachTheirReader
PROPERTIES
  CancelDecides
