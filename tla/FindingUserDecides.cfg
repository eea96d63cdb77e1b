\* A user who agrees to a request.
CONSTANTS
  s1 = s1
  s2 = s2
  f1 = f1
  f2 = f2
  Sender = {s1, s2}
  File = {f1}
  TotalChunks <- MCOneFile
  MaxRequests = 2
  Index = {0}
  OffsetWrap = 2
  file_name <- MCName
  Directories <- MCDirectories
  MaxInt = 2
SPECIFICATION NSpec
PROPERTIES
  UserDecides
