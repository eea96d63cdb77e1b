\* Three messages in either direction.
CONSTANTS
  MaxLength = 2
  Texts <- MCTexts
  MaxMessages = 3
SPECIFICATION PFairSpec
INVARIANTS
  ReadAsWritten
PROPERTIES
  MessagesArrive
CHECK_DEADLOCK FALSE
