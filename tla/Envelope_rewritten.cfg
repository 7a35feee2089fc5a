SPECIFICATION ESpec
CONSTANTS
  Extension <- MCExtension
  Text <- MCText
  Metadata <- MCMetadata
  Roster <- MCRoster
  More <- MCMore
  Stray <- MCStray
  MaxSafeInteger = 2
  MaxEdits = 2
INVARIANTS VerifiedIsSigned EveryEncodingVerifies NamesInOrder
CHECK_DEADLOCK FALSE
