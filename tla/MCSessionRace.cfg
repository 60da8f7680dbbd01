CONSTANTS
  c1 = c1
  c2 = c2
  ann = ann
  bob = bob
  annNotes = annNotes
  bobNotes = bobNotes
  room = room
  key = key
  pin = pin
  Client <- MCClient
  UserName <- MCUserName
  ChatName <- MCChatName
  Text <- MCText
  Token <- MCToken
  Account <- SameName
  Notes <- MCNotes
  TooLong <- Fitting
  Fault <- Breaks
  MaxId = 2
  MaxRows = 2
  MaxStarts = 2
SPECIFICATION FairSessionSpec
INVARIANTS StuckOnlyByRace OneTokenEach
PROPERTIES LoserSpins LoginEnds
CHECK_DEADLOCK FALSE
