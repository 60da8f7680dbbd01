CONSTANTS
  c1 = c1
  c2 = c2
  ann = ann
  bob = bob
  annNotes = annNotes
  bobNotes = bobNotes
  room = room
  key = key
  pin = pin
  Client <- MCClient
  UserName <- MCUserName
  ChatName <- WithRoom
  Text <- MCText
  Token <- OneToken
  Account <- OneEach
  Notes <- MCNotes
  TooLong <- BobTooLong
  Fault <- NoFault
  MaxId = 3
  MaxRows = 4
  MaxStarts = 2
SPECIFICATION SessionSpec
INVARIANTS SessionTypeOK SessionMatchesAccount NothingHalfDone
PROPERTIES EnteredByMember
CHECK_DEADLOCK FALSE
