CONSTANTS
  c1 = c1
  c2 = c2
  ann = ann
  bob = bob
  annNotes = annNotes
  bobNotes = bobNotes
  room = room
  key = key
  pin = pin
  Client <- MCClient
  UserName <- MCUserName
  ChatName <- MCChatName
  Text <- MCText
  Token <- OneToken
  Account <- OneEach
  Notes <- MCNotes
  TooLong <- Fitting
  Fault <- NoFault
  MaxId = 4
  MaxRows = 4
  MaxStarts = 2
SPECIFICATION SessionSpec
PROPERTIES AddsFirstChat
CHECK_DEADLOCK FALSE
