CONSTANTS
  ann = ann
  bob = bob
  room = room
  den = den
  long = long
  hello = hello
  key = key
  UserName <- MCUserName
  ChatName <- TwoRooms
  Text <- MCText
  Token <- MCToken
  TooLong <- Fitting
  Fault <- CommitFault
  MaxId = 2
  MaxRows = 2
  MaxInt = 1
SYMMETRY Names
SPECIFICATION ServerSpec
PROPERTIES ImplementsChatService
