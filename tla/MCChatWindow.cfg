CONSTANTS
  ann = ann
  bob = bob
  room = room
  den = den
  new = new
  hi = hi
  yo = yo
  UserName <- MCUserName
  ChatName <- MCChatName
  Me = ann
  Other = bob
  Rooms <- MCRooms
  Text <- TwoTexts
  Token <- MCToken
  TooLong <- MCTooLong
  Fault <- AnyFault
  MaxId = 3
  MaxRows = 5
  MaxMessages = 2
SPECIFICATION FairWindowSpec
INVARIANTS WindowTypeOK SendsToViewedChat ListIsPrefix SameSizeSameMessages ViewIsStored
PROPERTIES ViewCatchesUp ListCatchesUp
CHECK_DEADLOCK FALSE
