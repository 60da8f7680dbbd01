CONSTANTS
  ann = ann
  bob = bob
  cid = cid
  room = room
  board = board
  annKey = annKey
  bobKey = bobKey
  noKey = noKey
  Nobody = Nobody
  UserName <- MCUserName
  ChatName <- MCChatName
  Text <- MCText
  Token <- MCToken
  TooLong <- MCTooLong
  Fault <- ErrorFault
  MaxId = 3
  MaxRows = 3
  User <- MCUser
  Names <- MCNames
  Rooms <- MCRooms
  Account <- MCAccount
  Board <- MCBoard
  Owner <- MCOwner
  Roles <- MCRoles
SPECIFICATION BoardsSpec
PROPERTIES JoinsAreShared ThrowsHaveReason
CHECK_DEADLOCK FALSE
