CONSTANTS
  ann = ann
  bob = bob
  room = room
  den = den
  long = long
  hello = hello
  key = key
  UserName <- MCUserName
  ChatName <- MCChatName
  Text <- MCText
  Token <- MCToken
  TooLong <- MCTooLong
  Fault <- MCFault
  MaxId = 2
  MaxRows = 2
  MaxInt = 1
SYMMETRY Names
SPECIFICATION ServerSpec
INVARIANTS TypeOK Integrity SuccessIsStored RowsAreUsable
PROPERTIES AppendOnly FailStoresNothing
