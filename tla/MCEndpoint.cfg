CONSTANTS
  c1 = c1
  c2 = c2
  yes = yes
  no = no
  fail = fail
  Client <- MCClient
  Answer <- MCAnswer
  MaxCalls = 3
  Local <- MCLocal
  Calling <- MCCalling
  Request <- MCRequest
  State = {TRUE, FALSE}
  Asks <- MCAsks
  Resume <- MCResume
  Turn <- MCTurn
  Result <- MCResult
  Start <- MCStart
  Empty = FALSE
SPECIFICATION FairHandlers
INVARIANTS TypeOK NeverSatisfiedTwice WaitingIsJustified NoStrayReply
PROPERTIES ImplementsRemoteCall LostCallHangs CallReturns ExitEnds ImplementsAtomicCalls
CHECK_DEADLOCK FALSE
