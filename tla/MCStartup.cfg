CONSTANTS
  s1 = s1
  s2 = s2
  Server <- MCServer
  NoServer = NoServer
  Fault <- MCFault
  MaxStarts = 4
SPECIFICATION FairStartupSpec
INVARIANTS SchemaIsWhole BareOnlyIfRefused
PROPERTIES StartEnds
CHECK_DEADLOCK FALSE
