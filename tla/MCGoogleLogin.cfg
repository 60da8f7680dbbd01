CONSTANTS
  c1 = c1
  c2 = c2
  Client <- MCClient
  NoClient = NoClient
  MaxClicks = 3
SPECIFICATION FairLoginSpec
INVARIANTS PortIsHeld
PROPERTIES NextWindowIsNamed SecondClickSticks GrantedLoginGoesOn
CHECK_DEADLOCK FALSE
