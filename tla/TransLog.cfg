SPECIFICATION FairSpec
CONSTANTS
  User = {bob, carol}
  Contact = {bob}
  Caller = {one, two}
  Substitutes = TRUE
  MaxKeys = 2
CHECK_DEADLOCK FALSE
INVARIANTS TypeOK HeadsConsistent PinnedIsLogged
PROPERTIES PinsMoveForward NoFalseAlarm PinsConverge
