SPECIFICATION Spec
CONSTANTS
  Alice = Alice
  Bob = Bob
  Faults = {"loss", "reorder"}
  MaxDups = 1
  MessageThreshold = 1
  TimeDue = {FALSE}
  MaxSkip = 1
  MaxSend = 4
CHECK_DEADLOCK FALSE
INVARIANTS TypeOK SealedOnce ReadKeysErased
PROPERTIES AtMostOnceChannel
