SPECIFICATION Spec
CONSTANTS
  Alice = Alice
  Bob = Bob
  Faults = {"reorder"}
  MaxDups = 0
  MessageThreshold = 1
  TimeDue = {FALSE}
  MaxSkip = 10
  MaxSend = 4
CHECK_DEADLOCK FALSE
INVARIANTS InSync
