SPECIFICATION Spec
CONSTANTS
  Alice = Alice
  Bob = Bob
  Faults = {"loss"}
  MaxDups = 0
  MessageThreshold = 20
  TimeDue = {FALSE}
  MaxSkip = 1
  MaxSend = 5
CHECK_DEADLOCK FALSE
INVARIANTS NeverStuck
