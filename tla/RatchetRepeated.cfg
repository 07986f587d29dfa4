SPECIFICATION Spec
CONSTANTS
  Alice = Alice
  Bob = Bob
  Faults = {}
  MaxDups = 1
  MessageThreshold = 20
  TimeDue = {FALSE}
  MaxSkip = 10
  MaxSend = 4
CHECK_DEADLOCK FALSE
INVARIANTS NothingFreshRefused
