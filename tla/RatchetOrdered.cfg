SPECIFICATION FairSpec
CONSTANTS
  Alice = Alice
  Bob = Bob
  Faults = {}
  MaxDups = 0
  MessageThreshold = 2
  TimeDue = {FALSE, TRUE}
  MaxSkip = 10
  MaxSend = 5
CHECK_DEADLOCK FALSE
PROPERTIES InOrderChannel EveryMessageRead
