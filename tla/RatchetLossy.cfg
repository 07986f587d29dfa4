SPECIFICATION FairSpec
CONSTANTS
  Alice = Alice
  Bob = Bob
  Faults = {"loss", "reorder"}
  MaxDups = 0
  MessageThreshold = 2
  TimeDue = {FALSE}
  MaxSkip = 10
  MaxSend = 4
CHECK_DEADLOCK FALSE
INVARIANTS DesyncOnlyByOvertakenCT InjectionsPaired
PROPERTIES ReadUnlessOvertaken
