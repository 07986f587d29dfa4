SPECIFICATION FairConversation
CONSTANTS
  User = {alice, bob}
  Alice = alice
  Bob = bob
  TTL = 0
  MaxTime = 2
  MaxSend = 3
  MessageThreshold = 1
  TimeDue = {FALSE}
  MaxSkip = 1
CHECK_DEADLOCK FALSE
INVARIANTS KeysPartOnlyByLoss OnlyLostAreSkipped
PROPERTIES RelayIsNetwork MailboxKept PurgedOnlyExpired AcceptedAreRead
