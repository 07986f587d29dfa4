SPECIFICATION FairSpec
CONSTANTS
  Initiator = {alice, carol}
  Responder = bob
  MaxBatch = 2
  MaxBatches = 3
  MaxIdentities = 2
CHECK_DEADLOCK FALSE
INVARIANTS SessionsAgree OneTimeFresh OnlyReplacedAreRefused
PROPERTIES InitialsAnswered
