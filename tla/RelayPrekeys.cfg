SPECIFICATION FairSpec
CONSTANTS
  User = {bob}
  Client = {c1, c2, c3}
  NoClient = NoClient
  MaxBatch = 2
  MaxCalls = 2
CHECK_DEADLOCK FALSE
INVARIANTS TelemetryExact ScansOnlyTheDrained
PROPERTIES PromiseKept CallsReturn
