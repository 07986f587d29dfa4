SPECIFICATION FairSpec
CONSTANTS
  a = a
  b = b
  c = c
  Client <- Clients
  Peers <- Row
  Data = {d, e}
  MaxSize = 2
  MaxTime = 2
  MaxHeads = 2
CHECK_DEADLOCK FALSE
INVARIANTS TypeOK HonestNeverImplicated EvidenceConvinces
PROPERTIES BothVictimsLearn EverySplitFound
