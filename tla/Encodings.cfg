SPECIFICATION Encodings
CONSTANTS
  Key = {x, y}
  Domain = translog
  MaxLeaves = 6
  Word = 10
  Ed25519Size = 1
  MLDSASize = 1
  X25519Size = 1
  MLKEMSize = 2
  KEMSize = 1
  HashSize = 1
CHECK_DEADLOCK FALSE
INVARIANTS ProofsVerify OnlyLeavesVerify RootsDiffer ParsesBack DamageShows TranscriptBinds
