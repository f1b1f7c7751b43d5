SPECIFICATION FairSpec
CONSTANTS
  Senders = {s1, s2, s3}
  MaxSends = 2
  MAX_STEALS = 0
  Inherits = {"none", "owned", "shared"}
  Selects = TRUE
  DISCONNECTED <- Minimum
  FUDGE = 100
INVARIANTS NoAssertionFails SleeperCovered Delivered
PROPERTY CallsReturn
