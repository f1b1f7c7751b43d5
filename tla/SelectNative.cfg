SPECIFICATION FairSpec
CONSTANTS
  N = 2
  MaxSends = 1
  Native = TRUE
INVARIANT NoAssertionFails
