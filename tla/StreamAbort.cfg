SPECIFICATION Spec
CONSTANTS
  MaxSends = 1
  MAX_STEALS = 1
  Selects = TRUE
  DISCONNECTED <- Minimum
INVARIANT AbortDisconnected
