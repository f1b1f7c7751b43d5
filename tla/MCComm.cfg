SPECIFICATION CommSpec
CONSTANTS
  Values = {v1, v2}
  None = None
  StreamSends = 4
  StreamSteals = 1
  Selects = TRUE
  DISCONNECTED <- Minimum
  Senders = {s1, s2, s3}
  TrySenders = {s1}
  Caps = {0, 1, 2}
  SyncSends = 3
  N = 3
  SelectSends = 1
  Native = FALSE
INVARIANTS NoAssertionFails OneWaker NoDataRace ExactlyOnce ChannelAssertions StreamCovered StreamDelivered SyncConserved SyncCovered SelectHeld
PROPERTY ChannelCallsReturn
