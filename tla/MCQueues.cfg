SPECIFICATION QueuesSpec
CONSTANTS
  Stealers = {s1, s2}
  MIN_BITS = 1
  K = 2
  MaxPush = 4
  CacheBounds = {0, 1, 2}
  WORD = 8
  SpscPushes = 5
  Pushers = {p1, p2, p3}
  MpscPushes = 5
  Ends = {e1, e2, e3}
  Asked = {1, 3}
  MpmcPushes = 3
  MpmcPops = 3
SYMMETRY QueueSymmetry
INVARIANTS TakesEnds Contents
PROPERTIES SpscRefines MpscRefines MpmcRefines
