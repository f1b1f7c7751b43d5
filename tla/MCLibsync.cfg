SPECIFICATION LibSpec
CONSTANTS
  Native = {n1}
  Green = {g1, g2, g3}
  Nodes = {g1, g2, g3}
  None = None
  MinInt <- Minimum
  MaxCalls = 4
  Users = {u1, u2, u3}
  NumCondvars = 1
  Permits = 1
  MaxUses = 6
  num_tasks = 3
INVARIANTS NoAssertionFails Exclusion OnceSafe RawExclusion NoneForgotten PoisonSeen BarrierTogether
PROPERTIES CallsReturn LocksReturn
