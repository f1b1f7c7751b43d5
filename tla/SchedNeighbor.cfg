SPECIFICATION Spec
CONSTANTS
  a = a
  b = b
  t1 = t1
  t2 = t2
  Scheds = {a, b}
  Tasks = {t1, t2}
  None = None
  Setups <- UvPool
INVARIANT MessageSeen
