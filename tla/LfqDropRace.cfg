SPECIFICATION Spec
CONSTANTS
  Threads = {t1, t2, t3}
  Enqueuers = {t1, t2, t3}
  Dequeuers = {t2, t3}
  Live = {t1, t3}
  Nodes = {dummy, x1, x2, x3}
  Dummy = dummy
  Null = null
  Values = {v1, v2}
  None = none
  NeedsDrop = TRUE
INVARIANTS HandedOutIntact

