SPECIFICATION Spec
CONSTANTS
  Sessions = {s1, s2}
  Convs = {v1}
  Tasks = {t1}
  Recovery = Recovery
  Commands = {c1}
  MaxRecords = 2
  MaxGen = 2
  Overlap = FALSE
  SavesFail = FALSE
  TakeoverKnown = TRUE
  None = None
INVARIANT SingleWorker
