SPECIFICATION FairSpec
CONSTANTS
  Sessions = {s1, s2}
  Convs = {v1}
  Tasks = {t1}
  Recovery = Recovery
  Commands = {c1}
  MaxRecords = 2
  MaxGen = 2
  Overlap = FALSE
  SavesFail = FALSE
  TakeoverKnown = FALSE
  None = None
INVARIANT LiveIsClean
 
 
PROPERTY YieldsToTerminal
