CONSTANTS
  Workers = {w1, w2}
  Outcomes = {"ok"}
  Fat = {0}
  FatSize = 1
  Tables = {2}
  FsInfo = 3
  FileData = {4}
  PerBlock = 2
SPECIFICATION Spec
INVARIANT NoUpdateLost
CHECK_DEADLOCK FALSE
