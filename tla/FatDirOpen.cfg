CONSTANTS
  Short = {"b1"}
  Long = {"l1", "l2"}
  Parts = 1
  Clusters = {2, 3}
  PerCluster = 3
  FileIds = {1}
  MaxLocks = 2
  MaxDirs = 1
  MaxFiles = 2
  MaxStubs = 1
  Alias <- AliasOf
SPECIFICATION DirSpec
INVARIANT OpenDirStays
CHECK_DEADLOCK FALSE
