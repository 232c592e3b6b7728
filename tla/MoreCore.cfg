SPECIFICATION Spec
CONSTANTS
  WordSize = 64
  Page = 4
  Area = 6
  Size = 16
  MaxLength = 20
INVARIANT MemoryHandedOutOnce
CHECK_DEADLOCK FALSE
