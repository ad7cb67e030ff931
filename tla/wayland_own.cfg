SPECIFICATION Spec
CONSTANTS
  Contents = {a, b}
  MaxMimes = 1
  MaxSets = 2
  MaxCopies = 1
  MaxPastes = 1
INVARIANT NeverReadsOwn
CHECK_DEADLOCK FALSE
