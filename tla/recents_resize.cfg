SPECIFICATION Spec
CONSTANTS
  Keys = {1, 2, 5, 6}
  Payloads = {"p"}
  Operations = {"insert_shift"}
  InitialCapacity = 4
  MaxEntries = 5
INVARIANT NoDuplicateKeys
