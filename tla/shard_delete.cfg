SPECIFICATION Spec
CONSTANTS
  Keys = {1, 9, 2}
  Payloads = {"p"}
  Operations = {"insert", "remove"}
  InitialCapacity = 8
  MaxEntries = 5
INVARIANT EveryEntryFound
