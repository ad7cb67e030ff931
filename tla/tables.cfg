SPECIFICATION TablesSpec
CONSTANTS
  Keys = {1, 9, 17, 2, 8}
  Payloads = {"p", "q"}
  Operations = {"insert", "insert_shift", "remove", "remove_shift"}
  InitialCapacity = 4
  MaxEntries = 4
  ShardCapacity = 1
  ShardEntries = 6
  RecentCapacity = 8
  RecentEntries = 4
INVARIANTS TypeOK IndexAgrees StaysAllocated ProbesEnd 
PROPERTIES ImplementsStore 
