SPECIFICATION FairSpec
CONSTANTS
  Contents = {a, b}
  MaxMimes = 1
  MaxSets = 2
  MaxCopies = 2
  MaxPastes = 1
INVARIANTS TypeOK IgnoresOncePerSet SendsLiveData ReadsOthersOnly
PROPERTIES SetClipboardReturns ShutdownEnds CopiesAreRecorded PastesAreServed
CHECK_DEADLOCK FALSE
