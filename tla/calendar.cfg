SPECIFICATION FairSpec
CONSTANTS
  Calendars = {"home", "work"}
  DisplayName <- Names
  MaxCalendars = 2
  FileNames <- Files
  Stamps <- Second
  Titles = {"plan", "talk"}
  Texts = {"room"}
  Contents <- PlainContents
  MaxChanges = 2
  MaxStarts = 2
INVARIANTS TypeOK ShownFollowsDisk MemoryFollowsDisk
PROPERTIES EditsAreExact DeactivationEnds
CHECK_DEADLOCK FALSE
