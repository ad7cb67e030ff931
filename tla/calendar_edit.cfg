SPECIFICATION Spec
CONSTANTS
  Calendars = {"home", "work"}
  DisplayName <- Names
  MaxCalendars = 2
  FileNames <- Files
  Stamps <- Second
  Titles = {"plan", "talk"}
  Texts = {"room"}
  Contents <- SeriesContents
  MaxChanges = 2
  MaxStarts = 1

PROPERTY EditsAreExact
CHECK_DEADLOCK FALSE
