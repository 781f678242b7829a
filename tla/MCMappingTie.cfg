CONSTANTS
  DataEntries = 2
  IndexEntries = 1
  MaxSaves = 3
  MaxCrashes = 0
  ABSENT = ABSENT
  NOPAGE = NOPAGE
  NOROOT = NOROOT
SPECIFICATION Spec
INVARIANT
  CppPicksNewest
CHECK_DEADLOCK FALSE
