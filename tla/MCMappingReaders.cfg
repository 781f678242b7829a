CONSTANTS
  DataEntries = 2
  IndexEntries = 1
  MaxSaves = 5
  MaxCrashes = 2
  ABSENT = ABSENT
  NOPAGE = NOPAGE
  NOROOT = NOROOT
SPECIFICATION Spec
INVARIANTS
  PicksNewest
  LastSaveLoaded
  MapsOfOneSave
  FailsOnlyIfTorn
CHECK_DEADLOCK FALSE
