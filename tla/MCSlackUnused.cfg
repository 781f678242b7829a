CONSTANTS
  MaxEntries = 4
  PageNumbers = {0, 1, 2, 3, 9}
  UNMAPPED = 9
  FilePages = 3
  PageSize = 6
  Tocs <- MCTocs
SPECIFICATION Spec
INVARIANT
  SlackIsUnused
CHECK_DEADLOCK FALSE
