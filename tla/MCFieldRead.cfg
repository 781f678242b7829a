\* Records and their fields, by both readers: see MCFieldRead.tla for the bounds.
CONSTANTS
  PageSize = 3
  MapSize = 3
  PhysPages = 2
  UNAVAIL = 9
  Word = 16
  Tocs <- MCTocs
  Targets <- MCTargets
  FieldOffsets = {0, 1, 2, 3, 5, 6}
  FieldSizes = {0, 1, 2, 4, 7}
SPECIFICATION BothSpec
INVARIANTS
  TypeOK
  ExtentsInOrder
  BufferIsRecordPrefix
  PartsInOrder
  FieldMaximal
  ValueIsParsedSlice
  ReadersAgree
PROPERTIES
  ImplementsFetch
  PyImplementsFetch
\* A record that is refused has no fields.
CHECK_DEADLOCK FALSE
