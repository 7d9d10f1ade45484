SPECIFICATION Spec
CONSTANTS
  a = a  b = b
  Null = Null  Empty = Empty  Malformed = Malformed
  Contents <- MCContents
  Nodes <- MCNodes
  MaxLog = 3
  MaxEdits = 1
INVARIANTS
  NoEntryModified
CHECK_DEADLOCK FALSE
