SPECIFICATION Spec
CONSTANTS
  a = a  b = b
  Null = Null  Empty = Empty  Malformed = Malformed
  Contents <- MCContents
  Nodes <- MCNodes
  MaxLog = 3
  MaxEdits = 2
INVARIANTS
  TypeOK
  SuffixOfLog
  UneditedPasses
CHECK_DEADLOCK FALSE
