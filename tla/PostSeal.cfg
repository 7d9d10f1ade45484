SPECIFICATION Spec
CONSTANTS
  a = a  b = b
  Null = Null
  Nums <- MCNums
  Root = 1
  Info = 2
  Marks <- MCMarks
  Seals <- MCSeals
  Rewrites <- MCRewrites
  MaxRevisions = 2
  MaxHistory = 4
  MaxWrites = 2
INVARIANT AcceptedShowsSealed
PROPERTY RenewalKeepsVerdict
CHECK_DEADLOCK FALSE
