SPECIFICATION Spec
CONSTANTS
  MaxLeaves = 5  MaxMoves = 2
  Null = Null  Unreadable = Unreadable
  body = body  otherBody = otherBody  p1 = p1  p2 = p2  b1 = b1  b2 = b2  b3 = b3
  Sizes <- MCSizes
  Tree <- MCTree
  PathOf <- MCPathOf
  Packages <- MCPackages
  Issued <- MCIssued
  Blocks <- MCBlocks
  HeaderRoot <- MCHeaderRoot
  Chains <- MCChains
INVARIANTS
  TypeOK
  VerifiedMeansLeaf
  IssuedVerifies
  ConfirmedMeansMined
  AttestedNeverPending
  StableNodeConfirms
PROPERTY AlwaysAnswers
CHECK_DEADLOCK FALSE
