SPECIFICATION Spec
CONSTANTS
  d1 = d1  d2 = d2  n1 = n1  n2 = n2  n3 = n3  key = key  caKey = caKey  rogue = rogue
  Null = Null  Malformed = Malformed
  Data = {d1, d2}
  Times = {1, 2, 3}
  Ids = {n1, n2, n3}
  Keys = {key, caKey, rogue}
  Honest = {key, caKey}
  Chain <- MCChain
  Stamped <- MCStamped
  Calls <- MCCalls
INVARIANTS
  PassMeansStamped
  PassMeansGranted
  GrantedPasses
CHECK_DEADLOCK FALSE
