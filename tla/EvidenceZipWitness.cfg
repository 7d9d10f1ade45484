SPECIFICATION Spec
CONSTANTS
  p1 = p1  p2 = p2  q = q  x = x  r = r
  Null = Null  Corrupt = Corrupt  Malformed = Malformed
  Versions = {p1, p2, q, x, r}
  Stamped = {p1, p2}
  SelfStamped = {x}
  KnownFormat = {p1, p2, q, x}
  AnchoredHead = {q}
  FactKeys = {"source_url"}
  Assets <- MCAssets
  ProofHashed <- MCProofHashed
  Bound <- MCBound
  Ships <- MCShips
  CaptureMode <- MCCaptureMode
  Stamps <- MCStamps
  Signer <- MCSigner
  Certs <- MCCerts
  Services <- MCServices
  BadLists = {r}
  Issued = {p1}
  Options <- PlainOptions
  Editable <- WitnessOnly
  MaxEdits = 1
INVARIANTS
  WitnessNeverDecides
CHECK_DEADLOCK FALSE
