SPECIFICATION Spec
CONSTANTS
  G1 = G1  Ee = Ee  TsaCa = TsaCa  IdCa = IdCa  Foreign = Foreign
  A = A  B = B  Sub = Sub  Unit = Unit  Rogue = Rogue
  Null = Null
  Names <- MCNames
  Keys <- MCKeys
  Times = {1, 2}
  Pinned <- MCPinned
  Direct <- MCDirect
  Intermediates <- MCIntermediates
  Signers <- MCSigners
  Bundles <- MCBundles
  RootFiles <- MCRootFiles
  Longer <- MCLonger
  MaxDepth = 2
  MaxRuns = 1
INVARIANTS
  TypeOK
  PassMeansPath
  PathFound
  RootsOfThisRun
PROPERTY ChainEnds
CHECK_DEADLOCK FALSE
