SPECIFICATION Spec
CONSTANTS
  a = a  b = b  s = s  e = e  x = x  q = q  r = r  rogue = rogue
  idA = idA  idB = idB  idS = idS
  Null = Null  Corrupt = Corrupt
  Versions = {a, b, s, e, x}
  Format <- MCFormat
  FromApp <- MCFromApp
  Session <- MCSession
  Tsa <- MCTsa
  Binds <- MCBinds
  Declares <- MCDeclares
  PageList <- MCPageList
  WithVideo <- MCWithVideo
  Pinned = {q, r}
  Granted <- MCGranted
  Embeds <- MCEmbeds
  Lists <- MCLists
  External <- MCExternal
  Cites <- MCCites
  Twin <- MCTwin
  Order <- MCOrder
  Suffixed <- MCSuffixed
  Garbled <- MCGarbled
  CommandLines <- OutputLines
INVARIANT ReportNeverVerified
CHECK_DEADLOCK FALSE
