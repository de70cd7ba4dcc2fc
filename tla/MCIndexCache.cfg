CONSTANTS
  t1 = t1
  t2 = t2
  comma = comma
  tab = tab
  None = None
  Torn = Torn
  Tables <- MCTables
  Dialects <- MCDialects
  Chunks = 2
  MaxVersions = 2
SPECIFICATION Spec
INVARIANT TypeOK
INVARIANT NoRaceRightIndex
PROPERTY OpensSettle
