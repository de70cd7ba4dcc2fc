CONSTANTS
  None = None
  Rows = 3
  Cols = 3
  Key <- MCKey
  Kept <- MCKept
  Layouts <- MCLayouts
  Window = 2
  Page = 3
  MaxCopy = 2
  MaxActs = 2
  MaxReads = 1
SPECIFICATION GridSpec
INVARIANT GridTypeOK
INVARIANT RowsRight
PROPERTY TakesSlot
