CONSTANTS
  None = None
  Values <- MCValues
  Files <- MCFiles
  Specs <- MCSpecs
  Key <- MCKey
  HeadLength = 8
  Interval = 2
  Cadence = 2
  Sample = 2
  MaxViews = 2
  MaxLength = 2
SPECIFICATION Spec
INVARIANT TypeOK
INVARIANT ServesRecords
PROPERTY ScanEnds
CHECK_DEADLOCK FALSE
