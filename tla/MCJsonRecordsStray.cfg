CONSTANTS
  None = None
  Values <- MCValues
  Files <- MCStray
  Specs <- MCSpecs
  Key <- MCKey
  HeadLength = 8
  Interval = 2
  Cadence = 2
  Sample = 2
  MaxViews = 1
  MaxLength = 2
SPECIFICATION Spec
INVARIANT RowsWithinText
CHECK_DEADLOCK FALSE
