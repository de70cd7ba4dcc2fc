CONSTANTS
  comma = comma
  semicolon = semicolon
  None = None
  Query = "query"
  BadQuery = "bad"
  NoQuery = ""
  Records = 5
  Delimiters <- MCDelimiters
  Width <- MCWidth
  Detected = comma
  Hits <- MCHits
  Key <- MCKey
  FindBatch = 2
  ExportBatch = 2
  MaxTables = 2
  IndexBatch = 3
  MaxEdits = 2
  SavedViews <- MCSavedViews
SPECIFICATION Spec
INVARIANT AppliedWasAsked
CHECK_DEADLOCK FALSE
