CONSTANTS
  p1 = p1
  p2 = p2
  i1 = i1
  i2 = i2
  i3 = i3
  i4 = i4
  NoFile = NoFile
  Processes <- OneProcess
  Inodes <- MCInodes
  Chunks = 2
  MaxVersions = 2
  Kinds = {"remote"}
SPECIFICATION Spec
SYMMETRY Symmetry
INVARIANT ReusedCopyIsCurrent
