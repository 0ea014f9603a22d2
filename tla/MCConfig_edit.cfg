SPECIFICATION Spec
CONSTANTS
  p1 = p1
  Clis <- MCClis
  Paths <- MCPaths
  Scalars <- MCScalars
  Files <- MCFiles
  Edits <- MCEdits
  MaxRev = 3
INVARIANT EditedValidates
