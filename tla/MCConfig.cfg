SPECIFICATION Spec
CONSTANTS
  p1 = p1
  Clis <- MCClis
  Paths <- MCPaths
  Scalars <- MCScalars
  Files <- MCFiles
  Edits <- MCEdits
  MaxRev = 4
INVARIANT TypeOK
INVARIANT HistorySound
INVARIANT ActiveIsRecorded
INVARIANT SecretsSurvive
INVARIANT NothingSlipsIn
INVARIANT SecretChangesFlagged
INVARIANT PublishedValidates
PROPERTY OverwritesRecoverable
