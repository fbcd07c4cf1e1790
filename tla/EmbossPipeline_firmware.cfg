CONSTANTS
  Cells <- MCCells
  CellPitch = 12
  RowBOffset = 5
  RowBCap = 2
  PageLines = 2
  Reasons = {"safety"}
  Segmented = TRUE
  MaxX = 41
  MaxLine = 4
SPECIFICATION FairSpec
INVARIANT FaultIsDead
INVARIANT QueueNeverFull
PROPERTY NoStrikeInFault
PROPERTY FormFeedEndsPage
PROPERTY KeepsContract
PROPERTY CommandReturns
