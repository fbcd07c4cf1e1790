SPECIFICATION FairLink
CONSTANTS
  Cells <- MCCells
  CellPitch = 12
  RowBOffset = 5
  RowBCap = 1
  PageLines = 1
  Reasons = {"safety", "motion"}
  Segmented = TRUE
  MaxX = 17
  MaxLine = 2
  Gap = 2
  MaxBatch = 2
PROPERTY GapIsCut
