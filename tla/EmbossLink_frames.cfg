SPECIFICATION FairLink
CONSTANTS
  Cells <- MCCells
  CellPitch = 12
  RowBOffset = 5
  RowBCap = 1
  PageLines = 1
  Reasons = {"safety", "motion"}
  Segmented = TRUE
  MaxX = 29
  MaxLine = 3
  Gap = 2
  MaxBatch = 2
INVARIANT ArmedPower
INVARIANT Recovery
INVARIANT StatusCurrent
PROPERTY GapCuts
