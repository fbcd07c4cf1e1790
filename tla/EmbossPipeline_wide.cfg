CONSTANTS
  Cells <- MCCells
  CellPitch = 4
  RowBOffset = 10
  RowBCap = 2
  PageLines = 2
  Reasons = {"safety"}
  Segmented = FALSE
  MaxX = 22
  MaxLine = 3
SPECIFICATION Spec
INVARIANT LineFaithful
INVARIANT LineComplete
INVARIANT IInv
