SPECIFICATION FeedSpec
CONSTANTS
  HeaderPrefix <- MCPrefix
  CellBytes <- MCBytes
  DotsOf <- MCDotsOf
  Cells <- MCCells
  Alphabet <- MCAlphabet
  LineCap = 4
  FilenameCap = 2
  FFEndsCall = TRUE
  MaxSent = 5
  PaperSensor = TRUE
  Resets = TRUE
  CellPitch = 12
  RowBOffset = 5
  RowBCap = 1
  PageLines = 1
  Reasons = {"safety"}
  Segmented = FALSE
  MaxX = 41
  MaxLine = 5
INVARIANT CutsDoNotMatter
INVARIANT FilenameIsCurrent
INVARIANT TextOnPaper
CHECK_DEADLOCK FALSE
