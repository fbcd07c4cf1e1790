SPECIFICATION StreamSpec
CONSTANTS
  HeaderPrefix <- MCPrefix
  CellBytes <- MCCells
  Alphabet <- MCAlphabet
  LineCap = 4
  FilenameCap = 2
  Resets = TRUE
  MaxSent = 6
INVARIANT ParsesDocuments
CHECK_DEADLOCK FALSE
