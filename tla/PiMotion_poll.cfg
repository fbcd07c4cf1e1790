SPECIFICATION FairSpec
CONSTANTS
  Docs <- MCDocs
  Text <- MCText
  RowADots = {1}
  RowBDots = {2}
  CellPitch = 960
  RowBOffset = 400
  PageLines = 2
  Capacity = 2
  Causes = {"freefall"}
  Silence = 4
  Modes = {"ask", "always", "store"}
  MaxFaults = 1
  MaxKeys = 1
  MaxJobs = 1
  MaxInbox = 1
  MaxFailures = 1
INVARIANT DotsInPlace
INVARIANT DotsComplete
INVARIANT PaperIndexTrue
PROPERTY GateCatchesUp
PROPERTY BatteryHolds
PROPERTY KeptStaysKept
