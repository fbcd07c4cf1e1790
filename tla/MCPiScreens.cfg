CONSTANTS MaxCrashes = 1  MaxQueue = 1
CONSTANTS MaxText = 5  MaxChords = 1  MaxHeard = 2  QueueLimit = 1
CONSTANTS Names = {1, 3}  MaxIds = 5  MaxFull = 1
CONSTANTS Articles = {1, 2}  Viewers = {"b1"}  Backlog = 1
CONSTANTS Chars = {"2", ".", "-", "/", "(", ")"}  MaxLine = 5
CONSTANTS Tiny = 4  Largest = 1000  Finest = 10  Close = 100  Figures = 2  Widest = 100
CONSTANTS Durations = {1, 2}  WorkSec = 2  BreakSec = 1  MaxLate = 3  MaxRan = 8  MaxStops = 2
CONSTANTS Boards = {"usb", "web"}  Dots = {"d1", "d4"}  Controls = {"enter"}
CONSTANTS Debounce = 2  ChordLimit = 3  ShiftHold = 1  ComboHold = 2  Fields = {"youtube"}
CONSTANT Standalone <- MCStandalone
CONSTANT Text <- MCText
CONSTANT Book <- MCBook
CONSTANT Words <- MCWords
CONSTANT Matches <- MCMatches
CONSTANT Lists <- MCLists
CONSTANT Budget <- MCBudget
SPECIFICATION Spec
INVARIANT TargetStays
INVARIANT OpenIsStored
INVARIANT ReadersInText
INVARIANT ParsesGrammar
INVARIANT KeepsTime
INVARIANT ChordsComplete
INVARIANT SaysTheLast
PROPERTY DeliversOpenTake
INVARIANT WordStaysInVisit
INVARIANT ExitsPaired
PROPERTY ViewersCatchUp
CHECK_DEADLOCK FALSE
