SPECIFICATION FairSpec
CONSTANTS
  Timeout = 3
  MaxLag = 2
  MaxFrames = 3
INVARIANT RailSafe
INVARIANT LossHeld
PROPERTY SilenceCuts
