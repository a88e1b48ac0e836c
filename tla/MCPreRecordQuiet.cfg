SPECIFICATION Spec
SYMMETRY ChannelSymmetry
CHECK_DEADLOCK FALSE
CONSTANTS
  Channels = {c1, c2}
  Kinds = {"I", "P"}
  DefaultPreSec = 1
  PreSecs = {1}
  Overlap = FALSE
  MaxFrames = 4
  MaxCalls = 4
  MaxErrors = 1
  LastTick = 2
INVARIANT TypeOK
INVARIANT KeyFrameFirst
INVARIANT NothingLost
