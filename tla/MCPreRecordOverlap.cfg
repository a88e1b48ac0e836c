SPECIFICATION Spec
CHECK_DEADLOCK FALSE
CONSTANTS
  Channels = {c1}
  Kinds = {"I", "P", "A"}
  DefaultPreSec = 1
  PreSecs = {0, 1}
  Overlap = TRUE
  MaxFrames = 4
  MaxCalls = 3
  MaxErrors = 1
  LastTick = 2
INVARIANT RecordedInOrder
INVARIANT HeadStays
INVARIANT WaitBounded
