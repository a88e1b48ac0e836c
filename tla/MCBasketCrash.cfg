SPECIFICATION Spec
CHECK_DEADLOCK FALSE
CONSTANTS
  TicksPerSec = 1
  TicksPerMin = 1
  TicksPerDay = 50
  MinutesPerHour = 2
  NBaskets = 3
  Channels = {1, 2}
  Kinds = {"I", "P"}
  Capacity = 3
  BufSize = 2
  IBufSize = 1
  RecycleModes = {"on"}
  FirstTick = 50
  LastTick = 51
  MaxFrames = 7
  MaxStops = 0
  MaxCrashes = 1
  MaxErrors = 0
INVARIANT TypeOK
INVARIANT SearchSound
INVARIANT RowsPrompt
INVARIANT IndexKept
INVARIANT LiveBasketNamed
INVARIANT StrandedBound
