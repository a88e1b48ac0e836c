SPECIFICATION Spec
CHECK_DEADLOCK FALSE
CONSTANTS
  TicksPerSec = 1
  TicksPerMin = 1
  TicksPerDay = 50
  MinutesPerHour = 2
  NBaskets = 2
  Channels = {1}
  Kinds = {"I", "P"}
  Capacity = 3
  BufSize = 1
  IBufSize = 1
  RecycleModes = {"on"}
  FirstTick = 50
  LastTick = 51
  MaxFrames = 6
  MaxStops = 1
  MaxCrashes = 1
  MaxErrors = 0
INVARIANT IndexKept
