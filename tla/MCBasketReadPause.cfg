SPECIFICATION ReadSpec
CHECK_DEADLOCK FALSE
CONSTANTS
  TicksPerSec = 1
  TicksPerMin = 1
  TicksPerDay = 50
  MinutesPerHour = 2
  NBaskets = 2
  Channels = {1}
  Kinds = {"I", "P"}
  Capacity = 3
  BufSize = 1
  IBufSize = 1
  RecycleModes = {"on"}
  FirstTick = 50
  LastTick = 52
  MaxFrames = 4
  MaxStops = 0
  MaxCrashes = 0
  MaxErrors = 0
  MaxGap = 1
  Focus = 1
  MaxReads = 3
PROPERTY PauseSkipsNothing
