SPECIFICATION Spec
CHECK_DEADLOCK FALSE
CONSTANTS
  TicksPerSec = 1
  TicksPerMin = 1
  TicksPerDay = 2
  MinutesPerHour = 2
  NBaskets = 2
  Channels = {1}
  Kinds = {"I", "P"}
  Capacity = 2
  BufSize = 1
  IBufSize = 1
  RecycleModes = {"once"}
  FirstTick = 2
  LastTick = 4
  MaxFrames = 8
  MaxStops = 0
  MaxCrashes = 0
  MaxErrors = 0
PROPERTY OnceKeepsRows
