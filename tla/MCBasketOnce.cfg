SPECIFICATION Spec
CHECK_DEADLOCK FALSE
CONSTANTS
  TicksPerSec = 1
  TicksPerMin = 1
  TicksPerDay = 50
  MinutesPerHour = 2
  NBaskets = 3
  Channels = {1}
  Kinds = {"I", "P"}
  Capacity = 2
  BufSize = 1
  IBufSize = 1
  RecycleModes = {"on", "once"}
  FirstTick = 50
  LastTick = 51
  MaxFrames = 7
  MaxStops = 1
  MaxCrashes = 0
  MaxErrors = 1
INVARIANT SearchSound
INVARIANT EntriesInside
PROPERTY OnceKeepsFrames
