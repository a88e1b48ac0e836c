SPECIFICATION ReadSpec
CHECK_DEADLOCK FALSE
CONSTANTS
  TicksPerSec = 1
  TicksPerMin = 1
  TicksPerDay = 50
  MinutesPerHour = 2
  NBaskets = 2
  Channels = {1}
  Kinds = {"I", "A"}
  Capacity = 2
  BufSize = 1
  IBufSize = 1
  RecycleModes = {"on"}
  FirstTick = 50
  LastTick = 52
  MaxFrames = 6
  MaxStops = 0
  MaxCrashes = 0
  MaxErrors = 0
  MaxGap = 1
  Focus = 1
  MaxReads = 3
INVARIANT ReadTypeOK
 
 
 
PROPERTY ReadReturns
