SPECIFICATION Spec
CHECK_DEADLOCK FALSE
CONSTANTS
  TicksPerSec = 2
  TicksPerMin = 2
  TicksPerDay = 2
  MinutesPerHour = 2
  NBaskets = 3
  Channels = {1, 2}
  Kinds = {"I", "P", "A"}
  Capacity = 2
  BufSize = 1
  IBufSize = 1
  RecycleModes = {"on"}
  FirstTick = 2
  LastTick = 4
  MaxFrames = 6
  MaxStops = 1
  MaxCrashes = 0
  MaxErrors = 0
 
INVARIANT RecordedTimesTrue
PROPERTY RecyclesOldest
