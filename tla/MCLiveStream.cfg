CONSTANTS
  Lines = {video, audio}
  NumBuf = 2
  StmBufs = 1
  MsgLen = 2
  MaxStarts = 2
  MaxFails = 1

SPECIFICATION Spec
INVARIANT TypeOK
INVARIANT BuffersConserved
INVARIANT NoFreedBufferFilled
INVARIANT NoStaleAnswer
INVARIANT AnsweredAsAsked
PROPERTY RecordingGoesOn
PROPERTY CallsReturn
CHECK_DEADLOCK FALSE
