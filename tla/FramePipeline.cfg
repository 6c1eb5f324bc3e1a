\* Frames overrun both pipes while encoders come and go.
CONSTANTS
  SrcBuffers = {s1, s2}
  DstBuffers = {d1, d2}
  NoBuffer = NoBuffer
  Capture = Capture
  Filter = Filter
  Encoder = Encoder
  MaxFrames = 3
  MaxSessions = 2
SPECIFICATION FairSpec
INVARIANT BuffersSurvive
PROPERTIES  StopReturns NewestArrives
