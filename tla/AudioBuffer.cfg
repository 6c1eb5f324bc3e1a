\* The capture thread overruns an encoder that comes and goes.
CONSTANTS
  BufSize = 5
  Chunks <- MCChunks
  Wants <- MCWants
  MaxFrames = 12
SPECIFICATION Spec
INVARIANTS Accounted FillsAllocated
 
