\* A pool of two buffers, a decoder buffer of three units, seven units in all.
CONSTANTS
  Buffers = {b1, b2}
  NoBuffer = NoBuffer
  Live = Live
  Main = Main
  Space = 3
  Sizes = {1, 2}
  MaxUnits = 7
SPECIFICATION VideoFairSpec
INVARIANTS PoolServes RendersCovered
PROPERTIES  PicturesShown
\* The stream ends, and packets may cease to come.
CHECK_DEADLOCK FALSE
