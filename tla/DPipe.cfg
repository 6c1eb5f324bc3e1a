\* Two writers and two readers, one with an abstime, share a pipe with fewer
\* buffers than threads.
CONSTANTS
  Buffers = {b1, b2, b3}
  NoBuffer = NoBuffer
  Writers = {w1, w2}
  Readers = {r1, r2}
  Timed = {r2}
  MaxFrames = 4
SPECIFICATION FairSpec
INVARIANTS Conserved NoLostWakeup
PROPERTIES NullOnlyWhenAllHeld ChannelSpec FramesLeave
