\* A video channel: packets larger than the frame buffer are split.
CONSTANTS
  BufSize = 6
  Sizes <- MCSizes
  FrameLimits <- MCFrameLimits
  CutsLarge = TRUE
  MaxPackets = 5
SPECIFICATION Spec
INVARIANTS ContentIntact SpaceAccounted CopyIntact IInv
PROPERTY FifoSpec
