\* The bytes arrive as TCP likes.
CONSTANTS
  BufSize = 8
  Handshake = 3
  Sizes <- MCSizes
  Payload = 0
  MaxMsgs = 4
SPECIFICATION ServerFairSpec
INVARIANTS InBuffer ReplayedIfWhole
PROPERTY AllHandled
CHECK_DEADLOCK FALSE
