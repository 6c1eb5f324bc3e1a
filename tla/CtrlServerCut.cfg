\* A recv ends inside a message.
CONSTANTS
  BufSize = 8
  Handshake = 3
  Sizes <- MCSizes
  Payload = 0
  MaxMsgs = 3
SPECIFICATION ServerSpec
INVARIANT ReplayedAfterHandshake
CHECK_DEADLOCK FALSE
