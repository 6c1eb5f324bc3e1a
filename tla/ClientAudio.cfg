\* Seven samples in packets of one and of three, a decoder buffer of two: a packet
\* may be longer than the buffer, and a period longer or shorter than a packet.
CONSTANTS
  Limits = {0, 1, 2}
  Factors = {1, 2, 4}
  Chunks = {1, 3}
  Room = 2
  Period = 2
  MaxSamples = 7
SPECIFICATION Spec
INVARIANTS PlayedInOrder QueueBounded
PROPERTIES DropKeepsNewest
\* The stream may end before a device is open.
CHECK_DEADLOCK FALSE
